--------------------------- MODULE MCTcpListener ---------------------------
(* Two events for the instances of TcpListener: one that fits into a       *)
(* buffer of 2 bytes and one that needs two rounds.                        *)
EXTENDS TcpListener

CONSTANTS e1, e2

Lengths == [e \in Events |-> IF e = e1 THEN 2 ELSE 3]

=============================================================================
