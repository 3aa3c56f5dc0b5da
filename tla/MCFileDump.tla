----------------------------- MODULE MCFileDump -----------------------------
(* Instances of FileDump for TLC. *)
EXTENDS FileDump, TLC

CONSTANTS a, b, c1, c2, c3

\* Against a buffer of 3 bytes: a chunk may fit, fill it exactly, or need two
\* rounds.
Lengths == (Meta :> 2) @@ (c1 :> 3) @@ (c2 :> 4) @@ (c3 :> 1)
=============================================================================
