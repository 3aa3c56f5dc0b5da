---------------------------- MODULE EventStream ----------------------------
(***************************************************************************)
(* What the tracing library promises a listener: every stream (timeline)   *)
(* is a log that only grows at its end, and what a listener has got of a   *)
(* stream is a contiguous piece of that log which only grows at its end,   *)
(* too.  A listener may join late, but once it has joined it never misses, *)
(* repeats or reorders an event.                                           *)
(***************************************************************************)
EXTENDS Naturals, Sequences

CONSTANTS Streams, Listeners, Events

VARIABLES log,   \* log[s]: the events accepted by stream s
          got    \* got[l][s]: the events of s handed to listener l

svars == <<log, got>>

Init ==
  /\ log = [s \in Streams |-> << >>]
  /\ got = [l \in Listeners |-> [s \in Streams |-> << >>]]

Accept(s, e) ==
  /\ log' = [log EXCEPT ![s] = Append(@, e)]
  /\ UNCHANGED got

\* Listener l gets log[s][first..last], of which it already has a beginning.
Deliver(l, s, first, last) ==
  LET piece == SubSeq(log[s], first, last) IN
  /\ Len(got[l][s]) < Len(piece)
  /\ got[l][s] = SubSeq(piece, 1, Len(got[l][s]))
  /\ got' = [got EXCEPT ![l][s] = piece]
  /\ UNCHANGED log

Next ==
  \E s \in Streams :
    \/ \E e \in Events : Accept(s, e)
    \/ \E l \in Listeners, first, last \in 1..Len(log[s]) :
         Deliver(l, s, first, last)

Spec == Init /\ [][Next]_svars
=============================================================================
