----------------------------- MODULE MCTimeline -----------------------------
(* Instances of Timeline for TLC. *)
EXTENDS Timeline, TLC

CONSTANTS a, b, tl1, tl2, e1, e2, e3, l1

\* Two threads share a timeline, and one of them has another one on the same
\* container.
MixedUse == {<<a, tl1>>, <<b, tl1>>, <<b, tl2>>}

\* With Capacity 3: e2 fills the buffer, e1 and e2 exceed it by one byte, and
\* e3 is larger than the buffer.
Sizes == (e1 :> 1) @@ (e2 :> 3) @@ (e3 :> 4)

=============================================================================
