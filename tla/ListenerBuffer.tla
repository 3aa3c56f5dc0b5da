--------------------------- MODULE ListenerBuffer ---------------------------
(***************************************************************************)
(* The byte buffer in front of a listener's output (listener_buffer.c).    *)
(*                                                                         *)
(* The buffer is the sequence of the bytes it holds, at most max of them   *)
(* (max_size; 0 is the bypass mode); the flush callback is the bytes it is *)
(* called with.  One iteration of the loop of each process function is an  *)
(* operator on the buffer and the bytes of the call still to be processed. *)
(***************************************************************************)
EXTENDS Naturals, Sequences

Lesser(m, n) == IF m > n THEN n ELSE m

\* The first n bytes of s, and the others.
Taken(s, n) == SubSeq(s, 1, n)
Dropped(s, n) == SubSeq(s, n + 1, Len(s))

\* Faulty variant of SerializedStep: a full buffer is not flushed at once.
SerializedStepLazy(max, buf, rest) ==
  LET n == Lesser(Len(rest), max - Len(buf))
  IN [out |-> << >>, buf |-> buf \o Taken(rest, n), rest |-> Dropped(rest, n)]

\* One iteration of ht_listener_buffer_process_serialized_events: copy what
\* fits, flush when full.
SerializedStep(max, buf, rest) ==
  LET n == Lesser(Len(rest), max - Len(buf))
      filled == buf \o Taken(rest, n)
      full == Len(filled) = max
  IN [out |-> IF full THEN filled ELSE << >>,
      buf |-> IF full THEN << >> ELSE filled,
      rest |-> Dropped(rest, n)]

\* In bypass mode the flush callback gets the whole call.
BypassStep(buf, rest) == [out |-> rest, buf |-> buf, rest |-> << >>]

\* Faulty variant of UnserializedStep: the flush comes one byte late.
UnserializedStepLate(max, buf, rest, n) ==
  LET flush == n + Len(buf) > max + 1
  IN [out |-> IF flush THEN buf ELSE << >>,
      buf |-> (IF flush THEN << >> ELSE buf) \o Taken(rest, n),
      rest |-> Dropped(rest, n)]

\* One iteration of ht_listener_buffer_process_unserialized_events, for an
\* event of n serialized bytes: make room, then serialize into the buffer.
UnserializedStep(max, buf, rest, n) ==
  LET flush == n + Len(buf) > max
  IN [out |-> IF flush THEN buf ELSE << >>,
      buf |-> (IF flush THEN << >> ELSE buf) \o Taken(rest, n),
      rest |-> Dropped(rest, n)]

=============================================================================
