----------------------------- MODULE CallStack -----------------------------
(***************************************************************************)
(* HT_Stack (stack.c) as the callstack feature (feature_callstack.c) uses  *)
(* it: the events of the open calls lie one behind the other in a block of *)
(* memory that grows and shrinks, and a bag remembers where each begins.   *)
(*                                                                         *)
(* An event is a record with its size in words.  Growing succeeds: the     *)
(* feature ignores a failed push, and the next stop would end another      *)
(* call.  Shrinking may fail.                                              *)
(***************************************************************************)
EXTENDS GrowingBag, FiniteSets, FiniteSetsExt, Functions

CONSTANTS MinCapacity,  \* words the stack starts with
          MinEntries    \* events its bag of offsets starts with

ASSUME CallStackAssumption ==
  MinCapacity \in Nat \ {0} /\ MinEntries \in Nat \ {0}

\* ht_stack_init.  mem[o] is the event that was stored at offset o.
StackInit == [mem  |-> << >>, size |-> 0, cap |-> MinCapacity,
              offsets |-> BagInit(MinEntries, 1)]

\* The growth without its loop: twice the capacity, however large the event.
GrownOnce(s, n) == IF s.cap - s.size >= n THEN s.cap ELSE s.cap * 2

\* The capacity ht_stack_push asks for: the least power of two times the
\* present one that leaves n free words, where there are too few.
Grown(s, n) ==
  IF s.cap - s.size >= n
  THEN s.cap
  ELSE s.cap * Min({f \in {2 ^ k : k \in 1..(s.size + n)} : s.cap * f - s.size >= n})

\* ht_stack_push of event e.
StackPush(s, e) ==
  [mem  |-> [o \in DOMAIN s.mem \cup {s.size} |->
               IF o = s.size THEN e ELSE s.mem[o]],
   size |-> s.size + e.size,
   cap  |-> Grown(s, e.size),
   offsets |-> BagAdd(s.offsets, s.size, TRUE)]

\* ht_stack_top
StackTop(s) == s.mem[BagLast(s.offsets)]

\* _ht_stack_resize
StackResize(s, n, ok) == IF ok THEN [s EXCEPT !.cap = n] ELSE s

\* ht_stack_pop.  What lies above the top is never read again; ok and okBag
\* say whether the two reallocations succeed.
StackPop(s, ok, okBag) ==
  LET top == BagLast(s.offsets)
      r == [s EXCEPT !.size = top,
                     !.mem = Restrict(@, DOMAIN @ \ {top}),
                     !.offsets = BagRemoveNth(@, MinEntries, Len(@.data), okBag)]
  IN  IF r.cap > MinCapacity /\ r.size < r.cap \div 4
      THEN StackResize(r, r.cap \div 2, ok)
      ELSE r

\* The events on the stack, from the oldest.
StackEvents(s) == [i \in DOMAIN s.offsets.data |-> s.mem[s.offsets.data[i]]]

=============================================================================
