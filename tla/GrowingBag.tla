----------------------------- MODULE GrowingBag -----------------------------
(***************************************************************************)
(* HT_Bag (internal/bag.h): an array that doubles when it is full and is   *)
(* halved when three quarters of it are unused.  A bag is a record of its  *)
(* entries, its capacity in entries and the size of its block in words:    *)
(* resize_ asks for one word per entry whatever the type of an entry is.   *)
(* Whether a reallocation succeeds is a parameter.                         *)
(***************************************************************************)
EXTENDS Naturals, Sequences

\* ht_bag_init, for entries of w words each.
BagInit(min, w) == [data |-> << >>, cap |-> min, block |-> min * w]

\* ht_bag_resize_
BagResize(b, n, ok) ==
  IF ok THEN [b EXCEPT !.cap = n, !.block = n] ELSE b

\* ht_bag_add.  A bag that cannot grow is left as it was.
BagAdd(b, x, ok) ==
  IF Len(b.data) < b.cap
  THEN [b EXCEPT !.data = Append(@, x)]
  ELSE IF ok
       THEN [BagResize(b, b.cap * 2, TRUE) EXCEPT !.data = Append(@, x)]
       ELSE b

\* Whether ht_bag_add stores its entry.
BagAdds(b, ok) == Len(b.data) < b.cap \/ ok

\* ht_bag_remove_nth of the n-th entry, counted from 1: the last entry goes
\* to its place (also when that is behind the last entry).  The shrink may fail;
\* its result is not looked at.
BagRemoveNth(b, min, n, ok) ==
  LET last == Len(b.data)
      r == [b EXCEPT !.data = [i \in 1..(last - 1) |-> b.data[IF i = n THEN last ELSE i]]]
  IN  IF r.cap > min /\ Len(r.data) < r.cap \div 4
      THEN BagResize(r, r.cap \div 2, ok)
      ELSE r

\* ht_bag_last
BagLast(b) == b.data[Len(b.data)]

\* The entries of b, of w words each, lie inside its block.
BagFits(b, w) == Len(b.data) <= b.cap /\ Len(b.data) * w <= b.block

=============================================================================
