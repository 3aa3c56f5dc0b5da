--------------------------- MODULE MCCachedString ---------------------------
(* Numbers for the labels of the instances of CachedString.                *)
EXTENDS CachedString

CONSTANTS s, d, e, f

\* Every label has a number of its own; the dynamic ones share a bucket.
Injective == [l \in Labels |-> CASE l = s -> 1 [] l = d -> 2 [] l = e -> 4 [] l = f -> 6]

=============================================================================
