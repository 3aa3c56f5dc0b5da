------------------------ MODULE MCContainerRegistry ------------------------
(* Two names with different hashes, and the symmetries, for the instances  *)
(* of ContainerRegistry.                                                   *)
EXTENDS ContainerRegistry, TLC

CONSTANTS n1, n2

TwoHashes == [n \in Names |-> IF n = n1 THEN 1 ELSE 2]

\* Addresses of containers, and the threads other than Main, are exchangeable.
Symmetry == Permutations(Containers) \cup Permutations(Threads \ {Main})

=============================================================================
