---------------------------- MODULE MCContainers ----------------------------
(* Instances of Containers for TLC. *)
EXTENDS Containers, TLC

CONSTANTS o1, o2, o3, k1, k2, k3

\* o1 and o2 are equal to cmp functions.
SomeClasses == (o1 :> 1) @@ (o2 :> 1) @@ (o3 :> 2)

\* Two keys share a bucket until the second growth, one until the first.
SomeHashes == (k1 :> 0) @@ (k2 :> 4) @@ (k3 :> 2)

FourFifths == <<4, 5>>

Symmetry == Permutations(Nodes) \cup Permutations(Sets) \cup Permutations(Vectors) \cup Permutations({o1, o2})
=============================================================================
