------------------------------- MODULE MCLUT -------------------------------
(* Instances of LUT for TLC. *)
EXTENDS LUT, TLC

CONSTANTS gcc, glibc, bash, vim

\* gcc and glibc have the same hash; bash falls into their bucket in a table
\* of 4 and leaves it when the table grows to 16.
Collide == (gcc :> 3) @@ (glibc :> 3) @@ (bash :> 7) @@ (vim :> 1)

Symmetry == Permutations(Data)
=============================================================================
