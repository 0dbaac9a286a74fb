----------------------------- MODULE MCPortage -----------------------------
(* Instances of Portage for TLC. *)
EXTENDS Portage, TLC

CONSTANTS p1, p2, p3

None == [lead |-> 0, r |-> FALSE, digits |-> <<>>, letter |-> 0, star |-> FALSE]
N(d) == [None EXCEPT !.digits = <<d>>]
Letters(last) == <<[None EXCEPT !.letter = last]>>
R(d) == <<[N(d) EXCEPT !.lead = 1, !.r = TRUE]>>

\* gcc and lib-x-r2
gcc == <<Letters(99)>>
lib == <<Letters(98), Letters(120), R(2)>>

v1_5 == <<N(1), N(5)>>
\* 1.5b and 1.05_rc1
v1_5b == <<N(1), [N(5) EXCEPT !.letter = 98]>>
v1_05_rc1 ==
    <<N(1), [None EXCEPT !.digits = <<0, 5>>], [N(1) EXCEPT !.lead = 2, !.r = TRUE]>>

SomeKeys == {gcc, lib}
CollidingHash == (gcc :> 3) @@ (lib :> 3)

\* The caches of two repositories, which both have gcc-1.5.
g15 == "gcc-1.5"
g15r1 == "gcc-1.5-r1"
g105rc1 == "gcc-1.05_rc1"
l15 == "lib-x-r2-1.5"
other_g15 == "other/gcc-1.5"

FileNames ==
    (g15 :> gcc \o <<v1_5>>) @@ (other_g15 :> gcc \o <<v1_5>>) @@
    (g15r1 :> gcc \o <<v1_5, R(1)>>) @@
    (g105rc1 :> gcc \o <<v1_05_rc1>>) @@
    (l15 :> lib \o <<v1_5>>)

SomeRepositories == {{g15, g15r1, l15}, {other_g15, g105rc1}}

SomeAtomKeys == {lib}
SomeVersions == {<<v1_5>>, <<v1_5, R(1)>>, <<v1_05_rc1>>, <<v1_05_rc1, R(2)>>}

SomeAtoms ==
    {[version |-> ParseVersion(<<v1_5>>), range |-> r] : r \in {{"E"}, {"G"}, {"E", "L"}}}
    \cup {[version |-> ParseVersion(<<v1_5, R(1)>>), range |-> r] : r \in {{"E", "REV"}, {"L"}}}
    \cup {[version |-> ParseVersion(<<v1_5b>>), range |-> {"E", "G"}],
          [version |-> NoVersion, range |-> {"E", "L", "G"}]}

Symmetry == Permutations(Packages)
=============================================================================
