----------------------------- MODULE MCPackage -----------------------------
(* Instances of Package for TLC. *)
EXTENDS Package, TLC

CONSTANTS e1, e2, e3, e4, e5, e6, e7

Plainly(digits) == [prefix |-> Plain, digits |-> digits, letter |-> 0, star |-> FALSE]
V(nodes) == [nodes |-> nodes, revision |-> 0]

n1 == Plainly(<<1>>)
n5 == Plainly(<<5>>)
n05 == Plainly(<<0, 5>>)
b == 98
n5b == [n5 EXCEPT !.letter = b]
n05b == [n05 EXCEPT !.letter = b]

V1_5 == V(<<n1, n5>>)
V1_5r1 == [V1_5 EXCEPT !.revision = 1]
V1_05 == V(<<n1, n05>>)
V1_5_4 == V(<<n1, n5, Plainly(<<4>>)>>)
V1_5b == V(<<n1, n5b>>)
V1_5rc1 == V(<<n1, n5, [n1 EXCEPT !.prefix = Rc]>>)
V1_5star == V(<<n1, [n5 EXCEPT !.star = TRUE]>>)

\* Two repositories with an ebuild of 1.5 each, a revision of it, a release
\* candidate, a version that starts with a zero, one that goes further, and
\* one that ends in a letter.
Catalog ==
    (e1 :> V1_5) @@ (e2 :> V1_5) @@ (e3 :> V1_5r1) @@ (e4 :> V1_05) @@
    (e5 :> V1_5_4) @@ (e6 :> V1_5b) @@ (e7 :> V1_5rc1)

\* The atoms that depend.y makes: any version with any operator, a star only
\* after =.
SomeAtoms ==
    [version : {V1_5, V1_05, V1_5r1}, range : {E, L, G, Rev, GE, LE, All}]
        \cup {[version |-> V1_5b, range |-> GE],
              [version |-> V1_5star, range |-> E],
              [version |-> NoVersion, range |-> All]}
=============================================================================
