---------------------------- MODULE MCResolver ----------------------------
(* Instances of Resolver for TLC. *)
EXTENDS Resolver, TLC

CONSTANTS A, B, C, D, a1, b1, b2, c1, d1, x

\* B has two versions in one slot, whose flag x is off in the newer one; C
\* requires its x, which is on; the metadata of D are damaged.
List == (A :> <<a1>>) @@ (B :> <<b2, b1>>) @@ (C :> <<c1>>) @@ (D :> <<d1>>)
Slot == [e \in {a1, b1, b2, c1, d1} |-> "0"]
Flags == (a1 :> (x :> TRUE)) @@ (b2 :> (x :> FALSE)) @@ (b1 :> (x :> TRUE)) @@
         (c1 :> (x :> TRUE)) @@ (d1 :> <<>>)
MustUse == (a1 :> {}) @@ (b2 :> {}) @@ (b1 :> {}) @@ (c1 :> {{x}}) @@ (d1 :> {})

AnyOf(p, S, e) == [pkg |-> p, matches |-> S, chosen |-> e, use |-> <<>>, blocks |-> FALSE]
Needs(a, option) == [a EXCEPT !.use = <<[flag |-> x, option |-> option]>>]

anA == AnyOf(A, {a1}, a1)
anyB == AnyOf(B, {b1, b2}, b2)
newB == AnyOf(B, {b2}, b2)
oldB == AnyOf(B, {b1}, b1)
anyC == AnyOf(C, {c1}, c1)
anyD == AnyOf(D, {d1}, d1)
newD == AnyOf(D, {}, NoEbuild)
noOldB == [oldB EXCEPT !.blocks = TRUE]

On(a) == [kind |-> "atom", atom |-> a]
If == [kind |-> "use", flag |-> x]
Group == [kind |-> "group"]

Dependencies ==
    [a1 : {<<On(anyB), On(anyC)>>, <<If, Group, On(noOldB), On(anyC)>>,
           <<On(Needs(anyB, "enable")), On(oldB)>>},
     b2 : {<<>>, <<On(anA)>>, <<On(anyB), On(Needs(anyC, "disable"))>>},
     b1 : {<<>>, <<On(anyD)>>, <<On(Needs(anyC, "equal")), On(Needs(anyC, "opposite"))>>},
     c1 : {<<>>, <<On(anA), On(oldB)>>, <<On(Needs(anyB, "enable_if_on"))>>}]

Repos ==
    {(a1 :> d.a1) @@ (b2 :> d.b2) @@ (b1 :> d.b1) @@ (c1 :> d.c1) @@ (d1 :> <<>>) : d \in Dependencies}

ReadBefore == {{}, {b1, b2}}

Asked == {anA, anyB, oldB, newB, Needs(anyB, "enable"), newD}
=============================================================================
