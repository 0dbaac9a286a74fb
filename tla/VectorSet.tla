----------------------------- MODULE VectorSet -----------------------------
(***************************************************************************)
(* hacksaw/vector.c and hacksaw/set.c, as operators on a record of the     *)
(* elements, of the room that is allocated and of the options.             *)
(*                                                                         *)
(* VECTOR_UNORDERED is 0, so that a test of opts for it never holds, and   *)
(* vector_remove keeps the order unless VECTOR_KEEP is set.  vector_new    *)
(* sets no function to free a vector with: none is ever freed, and         *)
(* set_collapse, which frees a set, does not return.                       *)
(***************************************************************************)
EXTENDS Naturals, Sequences

CONSTANTS
    FirstRoom,      \* elements that a new vector has room for
    Null,
    Same(_, _)      \* whether Set.cmp_func is 0

\* vector_new; set_new when compared is BOOLEAN, for a cmp_func or NULL
New(keep, compared) ==
    [elements |-> <<>>, room |-> FirstRoom, keep |-> keep, compared |-> compared]

\* vector_allocate
Allocated(v) == [v EXCEPT !.room = 2 * @]

\* vector_add
Added(v, o) ==
    LET w == IF v.room = Len(v.elements) + 1 THEN Allocated(v) ELSE v
    IN  [w EXCEPT !.elements = Append(@, o)]

\* vector_insert, index from 0
Inserted(v, o, index) ==
    LET w == IF v.room <= Len(v.elements) + 1 THEN Allocated(v) ELSE v
    IN  [w EXCEPT !.elements = SubSeq(@, 1, index) \o <<o>> \o SubSeq(@, index + 1, Len(@))]

\* vector_remove
Removed(v, index) ==
    [v EXCEPT !.elements = IF v.keep THEN [@ EXCEPT ![index + 1] = Null]
                           ELSE SubSeq(@, 1, index) \o SubSeq(@, index + 2, Len(@))]

\* vector_extend
Extended(v, w) ==
    LET upTo[n \in 0..Len(w.elements)] ==
            IF n = 0 THEN v ELSE Added(upTo[n - 1], w.elements[n])
    IN  upTo[Len(w.elements)]

----------------------------------------------------------------------------
Equal(s, a, b) == IF s.compared THEN Same(a, b) ELSE a = b

\* set_inside, FALSE for -1
Inside(s, o) == \E i \in DOMAIN s.elements : Equal(s, o, s.elements[i])

\* Mutant: the comparison is taken for equality.
SetAddedByPointer(s, o) == IF \E i \in DOMAIN s.elements : o = s.elements[i] THEN s ELSE Added(s, o)

\* set_add
SetAdded(s, o) == IF Inside(s, o) THEN s ELSE Added(s, o)

\* set_inside: the index, of the first
IndexOf(s, o) ==
    (CHOOSE i \in DOMAIN s.elements :
        /\ Equal(s, o, s.elements[i])
        /\ \A j \in 1..(i - 1) : ~Equal(s, o, s.elements[j])) - 1

\* set_add of the elements of a sequence that are wanted, in order
AllAdded(s, objects, wanted) ==
    LET upTo[n \in 0..Len(objects)] ==
            IF n = 0 THEN s
            ELSE IF objects[n] \in wanted THEN SetAdded(upTo[n - 1], objects[n])
            ELSE upTo[n - 1]
    IN  upTo[Len(objects)]

Members(s) == {s.elements[i] : i \in DOMAIN s.elements}

\* set_dup
Dup(s) == AllAdded(New(FALSE, s.compared), s.elements, Members(s))

\* set_union, for sets of one cmp_func
Union(s, t) == AllAdded(s, t.elements, Members(t))

\* set_intersect: of equal elements, the one of the bigger set
Intersection(s, t) ==
    LET bigger == IF Len(s.elements) > Len(t.elements) THEN s ELSE t
        other == IF bigger = s THEN t ELSE s
    IN  AllAdded(New(FALSE, s.compared), bigger.elements,
                 {o \in Members(bigger) : Inside(other, o)})

----------------------------------------------------------------------------
\* What is written is written to memory that is allocated.
Fits(v) == Len(v.elements) < v.room

\* The elements of two sets of one cmp_func, and of what is made of them,
\* are those of the mathematical sets, each once.
Distinct(s) == \A i, j \in DOMAIN s.elements : Equal(s, s.elements[i], s.elements[j]) => i = j

IsOperation(s, t, objects) ==
    LET Has(r) == {o \in objects : Inside(r, o)} IN
    /\ Has(Union(s, t)) = Has(s) \cup Has(t) /\ Distinct(Union(s, t))
    /\ Has(Intersection(s, t)) = Has(s) \cap Has(t) /\ Distinct(Intersection(s, t))
    /\ Has(Dup(s)) = Has(s)
=============================================================================
