----------------------------- MODULE RefObject -----------------------------
(* The reference counts of hacksaw/object.h: counts is a function from     *)
(* objects to their counts, 0 once the object is freed; anything else, as  *)
(* NULL, is not counted.                                                   *)
EXTENDS Naturals, Sequences, FiniteSets

\* OBJECT_INCREF
Increased(counts, o) == IF o \in DOMAIN counts THEN [counts EXCEPT ![o] = @ + 1] ELSE counts

\* OBJECT_DECREF, which frees the object at the last reference
Decreased(counts, o) ==
    IF o \in DOMAIN counts /\ counts[o] > 0 THEN [counts EXCEPT ![o] = @ - 1] ELSE counts

\* How often an object is an element of a sequence, or of a function from
\* other places to objects.
Occurrences(o, objects) == Cardinality({i \in DOMAIN objects : objects[i] = o})

\* One reference taken, or given back, for each element.
AllIncreased(counts, objects) ==
    [o \in DOMAIN counts |-> counts[o] + Occurrences(o, objects)]

AllDecreased(counts, objects) ==
    [o \in DOMAIN counts |->
        IF counts[o] > Occurrences(o, objects) THEN counts[o] - Occurrences(o, objects) ELSE 0]
=============================================================================
