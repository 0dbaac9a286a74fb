------------------------------ MODULE IdTable ------------------------------
(***************************************************************************)
(* What the lookup table of autogentoo/hacksaw promises to the package and *)
(* use-flag tables built on it: a key is given an identifier when it first *)
(* gets a value, no two keys share one, a key never loses its own, and the *)
(* identifier leads to the value the key was given last.                   *)
(***************************************************************************)
CONSTANTS Keys, Values, Ids, NoId, NoValue

VARIABLES
    idOf,       \* identifier of each key
    valueOf     \* what the identifier of each key leads to

vars == <<idOf, valueOf>>

Init ==
    /\ idOf = [k \in Keys |-> NoId]
    /\ valueOf = [k \in Keys |-> NoValue]

\* The key gets its first value, and an identifier nobody has.
Add(k, v, id) ==
    /\ idOf[k] = NoId
    /\ \A other \in Keys : idOf[other] # id
    /\ idOf' = [idOf EXCEPT ![k] = id]
    /\ valueOf' = [valueOf EXCEPT ![k] = v]

Replace(k, v) ==
    /\ idOf[k] # NoId
    /\ valueOf' = [valueOf EXCEPT ![k] = v]
    /\ UNCHANGED idOf

Drop ==
    /\ idOf' = [k \in Keys |-> NoId]
    /\ valueOf' = [k \in Keys |-> NoValue]

Next ==
    \/ \E k \in Keys, v \in Values :
         Replace(k, v) \/ \E id \in Ids : Add(k, v, id)
    \/ Drop

Spec == Init /\ [][Next]_vars
=============================================================================
