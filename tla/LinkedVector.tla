---------------------------- MODULE LinkedVector ----------------------------
(***************************************************************************)
(* hacksaw/linked_vector.c and the queue, the stack and the queue set that *)
(* are made of it.  The memory of a node that was freed keeps its contents *)
(* until malloc gives it to another one, and pop does not move tail: it    *)
(* points to freed memory once the last node is taken.                     *)
(***************************************************************************)
EXTENDS RefObject

CONSTANTS
    Objects, Nodes, Null,
    Same(_, _)      \* QueueSet.cmp

VARIABLES
    head, tail,     \* of the LinkedVector
    next, data,     \* of each node
    unique,         \* whether it is a QueueSet's
    refs            \* the counts of the objects

list == <<head, tail, next, data, unique>>

\* The nodes in order, then Null for ever.
At[i \in 1..(Cardinality(Nodes) + 1)] ==
    IF i = 1 THEN head ELSE IF At[i - 1] = Null THEN Null ELSE next[At[i - 1]]

Get(index) == At[index + 1]

InList == {At[i] : i \in 1..Cardinality(Nodes)} \ {Null}

\* queue_foreach, stack_foreach
Items == [i \in 1..Cardinality(InList) |-> data[At[i]]]

\* linked_vector_new leaves tail as malloc found it.
Init ==
    /\ head = Null /\ tail \in Nodes \cup {Null}
    /\ next = [n \in Nodes |-> Null] /\ data = next
    /\ unique \in BOOLEAN

\* linked_node_new, in any memory that is free
NewNode(n, o) ==
    /\ n \in Nodes \ InList
    /\ data' = [data EXCEPT ![n] = o]
    /\ refs' = Increased(refs, o)

\* queue_set_inside
Inside(o) == \E i \in DOMAIN Items : Same(Items[i], o)

\* Mutant: the memory of a node is not cleared.
AppendNodeStale(n, o) ==
    /\ unique => ~Inside(o)
    /\ NewNode(n, o)
    /\ IF head = Null \/ tail = Null
       THEN head' = n /\ UNCHANGED next
       ELSE UNCHANGED head /\ next' = [next EXCEPT ![tail] = n]
    /\ tail' = n
    /\ UNCHANGED unique

\* linked_vector_append, queue_add, and queue_set_add unless o is inside
AppendNode(n, o) ==
    /\ unique => ~Inside(o)
    /\ NewNode(n, o)
    /\ IF head = Null \/ tail = Null
       THEN head' = n /\ next' = [next EXCEPT ![n] = Null]
       ELSE UNCHANGED head /\ next' = [next EXCEPT ![n] = Null, ![tail] = n]
    /\ tail' = n
    /\ UNCHANGED unique

\* linked_vector_prepend, stack_add
Prepend(n, o) ==
    /\ ~unique
    /\ NewNode(n, o)
    /\ head' = n
    /\ IF head = Null \/ tail = Null
       THEN tail' = n /\ next' = [next EXCEPT ![n] = Null]
       ELSE UNCHANGED tail /\ next' = [next EXCEPT ![n] = head]
    /\ UNCHANGED unique

\* Mutant: the caller gets the node's reference after it was given back.
PopUncounted ==
    /\ head # Null
    /\ refs' = Decreased(refs, data[head])
    /\ head' = next[head]
    /\ UNCHANGED <<tail, next, data, unique>>

\* queue_pop and stack_pop take a reference for the caller before the node
\* gives its own back.
Pop ==
    /\ head # Null
    /\ refs' = Decreased(Increased(refs, data[head]), data[head])
    /\ head' = next[head]
    /\ UNCHANGED <<tail, next, data, unique>>

\* linked_vector_free, and a new list of either kind
Renew ==
    /\ refs' = AllDecreased(refs, Items)
    /\ head' = Null /\ tail' \in Nodes \cup {Null}
    /\ unique' \in BOOLEAN
    /\ UNCHANGED <<next, data>>

\* No two elements of a QueueSet are the same.
NoneTwice == unique => \A i, j \in DOMAIN Items : Same(Items[i], Items[j]) => i = j

\* The nodes that tail and next lead to are those that were added and not
\* taken, in order, whatever memory they were given.
IsDeque == INSTANCE Deque WITH items <- Items
=============================================================================
