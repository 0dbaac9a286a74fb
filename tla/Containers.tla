----------------------------- MODULE Containers -----------------------------
(***************************************************************************)
(* The containers of autogentoo/hacksaw over objects that they share: a    *)
(* linked vector (queue, stack or queue set), vectors and sets, and a map. *)
(* The caller makes objects, keeps references of its own, gives them back  *)
(* and takes over those that pop and map_remove return.                    *)
(***************************************************************************)
EXTENDS RefObject

CONSTANTS
    Objects, Nodes, Null, Keys, Hash, Sizes, Threshold, MaxSize, FirstRoom,
    Class,          \* objects of one class are equal to cmp functions
    Vectors,        \* vectors of the caller
    Sets,           \* sets of the caller
    MaxPlaces,      \* bound on the elements of all the containers
    MaxOwned,       \* bound on the caller's references to an object
    MaxLeaked,      \* bound on those that are leaked
    Uses            \* sets of kinds of containers, one of which the caller uses

\* NULL is the address of nothing.
ASSUME MemoryAssumption ==
    /\ IsFiniteSet(Nodes) /\ Null \notin Nodes \cup Objects
    /\ Null \notin [elements : Seq(Objects \cup {Null}), room : Nat, keep : BOOLEAN, compared : BOOLEAN]

ASSUME VectorAssumption ==
    IsFiniteSet(Vectors \cup Sets) /\ Vectors \cap Sets = {} /\ FirstRoom \in Nat \ {0}

ASSUME MapAssumption == Hash \in [Keys -> Nat] /\ Sizes \subseteq Nat \ {0}

VARIABLES
    kinds,          \* the kinds of containers the caller uses
    refs,           \* reference_count of each object, 0 when it is freed
    owned,          \* references that the caller has
    leaked,         \* references that nobody gives back
    head, tail, next, data, unique,     \* as in LinkedVector
    vectors,        \* of each of Vectors and Sets, as in VectorSet, or Null
    map             \* as in HashMap

list == <<head, tail, next, data, unique>>
vars == <<kinds, refs, owned, leaked, list, vectors, map>>

Same(a, b) == Class[a] = Class[b]

List == INSTANCE LinkedVector
V == INSTANCE VectorSet
M == INSTANCE HashMap

\* How often each object is in a container.
Made == {v \in Vectors \cup Sets : vectors[v] # Null}
VectorPlaces == UNION {{v} \X DOMAIN vectors[v].elements : v \in Made}
InVectors(o) == Occurrences(o, [p \in VectorPlaces |-> vectors[p[1]].elements[p[2]]])
Places(o) == Occurrences(o, List!Items) + InVectors(o) + Occurrences(o, M!Data)

\* Whether there is room for n elements more.
Room(n) ==
    Len(List!Items) + Cardinality(M!Places) + Cardinality(VectorPlaces) + n <= MaxPlaces

Init ==
    /\ kinds \in Uses
    /\ refs = [o \in Objects |-> 0] /\ owned = refs /\ leaked = refs
    /\ List!Init /\ ("list" \notin kinds => ~unique /\ tail = Null)
    /\ M!Init
    /\ vectors = [v \in Vectors \cup Sets |-> Null]

----------------------------------------------------------------------------
(* The caller *)

\* malloc, with reference_count 1
NewObject(o) ==
    /\ refs[o] = 0
    /\ refs' = Increased(refs, o) /\ owned' = Increased(owned, o)
    /\ UNCHANGED <<kinds, leaked, list, vectors, map>>

\* OBJECT_DECREF
Release(o) ==
    /\ owned[o] > 0
    /\ refs' = Decreased(refs, o) /\ owned' = Decreased(owned, o)
    /\ UNCHANGED <<kinds, leaked, list, vectors, map>>

Takes(o) == owned[o] < MaxOwned /\ owned' = Increased(owned, o)

----------------------------------------------------------------------------
(* The linked vector *)

ListAdd(o) ==
    /\ "list" \in kinds /\ owned[o] > 0 /\ Room(1)
    /\ \E n \in Nodes : List!AppendNode(n, o) \/ List!Prepend(n, o)
    /\ UNCHANGED <<kinds, owned, leaked, vectors, map>>

ListPop ==
    /\ List!Pop
    /\ Takes(data[head])
    /\ UNCHANGED <<kinds, leaked, vectors, map>>

ListRenew == "list" \in kinds /\ List!Renew /\ UNCHANGED <<kinds, owned, leaked, vectors, map>>

----------------------------------------------------------------------------
(* Vectors and sets *)

Becomes(v, new) ==
    /\ vectors' = [vectors EXCEPT ![v] = new]
    /\ UNCHANGED <<kinds, owned, leaked, list, map>>

Elements(v) == vectors[v].elements

\* vector_new, set_new
VectorNew(v, option) ==
    /\ v \notin Made /\ (IF v \in Sets THEN "sets" ELSE "vectors") \in kinds
    /\ Becomes(v, IF v \in Sets THEN V!New(FALSE, option) ELSE V!New(option, FALSE))
    /\ UNCHANGED refs

VectorAdd(v, o) ==
    /\ v \in Made \cap Vectors /\ owned[o] > 0 /\ Room(1)
    /\ refs' = Increased(refs, o)
    /\ \/ Becomes(v, V!Added(vectors[v], o))
       \/ \E i \in 0..Len(Elements(v)) : Becomes(v, V!Inserted(vectors[v], o, i))

\* The pointer that is returned carries no reference.
VectorRemove(v) ==
    /\ v \in Made \cap Vectors
    /\ \E i \in DOMAIN Elements(v) :
         /\ refs' = Decreased(refs, Elements(v)[i])
         /\ Becomes(v, V!Removed(vectors[v], i - 1))

\* vector_extend of another vector: of itself it never ends.
VectorExtend(v, w) ==
    /\ v # w /\ {v, w} \subseteq Made \cap Vectors /\ Room(Len(Elements(w)))
    /\ refs' = AllIncreased(refs, Elements(w))
    /\ Becomes(v, V!Extended(vectors[v], vectors[w]))

SetAdd(s, o) ==
    /\ s \in Made \cap Sets /\ owned[o] > 0 /\ Room(1)
    /\ refs' = IF V!Inside(vectors[s], o) THEN refs ELSE Increased(refs, o)
    /\ Becomes(s, V!SetAdded(vectors[s], o))

\* The element that is equal to o goes, which may be another object.
SetRemove(s, o) ==
    /\ s \in Made \cap Sets /\ V!Inside(vectors[s], o)
    /\ Becomes(s, V!Removed(vectors[s], V!IndexOf(vectors[s], o)))
    /\ refs' = Decreased(refs, Elements(s)[V!IndexOf(vectors[s], o) + 1])

Comparable(s, t) ==
    s # t /\ {s, t} \subseteq Made \cap Sets /\ vectors[s].compared = vectors[t].compared

SetUnion(s, t) ==
    /\ Comparable(s, t) /\ Room(Len(Elements(t)))
    /\ \E u \in {V!Union(vectors[s], vectors[t])} :
         /\ Becomes(s, u)
         /\ refs' = AllIncreased(refs, SubSeq(u.elements, Len(Elements(s)) + 1, Len(u.elements)))

\* set_dup, set_intersect: a new set
SetDerive(r, s, t) ==
    /\ r \in Sets \ Made /\ Comparable(s, t) /\ Room(Len(Elements(s)))
    /\ \E u \in {V!Dup(vectors[s]), V!Intersection(vectors[s], vectors[t])} :
         Becomes(r, u) /\ refs' = AllIncreased(refs, u.elements)

----------------------------------------------------------------------------
(* The map *)

MapInsert(k, o) ==
    /\ "map" \in kinds /\ owned[o] > 0 /\ Room(1)
    /\ M!Get(k) # Null => \A p \in Objects : leaked[p] < MaxLeaked
    /\ M!Insert(k, o)
    /\ UNCHANGED <<kinds, owned, list, vectors>>

MapRemove(k) ==
    /\ M!Delete(k)
    /\ Takes(M!Get(k))
    /\ UNCHANGED <<kinds, list, vectors>>

MapRenew(size) == "map" \in kinds /\ M!Renew(size) /\ UNCHANGED <<kinds, owned, list, vectors>>

----------------------------------------------------------------------------
Next ==
    \/ \E o \in Objects :
         \/ NewObject(o) \/ Release(o) \/ ListAdd(o)
         \/ \E v \in Vectors : VectorAdd(v, o)
         \/ \E s \in Sets : SetAdd(s, o) \/ SetRemove(s, o)
         \/ \E k \in Keys : MapInsert(k, o)
    \/ ListPop \/ ListRenew
    \/ \E v \in Vectors \cup Sets, option \in BOOLEAN : VectorNew(v, option)
    \/ \E v, w \in Vectors : VectorRemove(v) \/ VectorExtend(v, w)
    \/ \E r, s, t \in Sets : SetUnion(s, t) \/ SetDerive(r, s, t)
    \/ \E k \in Keys : MapRemove(k)
    \/ \E size \in Sizes : MapRenew(size)

Spec == Init /\ [][Next]_vars

----------------------------------------------------------------------------
\* Whatever containers share an object, its count is the number of the
\* references that they and the caller have, and that were leaked: nothing
\* in a container was freed, and nothing but what map_insert overwrites
\* leaks.
CountsExact == \A o \in Objects : refs[o] = Places(o) + owned[o] + leaked[o]

\* A linked vector whose nodes are freed and allocated again keeps its
\* elements in order, at either end; a QueueSet's are different.
ListIsDeque == List!IsDeque!Spec /\ [][List!NoneTwice']_vars

\* Sets of one comparison hold each element once, and union, intersection
\* and copy are those of the elements; no vector outgrows its memory.
SetsAreSets ==
    \A s \in Made :
        /\ V!Fits(vectors[s])
        /\ s \in Sets => V!Distinct(vectors[s])
        /\ \A t \in Sets : Comparable(s, t) => V!IsOperation(vectors[s], vectors[t], Objects)

\* In the map every key is found, with what was inserted under it last,
\* through collisions, growth and removal within a bucket: a step changes
\* what one key leads to, or frees the map.
MapKeepsKeys == []M!KeysFound /\ [][M!OneKeyAtATime]_vars
=============================================================================
