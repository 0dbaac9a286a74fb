-------------------------------- MODULE LUT --------------------------------
(***************************************************************************)
(* The lookup table of autogentoo/hacksaw/lut.c, which holds the packages  *)
(* and the global use flags of a Portage object.  A key is found by its    *)
(* hash; its identifier is the hash and the number of keys of the same     *)
(* hash that were there before it (the overlap), so that it survives the   *)
(* growth of the table.                                                    *)
(*                                                                         *)
(* The nodes are kept in the order of their insertion, each with the       *)
(* bucket it is chained in.  Growing the table can reorder the nodes of a  *)
(* bucket, but not those that have the same hash, and only these are ever  *)
(* told apart by their order: the sequence stands for all the chains.      *)
(* Every value is a Python object (LUT_FLAG_PYTHON), as in portage.c and   *)
(* use.c.                                                                  *)
(***************************************************************************)
EXTENDS Naturals, Sequences, FiniteSets

CONSTANTS
    Keys,           \* package keys or names of use flags
    Data,           \* the objects that are stored
    NoData,         \* the 0 that lut_get returns for an unknown identifier
    NoHolder,       \* no identifier is kept by a caller
    Hash,           \* map_get_hash of each key
    InitialSize,    \* number of buckets of lut_new
    OverlapRange    \* number of values of an overlap, 2^16 in lut_get_id

ASSUME HashIsNatural == Hash \in [Keys -> Nat]
ASSUME SizeIsPositive == InitialSize \in Nat \ {0}
ASSUME NoDataIsNoData == NoData \notin Data

\* Fewer than 2^16 keys share a 32-bit hash.
ASSUME FewCollisions ==
    /\ OverlapRange \in Nat \ {0}
    /\ \A k \in Keys :
         /\ IsFiniteSet({j \in Keys : Hash[j] = Hash[k]})
         /\ Cardinality({j \in Keys : Hash[j] = Hash[k]}) <= OverlapRange

VARIABLES
    size,       \* LUT.size
    nodes,      \* the nodes of all the chains
    refs,       \* references to each object that the table has taken
    held,       \* what one caller was given by lut_get_id and still keeps
    freed       \* lut_free was called

vars == <<size, nodes, refs, held, freed>>

Ids == [hash : {Hash[k] : k \in Keys}, overlap : 0..(OverlapRange - 1)]
Nodes == [key : Keys, id : Ids, data : Data, bucket : Nat]

\* An atom or ebuild that keeps the id and flag it got from lut_get_id.  One
\* holder, any of them, stands for all: they do not know of each other.
Holders == [key : Keys, id : Ids, exists : BOOLEAN]

Init ==
    /\ size = InitialSize
    /\ nodes = <<>>
    /\ refs = [d \in Data |-> 0]
    /\ held = NoHolder
    /\ freed = FALSE

----------------------------------------------------------------------------
(* Reading: lut_get_id, lut_get *)

Chain(h) == {i \in DOMAIN nodes : nodes[i].bucket = h % size}

SameHash(k) == {i \in Chain(Hash[k]) : nodes[i].id.hash = Hash[k]}

First(S) == CHOOSE i \in S : \A j \in S : i <= j

Exists(k) == \E i \in SameHash(k) : nodes[i].key = k

\* Mutant: keys of the same hash are not told apart.
IdOfNoOverlap(k) == [hash |-> Hash[k], overlap |-> 0]

\* Mutant: the overlap counts the key itself.
IdOfFromOne(k) == [hash |-> Hash[k], overlap |-> Cardinality(SameHash(k)) + 1]

IdOf(k) ==
    IF Exists(k)
    THEN nodes[First({i \in SameHash(k) : nodes[i].key = k})].id
    ELSE [hash |-> Hash[k], overlap |-> Cardinality(SameHash(k)) % OverlapRange]

WithId(id) == {i \in Chain(id.hash) : nodes[i].id = id}

Get(id) == IF WithId(id) = {} THEN NoData ELSE nodes[First(WithId(id))].data

----------------------------------------------------------------------------
(* Growing: LUT_THRESHOLD, lut_realloc *)

ReallocAt(s) == (7 * s) \div 10

\* Mutant: the table grows only when it has no empty bucket.
FullTooLate == Len(nodes) >= size

Full == Len(nodes) + 1 >= ReallocAt(size)

Grown == IF Full THEN 4 * size ELSE size

\* Mutant: the nodes stay in the buckets of the same number.
RehashedNot == nodes

\* lut_realloc chains every node again, by the hash in its identifier.
Rehashed ==
    IF Full
    THEN [i \in DOMAIN nodes |->
            [nodes[i] EXCEPT !.bucket = nodes[i].id.hash % Grown]]
    ELSE nodes

----------------------------------------------------------------------------
(* Mutants: bugs a change of the code could introduce. *)

\* the value that was there is not released
InsertExistingLeaks(k, d) ==
    /\ ~freed /\ Exists(k)
    /\ LET old == nodes[First(WithId(IdOf(k)))].data IN
         /\ refs' = IF d = old THEN refs ELSE [refs EXCEPT ![d] = @ + 1]
         /\ nodes' = [Rehashed EXCEPT ![First(WithId(IdOf(k)))].data = d]
    /\ size' = Grown
    /\ UNCHANGED <<held, freed>>

\* a key that exists moves to the end of its chain under a new identifier
InsertExistingMoves(k, d) ==
    /\ ~freed /\ Exists(k)
    /\ LET id == [hash |-> Hash[k], overlap |-> Cardinality(SameHash(k)) % OverlapRange]
           i == First(WithId(IdOf(k)))
       IN  /\ nodes' = [Rehashed EXCEPT ![i].data = d, ![i].id = id]
           /\ refs' = [refs EXCEPT ![nodes[i].data] = @ - 1, ![d] = @ + 1]
    /\ size' = Grown
    /\ UNCHANGED <<held, freed>>

----------------------------------------------------------------------------
(* Operations.  Each is one call from Python, with the GIL held. *)

\* lut_get_id for a caller that keeps the result (atom_init, ebuild_init)
Lookup(k) ==
    /\ ~freed
    /\ held' = [key |-> k, id |-> IdOf(k), exists |-> Exists(k)]
    /\ UNCHANGED <<size, nodes, refs, freed>>

\* lut_insert of a key that lut_get_id does not find, as
\* Portage.add_package, Portage.initialize_repository and use_get_global do
InsertNew(k, d) ==
    /\ ~freed /\ ~Exists(k)
    /\ nodes' = Append(Rehashed, [key |-> k, id |-> IdOf(k), data |-> d,
                                  bucket |-> Hash[k] % Grown])
    /\ size' = Grown
    /\ refs' = [refs EXCEPT ![d] = @ + 1]
    /\ UNCHANGED <<held, freed>>

\* lut_insert of a key that is there (add_package of a package again): its
\* node takes a reference to the new object and releases the old one.
InsertExisting(k, d) ==
    /\ ~freed /\ Exists(k)
    /\ LET i == First(WithId(IdOf(k)))
           old == nodes[i].data
       IN  /\ nodes' = [Rehashed EXCEPT ![i].data = d]
           /\ refs' = IF d = old THEN refs
                      ELSE [refs EXCEPT ![d] = @ + 1, ![old] = @ - 1]
    /\ size' = Grown
    /\ UNCHANGED <<held, freed>>

\* lut_free
Free ==
    /\ ~freed /\ freed' = TRUE
    /\ refs' = [d \in Data |->
                  refs[d] - Cardinality({i \in DOMAIN nodes : nodes[i].data = d})]
    /\ nodes' = <<>>
    /\ UNCHANGED <<size, held>>

Next ==
    \/ \E k \in Keys :
         Lookup(k) \/ \E d \in Data : InsertNew(k, d) \/ InsertExisting(k, d)
    \/ Free

Spec == Init /\ [][Next]_vars

----------------------------------------------------------------------------
TypeOK ==
    /\ size \in Nat \ {0}
    /\ nodes \in Seq(Nodes)
    /\ refs \in [Data -> Nat]
    /\ held \in Holders \cup {NoHolder}
    /\ freed \in BOOLEAN

\* Every node is chained in the bucket in which lut_get and lut_get_id look
\* for it, whatever the table has grown since it was inserted.
Placed ==
    \A i \in DOMAIN nodes :
        /\ nodes[i].id.hash = Hash[nodes[i].key]
        /\ nodes[i].bucket = nodes[i].id.hash % size

\* A key has one node and an identifier one key: the overlap keeps keys of
\* the same hash apart although it is counted anew at each lookup.
Distinct ==
    \A i, j \in DOMAIN nodes :
        nodes[i].key = nodes[j].key \/ nodes[i].id = nodes[j].id => i = j

\* The table is never fuller than the threshold at which it grows.
RoomLeft == nodes # <<>> => Len(nodes) <= ReallocAt(size)

\* The table has taken one reference to an object for each of its nodes that
\* leads to it: none is freed under a node, none is leaked by overwriting or
\* by lut_free.
RefsExact ==
    \A d \in Data :
        refs[d] = Cardinality({i \in DOMAIN nodes : nodes[i].data = d})

\* An identifier that lut_get_id returned for a key that was there leads to
\* that key as long as the table lives.  One returned for a key that was not
\* there leads to no other key, except to one of the same hash that was
\* inserted before the key itself (the table of an atom that was parsed
\* before its package was loaded).
HeldStaysValid ==
    ~freed /\ held # NoHolder =>
        LET found == WithId(held.id) IN
        IF held.exists THEN found # {} /\ nodes[First(found)].key = held.key
        ELSE \A i \in found : Hash[nodes[i].key] = Hash[held.key]

----------------------------------------------------------------------------
(* The table implements IdTable. *)

NoId == [hash |-> 0, overlap |-> OverlapRange]

idOf == [k \in Keys |-> IF Exists(k) THEN IdOf(k) ELSE NoId]
valueOf == [k \in Keys |-> IF Exists(k) THEN Get(IdOf(k)) ELSE NoData]

Table == INSTANCE IdTable WITH Values <- Data, NoValue <- NoData

\* The table keeps the promises of IdTable: growing is invisible, a key
\* keeps its identifier, and the identifier leads to its last value.
ImplementsIdTable == Table!Spec
=============================================================================
