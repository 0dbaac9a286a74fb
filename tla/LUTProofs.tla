----------------------------- MODULE LUTProofs -----------------------------
(***************************************************************************)
(* Theorems about LUT, for every set of keys and objects, every hash that  *)
(* gives at most OverlapRange of them one value, and any first size.       *)
(***************************************************************************)
EXTENDS LUT, FiniteSetTheorems, SequenceTheorems, TLAPS

\* The nodes before node i whose keys have the hash of its key.
Earlier(i) ==
    {j \in DOMAIN nodes : j < i /\ nodes[j].id.hash = nodes[i].id.hash}

\* The overlap of a node is the number of keys of its hash that were there
\* before it: this keeps identifiers apart although none is ever compared
\* with the others when it is made.
Ranked == \A i \in DOMAIN nodes : nodes[i].id.overlap = Cardinality(Earlier(i))

KeysDistinct == \A i, j \in DOMAIN nodes : nodes[i].key = nodes[j].key => i = j

TableInv == TypeOK /\ Placed /\ KeysDistinct /\ Ranked /\ RefsExact

----------------------------------------------------------------------------
(* What the operators of LUT mean in a table that satisfies the invariant. *)

\* The types of a node's parts.
LEMMA NodeType ==
  ASSUME TypeOK, NEW i \in DOMAIN nodes
  PROVE  /\ i \in 1..Len(nodes) /\ Len(nodes) \in Nat
         /\ nodes[i] \in Nodes
         /\ nodes[i].key \in Keys /\ nodes[i].data \in Data
         /\ nodes[i].bucket \in Nat
         /\ nodes[i].id \in Ids /\ nodes[i].id.hash \in Nat
<1>1. i \in 1..Len(nodes) /\ Len(nodes) \in Nat /\ nodes[i] \in Nodes
  BY DEF TypeOK
<1>2. nodes[i].id \in Ids
  BY <1>1 DEF Nodes
<1>3. nodes[i].id.hash \in Nat
  BY <1>2, HashIsNatural DEF Ids
<1> QED
  BY <1>1, <1>2, <1>3 DEF Nodes

\* The nodes before one are finitely many: they have a number.
LEMMA EarlierIsFinite ==
  ASSUME TypeOK, NEW i \in DOMAIN nodes
  PROVE  IsFiniteSet(Earlier(i)) /\ Cardinality(Earlier(i)) \in Nat
<1>1. Earlier(i) \in SUBSET (1..Len(nodes))
  BY DEF TypeOK, Earlier
<1>2. IsFiniteSet(1..Len(nodes))
  BY FS_Interval DEF TypeOK
<1> QED
  BY <1>1, <1>2, FS_Subset, FS_CardinalityType

\* Identifiers lead to one node each.
LEMMA RankedIsDistinct ==
  ASSUME TableInv
  PROVE  Distinct
<1>1. ASSUME NEW i \in DOMAIN nodes, NEW j \in DOMAIN nodes, i < j,
             nodes[i].id = nodes[j].id
      PROVE  FALSE
  <2>1. Earlier(i) \in SUBSET Earlier(j)
    BY <1>1 DEF TableInv, TypeOK, Earlier
  <2>2. i \in Earlier(j) /\ i \notin Earlier(i)
    BY <1>1 DEF TableInv, TypeOK, Earlier
  <2>3. Cardinality(Earlier(i)) = Cardinality(Earlier(j))
    BY <1>1 DEF TableInv, Ranked
  <2> QED
    BY <2>1, <2>2, <2>3, EarlierIsFinite, FS_Subset DEF TableInv
<1>2. \A i, j \in DOMAIN nodes : i < j \/ j < i \/ i = j
  BY DEF TableInv, TypeOK
<1> QED
  BY <1>1, <1>2 DEF Distinct, TableInv, KeysDistinct

\* The same after a step.
LEMMA RankedIsDistinctNext == TableInv' => Distinct'
<1>1. TableInv => Distinct
  BY RankedIsDistinct
<1> QED
  BY <1>1, PTL

\* lut_get_id looks at all the nodes that have the hash of the key.
LEMMA SameHashIsAll ==
  ASSUME TypeOK, Placed, NEW k \in Keys
  PROVE  SameHash(k) = {i \in DOMAIN nodes : Hash[nodes[i].key] = Hash[k]}
BY DEF Placed, SameHash, Chain

\* It finds a key if there is a node for it,
LEMMA ExistsIsPresent ==
  ASSUME TypeOK, Placed, NEW k \in Keys
  PROVE  Exists(k) <=> \E i \in DOMAIN nodes : nodes[i].key = k
BY SameHashIsAll DEF Exists

\* and then returns its identifier, which leads back to it.
LEMMA FindsNode ==
  ASSUME TableInv, NEW i \in DOMAIN nodes
  PROVE  /\ Exists(nodes[i].key)
         /\ IdOf(nodes[i].key) = nodes[i].id
         /\ WithId(nodes[i].id) = {i}
         /\ First(WithId(nodes[i].id)) = i
         /\ Get(nodes[i].id) = nodes[i].data
<1> DEFINE k == nodes[i].key
<1>1. k \in Keys /\ i \in Nat
  BY NodeType DEF TableInv
<1>2. First({i}) = i
  BY <1>1 DEF First
<1>3. Exists(k)
  BY <1>1, ExistsIsPresent DEF TableInv
<1>4. {j \in SameHash(k) : nodes[j].key = k} = {i}
  BY <1>1, SameHashIsAll DEF TableInv, KeysDistinct
<1>5. IdOf(k) = nodes[i].id
  BY <1>2, <1>3, <1>4 DEF IdOf
<1>6. WithId(nodes[i].id) = {i}
  BY RankedIsDistinct DEF Distinct, TableInv, Placed, WithId, Chain
<1> QED
  BY <1>2, <1>3, <1>5, <1>6 DEF Get

\* The keys of one hash in the table are fewer than the overlaps there are,
\* as long as one key of that hash is not in it.
LEMMA OverlapFits ==
  ASSUME TableInv, NEW k \in Keys, ~Exists(k)
  PROVE  /\ IsFiniteSet(SameHash(k))
         /\ Cardinality(SameHash(k)) \in 0..(OverlapRange - 1)
         /\ IdOf(k) = [hash |-> Hash[k], overlap |-> Cardinality(SameHash(k))]
         /\ IdOf(k) \in Ids
<1> DEFINE S == SameHash(k)
           T == {j \in Keys : Hash[j] = Hash[k]}
           f == [i \in S |-> nodes[i].key]
<1>1. IsFiniteSet(T) /\ Cardinality(T) <= OverlapRange /\ OverlapRange \in Nat
  BY FewCollisions
<1>2. IsFiniteSet(T \ {k}) /\ Cardinality(T \ {k}) = Cardinality(T) - 1
  BY <1>1, FS_RemoveElement
<1>3. S = {i \in DOMAIN nodes : Hash[nodes[i].key] = Hash[k]}
  BY SameHashIsAll DEF TableInv
<1>4. \A i \in DOMAIN nodes : nodes[i].key \in Keys /\ nodes[i].key # k
  BY ExistsIsPresent, NodeType DEF TableInv
<1>5. f \in Injection(S, T \ {k})
  BY <1>3, <1>4 DEF TableInv, KeysDistinct, Injection, IsInjective
<1>6. IsFiniteSet(S) /\ Cardinality(S) <= Cardinality(T \ {k})
  BY <1>2, <1>5, FS_Injection
<1>7. Cardinality(S) \in Nat /\ Cardinality(T) \in Nat
  BY <1>1, <1>6, FS_CardinalityType
<1>8. Cardinality(S) \in 0..(OverlapRange - 1)
  BY <1>1, <1>2, <1>6, <1>7
<1>9. Cardinality(S) % OverlapRange = Cardinality(S)
  BY <1>1, <1>8
<1> QED
  BY <1>6, <1>8, <1>9 DEF IdOf, Ids

\* Growing puts every node where the table of the new size looks for it, and
\* changes nothing else of it.
LEMMA RehashedPlaced ==
  ASSUME TypeOK, Placed
  PROVE  /\ Grown \in Nat \ {0}
         /\ Rehashed \in Seq(Nodes) /\ Len(Rehashed) = Len(nodes)
         /\ DOMAIN Rehashed = DOMAIN nodes
         /\ \A i \in DOMAIN nodes :
              /\ Rehashed[i] = [nodes[i] EXCEPT !.bucket = Rehashed[i].bucket]
              /\ Rehashed[i].bucket = nodes[i].id.hash % Grown
<1>1. Grown \in Nat \ {0}
  BY DEF TypeOK, Grown
<1>2. \A i \in DOMAIN nodes : nodes[i] \in Nodes /\ nodes[i].id.hash \in Nat
  BY NodeType
<1>3. \A n \in Nat : n % Grown \in Nat
  BY <1>1
<1>4. CASE Full
  <2> DEFINE R == [i \in DOMAIN nodes |->
                     [nodes[i] EXCEPT !.bucket = nodes[i].id.hash % Grown]]
  <2>1. Rehashed = R
    BY <1>4 DEF Rehashed
  <2>2. \A i \in DOMAIN nodes : R[i] \in Nodes
    BY <1>2, <1>3 DEF Nodes
  <2>3. R \in Seq(Nodes) /\ Len(R) = Len(nodes) /\ DOMAIN R = DOMAIN nodes
    BY <2>2 DEF TypeOK
  <2> QED
    BY <1>1, <1>2, <2>1, <2>3 DEF Nodes
<1>5. CASE ~Full
  BY <1>1, <1>2, <1>5 DEF Rehashed, Grown, Placed, TypeOK, Nodes
<1> QED
  BY <1>4, <1>5

----------------------------------------------------------------------------
(* The invariant holds. *)

\* A value is held by finitely many nodes.
LEMMA HoldingIsFinite ==
  ASSUME TypeOK, NEW d
  PROVE  IsFiniteSet({i \in DOMAIN nodes : nodes[i].data = d})
<1>1. {i \in DOMAIN nodes : nodes[i].data = d} \in SUBSET (1..Len(nodes))
  BY DEF TypeOK
<1>2. IsFiniteSet(1..Len(nodes))
  BY FS_Interval DEF TypeOK
<1> QED
  BY <1>1, <1>2, FS_Subset

\* A new table is empty.
LEMMA TableInvInit == Init => TableInv
<1> SUFFICES ASSUME Init PROVE TableInv
  OBVIOUS
<1>1. nodes = <<>> /\ DOMAIN nodes = {} /\ nodes \in Seq(Nodes)
  BY DEF Init
<1>2. TypeOK
  BY <1>1, SizeIsPositive DEF Init, TypeOK
<1>3. RefsExact
  BY <1>1, FS_EmptySet DEF Init, RefsExact
<1> QED
  BY <1>1, <1>2, <1>3 DEF TableInv, Placed, KeysDistinct, Ranked

\* What InsertNew does to the nodes, one by one.
LEMMA InsertNewNodes ==
  ASSUME TableInv, NEW k \in Keys, NEW d \in Data, InsertNew(k, d)
  PROVE  LET n == Len(nodes) + 1 IN
         /\ size' \in Nat \ {0}
         /\ nodes' \in Seq(Nodes) /\ DOMAIN nodes' = 1..n /\ DOMAIN nodes = 1..(n - 1)
         /\ \A i \in DOMAIN nodes :
              /\ nodes'[i].key = nodes[i].key /\ nodes'[i].id = nodes[i].id
              /\ nodes'[i].data = nodes[i].data
              /\ nodes'[i].bucket = nodes[i].id.hash % size'
         /\ nodes'[n].key = k /\ nodes'[n].id = IdOf(k) /\ nodes'[n].data = d
         /\ nodes'[n].bucket = Hash[k] % size'
<1> DEFINE new == [key |-> k, id |-> IdOf(k), data |-> d, bucket |-> Hash[k] % Grown]
<1>1. nodes' = Append(Rehashed, new) /\ size' = Grown /\ ~Exists(k)
  BY DEF InsertNew
<1>2. /\ Grown \in Nat \ {0} /\ Rehashed \in Seq(Nodes)
      /\ Len(Rehashed) = Len(nodes) /\ DOMAIN Rehashed = DOMAIN nodes
      /\ \A i \in DOMAIN nodes :
           /\ Rehashed[i] = [nodes[i] EXCEPT !.bucket = Rehashed[i].bucket]
           /\ Rehashed[i].bucket = nodes[i].id.hash % Grown
  BY RehashedPlaced DEF TableInv
<1>3. \A i \in DOMAIN nodes : nodes[i] \in Nodes
  BY NodeType DEF TableInv
<1>4. \A i \in DOMAIN nodes :
        /\ Rehashed[i].key = nodes[i].key /\ Rehashed[i].id = nodes[i].id
        /\ Rehashed[i].data = nodes[i].data
  BY <1>2, <1>3 DEF Nodes
<1>5. Hash[k] % Grown \in Nat
  BY <1>2, HashIsNatural
<1>6. new \in Nodes
  BY <1>1, <1>5, OverlapFits DEF Nodes
<1> HIDE DEF new
<1>7. /\ nodes' \in Seq(Nodes) /\ DOMAIN nodes' = 1..(Len(nodes) + 1)
      /\ DOMAIN nodes = 1..Len(nodes) /\ Len(nodes) \in Nat
      /\ \A i \in DOMAIN nodes : nodes'[i] = Rehashed[i]
      /\ nodes'[Len(nodes) + 1] = new
  BY <1>1, <1>2, <1>6 DEF TableInv, TypeOK
<1> QED
  BY <1>1, <1>2, <1>4, <1>7 DEF new

\* The node that InsertExisting writes to, and what it does to it.
LEMMA InsertExistingNodes ==
  ASSUME TableInv, NEW k \in Keys, NEW d \in Data, InsertExisting(k, d),
         NEW i \in DOMAIN nodes, nodes[i].key = k
  PROVE  /\ size' \in Nat \ {0}
         /\ nodes' \in Seq(Nodes) /\ DOMAIN nodes' = DOMAIN nodes
         /\ \A j \in DOMAIN nodes :
              /\ nodes'[j].key = nodes[j].key /\ nodes'[j].id = nodes[j].id
              /\ nodes'[j].bucket = nodes[j].id.hash % size'
              /\ j # i => nodes'[j].data = nodes[j].data
         /\ nodes'[i].data = d
         /\ refs' = IF d = nodes[i].data THEN refs
                    ELSE [refs EXCEPT ![d] = @ + 1, ![nodes[i].data] = @ - 1]
<1>1. First(WithId(IdOf(k))) = i
  BY FindsNode
<1>2. /\ nodes' = [Rehashed EXCEPT ![i].data = d] /\ size' = Grown
      /\ refs' = IF d = nodes[i].data THEN refs
                 ELSE [refs EXCEPT ![d] = @ + 1, ![nodes[i].data] = @ - 1]
  BY <1>1 DEF InsertExisting
<1>3. /\ Grown \in Nat \ {0} /\ Rehashed \in Seq(Nodes)
      /\ Len(Rehashed) = Len(nodes) /\ DOMAIN Rehashed = DOMAIN nodes
      /\ \A j \in DOMAIN nodes :
           /\ Rehashed[j] = [nodes[j] EXCEPT !.bucket = Rehashed[j].bucket]
           /\ Rehashed[j].bucket = nodes[j].id.hash % Grown
  BY RehashedPlaced DEF TableInv
<1>4. \A j \in DOMAIN nodes : nodes[j] \in Nodes /\ Rehashed[j] \in Nodes
  BY <1>3, NodeType DEF TableInv
<1>5. \A j \in DOMAIN nodes :
        /\ Rehashed[j].key = nodes[j].key /\ Rehashed[j].id = nodes[j].id
        /\ Rehashed[j].data = nodes[j].data
  BY <1>3, <1>4 DEF Nodes
<1>6. [Rehashed[i] EXCEPT !.data = d] \in Nodes
  BY <1>4 DEF Nodes
<1>7. nodes' \in Seq(Nodes) /\ DOMAIN nodes' = DOMAIN nodes
  <2>1. nodes' = [Rehashed EXCEPT ![i] = [Rehashed[i] EXCEPT !.data = d]]
    BY <1>2
  <2> QED
    BY <1>3, <1>6, <2>1
<1>8. \A j \in DOMAIN nodes :
        nodes'[j] = IF j = i THEN [Rehashed[i] EXCEPT !.data = d] ELSE Rehashed[j]
  BY <1>2, <1>3
<1> QED
  BY <1>2, <1>3, <1>4, <1>5, <1>7, <1>8 DEF Nodes

\* lut_insert of a key that is not there adds a node, ranked behind those of
\* its hash.
LEMMA InsertNewKeeps ==
  ASSUME TableInv, NEW k \in Keys, NEW d \in Data, InsertNew(k, d)
  PROVE  TableInv'
<1> DEFINE n == Len(nodes) + 1
<1>1. /\ size' \in Nat \ {0}
      /\ nodes' \in Seq(Nodes) /\ DOMAIN nodes' = 1..n /\ DOMAIN nodes = 1..(n - 1)
      /\ \A i \in DOMAIN nodes :
           /\ nodes'[i].key = nodes[i].key /\ nodes'[i].id = nodes[i].id
           /\ nodes'[i].data = nodes[i].data
           /\ nodes'[i].bucket = nodes[i].id.hash % size'
      /\ nodes'[n].key = k /\ nodes'[n].id = IdOf(k) /\ nodes'[n].data = d
      /\ nodes'[n].bucket = Hash[k] % size'
  BY InsertNewNodes
<1>2. /\ refs' = [refs EXCEPT ![d] = @ + 1] /\ UNCHANGED <<held, freed>>
      /\ ~Exists(k)
  BY DEF InsertNew
<1>3. n \in Nat \ {0} /\ n \notin DOMAIN nodes /\ DOMAIN nodes' = DOMAIN nodes \cup {n}
  BY <1>1 DEF TableInv, TypeOK
<1>4. /\ IdOf(k) = [hash |-> Hash[k], overlap |-> Cardinality(SameHash(k))]
      /\ IdOf(k).hash = Hash[k] /\ IdOf(k).overlap = Cardinality(SameHash(k))
  BY <1>2, OverlapFits
<1>5. TypeOK'
  BY <1>1, <1>2 DEF TableInv, TypeOK
<1>6. Placed'
  BY <1>1, <1>3, <1>4 DEF TableInv, Placed
<1>7. KeysDistinct'
  BY <1>1, <1>2, <1>3, ExistsIsPresent DEF TableInv, KeysDistinct
<1>8. Ranked'
  <2>1. \A i \in DOMAIN nodes : Earlier(i)' = Earlier(i)
    BY <1>1, <1>3 DEF Earlier
  <2>2. \A m \in {n} : Earlier(m)' = SameHash(k)
    <3>1. SameHash(k) = {j \in DOMAIN nodes : nodes[j].id.hash = Hash[k]}
      BY SameHashIsAll DEF TableInv, Placed
    <3>2. \A j \in DOMAIN nodes : j < n
      BY <1>1, <1>3
    <3> QED
      BY <1>1, <1>3, <1>4, <3>1, <3>2 DEF Earlier
  <2> QED
    BY <1>1, <1>3, <1>4, <2>1, <2>2 DEF TableInv, Ranked
<1>9. RefsExact'
  <2>1. ASSUME NEW e \in Data
        PROVE  refs'[e] = Cardinality({i \in DOMAIN nodes' : nodes'[i].data = e})
    <3> DEFINE H == {i \in DOMAIN nodes : nodes[i].data = e}
               G == {i \in DOMAIN nodes' : nodes'[i].data = e}
    <3>1. IsFiniteSet(H) /\ n \notin H /\ refs[e] = Cardinality(H)
      BY <1>3, HoldingIsFinite DEF TableInv, RefsExact
    <3>2. CASE e = d
      <4>1. G = H \cup {n}
        BY <1>1, <1>3, <3>2
      <4>2. Cardinality(G) = Cardinality(H) + 1
        BY <3>1, <4>1, FS_AddElement
      <4> QED
        BY <1>2, <3>1, <3>2, <4>2 DEF TableInv, TypeOK
    <3>3. CASE e # d
      <4>1. G = H
        BY <1>1, <1>3, <3>3
      <4> QED
        BY <1>2, <3>1, <3>3, <4>1 DEF TableInv, TypeOK
    <3> QED
      BY <3>2, <3>3
  <2> QED
    BY <2>1 DEF RefsExact
<1> QED
  BY <1>5, <1>6, <1>7, <1>8, <1>9 DEF TableInv

\* lut_insert of a key that is there replaces its data and the references
\* with them.
LEMMA InsertExistingKeeps ==
  ASSUME TableInv, NEW k \in Keys, NEW d \in Data, InsertExisting(k, d)
  PROVE  TableInv'
<1>1. PICK i \in DOMAIN nodes : nodes[i].key = k
  BY ExistsIsPresent DEF InsertExisting, TableInv
<1> DEFINE old == nodes[i].data
<1>2. /\ size' \in Nat \ {0}
      /\ nodes' \in Seq(Nodes) /\ DOMAIN nodes' = DOMAIN nodes
      /\ \A j \in DOMAIN nodes :
           /\ nodes'[j].key = nodes[j].key /\ nodes'[j].id = nodes[j].id
           /\ nodes'[j].bucket = nodes[j].id.hash % size'
           /\ j # i => nodes'[j].data = nodes[j].data
      /\ nodes'[i].data = d
      /\ refs' = IF d = old THEN refs ELSE [refs EXCEPT ![d] = @ + 1, ![old] = @ - 1]
  BY <1>1, InsertExistingNodes
<1>3. UNCHANGED <<held, freed>>
  BY DEF InsertExisting
<1>4. old \in Data
  BY NodeType DEF TableInv
<1>5. \A e \in Data :
        /\ refs'[e] = Cardinality({j \in DOMAIN nodes' : nodes'[j].data = e})
        /\ refs'[e] \in Nat
  <2> SUFFICES ASSUME NEW e \in Data
               PROVE  /\ refs'[e] = Cardinality({j \in DOMAIN nodes' : nodes'[j].data = e})
                      /\ refs'[e] \in Nat
    OBVIOUS
  <2> DEFINE H == {j \in DOMAIN nodes : nodes[j].data = e}
             G == {j \in DOMAIN nodes' : nodes'[j].data = e}
  <2>1. /\ IsFiniteSet(H) /\ refs[e] = Cardinality(H) /\ refs[e] \in Nat
        /\ refs \in [Data -> Nat]
    BY HoldingIsFinite DEF TableInv, TypeOK, RefsExact
  <2>2. CASE (e # d /\ e # old) \/ d = old
    <3>1. G = H
      BY <1>2, <2>2
    <3> QED
      BY <1>2, <1>4, <2>1, <2>2, <3>1
  <2>3. CASE e = d /\ d # old
    <3>1. G = H \cup {i} /\ i \notin H
      BY <1>2, <2>3
    <3>2. Cardinality(G) = Cardinality(H) + 1
      BY <2>1, <3>1, FS_AddElement
    <3> QED
      BY <1>2, <1>4, <2>1, <2>3, <3>2
  <2>4. CASE e = old /\ d # old
    <3>1. G = H \ {i} /\ i \in H
      BY <1>2, <2>4
    <3>2. Cardinality(G) = Cardinality(H) - 1 /\ IsFiniteSet(G)
      BY <2>1, <3>1, FS_RemoveElement
    <3>3. Cardinality(G) \in Nat
      BY <3>2, FS_CardinalityType
    <3> QED
      BY <1>2, <1>4, <2>1, <2>4, <3>2, <3>3
  <2> QED
    BY <2>2, <2>3, <2>4
<1>6. refs' \in [Data -> Nat]
  <2>1. refs' = [e \in Data |-> refs'[e]]
    BY <1>2 DEF TableInv, TypeOK
  <2> QED
    BY <1>5, <2>1
<1>7. TypeOK'
  BY <1>2, <1>3, <1>6 DEF TableInv, TypeOK
<1>8. Placed' /\ KeysDistinct'
  BY <1>2 DEF TableInv, Placed, KeysDistinct
<1>9. Ranked'
  <2>1. \A j \in DOMAIN nodes : Earlier(j)' = Earlier(j)
    BY <1>2 DEF Earlier
  <2> QED
    BY <1>2, <2>1 DEF TableInv, Ranked
<1> QED
  BY <1>5, <1>7, <1>8, <1>9 DEF TableInv, RefsExact

\* Every call of the table keeps it in order, ranked and counted.
LEMMA TableInvStep == TableInv /\ [Next]_vars => TableInv'
<1> SUFFICES ASSUME TableInv, [Next]_vars PROVE TableInv'
  OBVIOUS
<1>1. ASSUME NEW k \in Keys, Lookup(k)
      PROVE  TableInv'
  <2>1. IdOf(k) \in Ids /\ Exists(k) \in BOOLEAN
    <3>1. CASE Exists(k)
      <4>1. PICK i \in DOMAIN nodes : nodes[i].key = k
        BY <3>1, ExistsIsPresent DEF TableInv
      <4> QED
        BY <4>1, FindsNode, NodeType DEF TableInv, Exists
    <3>2. CASE ~Exists(k)
      BY <3>2, OverlapFits DEF Exists
    <3> QED
      BY <3>1, <3>2
  <2>2. UNCHANGED <<size, nodes, refs, freed>> /\ held' \in Holders
    BY <1>1, <2>1 DEF Lookup, Holders
  <2>3. TypeOK'
    BY <2>2 DEF TableInv, TypeOK
  <2> QED
    BY <2>2, <2>3 DEF TableInv, Placed, KeysDistinct, Ranked, Earlier, RefsExact
<1>2. ASSUME Free
      PROVE  TableInv'
  <2>1. /\ nodes' = <<>> /\ DOMAIN nodes' = {} /\ nodes' \in Seq(Nodes)
        /\ freed' = TRUE /\ UNCHANGED <<size, held>>
    BY <1>2 DEF Free
  <2>2. \A d \in Data : refs'[d] = 0
    <3>1. \A d \in Data : refs[d] = Cardinality({i \in DOMAIN nodes : nodes[i].data = d})
      BY DEF TableInv, RefsExact
    <3> QED
      BY <1>2, <3>1 DEF Free, TableInv, TypeOK
  <2>3. refs' = [d \in Data |-> 0]
    BY <1>2, <2>2 DEF Free
  <2>4. TypeOK'
    BY <2>1, <2>3 DEF TableInv, TypeOK
  <2>5. RefsExact'
    BY <2>1, <2>3, FS_EmptySet DEF RefsExact
  <2> QED
    BY <2>1, <2>4, <2>5 DEF TableInv, Placed, KeysDistinct, Ranked
<1>3. CASE UNCHANGED vars
  <2>1. TypeOK'
    BY <1>3 DEF TableInv, TypeOK, vars
  <2> QED
    BY <1>3, <2>1 DEF TableInv, Placed, KeysDistinct, Ranked, Earlier, RefsExact, vars
<1> QED
  BY <1>1, <1>2, <1>3, InsertNewKeeps, InsertExistingKeeps DEF Next

\* The table is so in every state.
LEMMA TableInvHolds == Spec => []TableInv
BY TableInvInit, TableInvStep, PTL DEF Spec

----------------------------------------------------------------------------
(* The theorems. *)

\* The table is well formed whatever is inserted (lut_insert_id, lut_realloc).
THEOREM TypeCorrect == Spec => []TypeOK
BY TableInvHolds, PTL DEF TableInv

\* lut_realloc leaves no node in a bucket in which nobody looks for it.
THEOREM PlacedHolds == Spec => []Placed
BY TableInvHolds, PTL DEF TableInv

\* No two keys share an identifier, also those that share a hash: the count
\* that lut_get_id makes anew at each lookup is never the one of another key.
THEOREM DistinctHolds == Spec => []Distinct
BY TableInvHolds, RankedIsDistinct, PTL

\* lut_insert_id, overwriting and lut_free neither leak a reference nor give
\* one back too often.
THEOREM RefsExactHolds == Spec => []RefsExact
BY TableInvHolds, PTL DEF TableInv

\* The table grows before it is fuller than its threshold, from any first
\* size on (lut_insert_id).
THEOREM RoomLeftHolds == Spec => []RoomLeft
<1>1. Init => RoomLeft
  BY DEF Init, RoomLeft
<1>2. TableInv /\ RoomLeft /\ [Next]_vars => RoomLeft'
  <2> SUFFICES ASSUME TableInv, RoomLeft, [Next]_vars PROVE RoomLeft'
    OBVIOUS
  <2>1. size \in Nat \ {0} /\ Len(nodes) \in Nat /\ (nodes = <<>> <=> Len(nodes) = 0)
    BY DEF TableInv, TypeOK
  <2>2. Len(nodes) <= (7 * size) \div 10 \/ Len(nodes) = 0
    BY <2>1 DEF RoomLeft, ReallocAt
  <2>3. ASSUME NEW k \in Keys, NEW d \in Data, InsertNew(k, d)
        PROVE  RoomLeft'
    <3>1. Len(nodes') = Len(nodes) + 1
      BY <2>1, <2>3, InsertNewNodes
    <3>2. size' = IF Len(nodes) + 1 >= (7 * size) \div 10 THEN 4 * size ELSE size
      BY <2>3 DEF InsertNew, Grown, Full, ReallocAt
    <3>3. Len(nodes') <= (7 * size') \div 10
      BY <2>1, <2>2, <3>1, <3>2
    <3> QED
      BY <3>3 DEF RoomLeft, ReallocAt
  <2>4. ASSUME NEW k \in Keys, NEW d \in Data, InsertExisting(k, d)
        PROVE  RoomLeft'
    <3>1. PICK i \in DOMAIN nodes : nodes[i].key = k
      BY <2>4, ExistsIsPresent DEF InsertExisting, TableInv
    <3>2. Len(nodes') = Len(nodes) /\ Len(nodes) > 0
      BY <2>1, <2>4, <3>1, InsertExistingNodes DEF TableInv, TypeOK
    <3>3. size' = IF Len(nodes) + 1 >= (7 * size) \div 10 THEN 4 * size ELSE size
      BY <2>4 DEF InsertExisting, Grown, Full, ReallocAt
    <3>4. Len(nodes') <= (7 * size') \div 10
      BY <2>1, <2>2, <3>2, <3>3
    <3> QED
      BY <3>4 DEF RoomLeft, ReallocAt
  <2>5. ASSUME NEW k \in Keys, Lookup(k)
        PROVE  RoomLeft'
    BY <2>5 DEF Lookup, RoomLeft
  <2>6. CASE Free
    BY <2>6 DEF Free, RoomLeft
  <2>7. CASE UNCHANGED vars
    BY <2>7 DEF vars, RoomLeft
  <2> QED
    BY <2>3, <2>4, <2>5, <2>6, <2>7 DEF Next
<1> QED
  BY <1>1, <1>2, TableInvHolds, PTL DEF Spec

\* What a caller that keeps an identifier may rely on.
Kept ==
    ~freed /\ held # NoHolder =>
        IF held.exists
        THEN \E i \in DOMAIN nodes : nodes[i].id = held.id /\ nodes[i].key = held.key
        ELSE held.id.hash = Hash[held.key]

\* An identifier that lut_get_id gave to an atom or ebuild is good for the
\* life of the table, through every growth and overwriting.
THEOREM HeldStaysValidHolds == Spec => []HeldStaysValid
<1>1. Init => Kept
  BY DEF Init, Kept
<1>2. TableInv /\ Kept /\ [Next]_vars => Kept'
  <2> SUFFICES ASSUME TableInv, Kept, [Next]_vars PROVE Kept'
    OBVIOUS
  <2>1. ASSUME NEW k \in Keys, NEW d \in Data, InsertNew(k, d)
        PROVE  Kept'
    <3>1. UNCHANGED <<held, freed>>
      BY <2>1 DEF InsertNew
    <3>2. \A i \in DOMAIN nodes : i \in DOMAIN nodes'
             /\ nodes'[i].id = nodes[i].id /\ nodes'[i].key = nodes[i].key
      BY <2>1, InsertNewNodes DEF TableInv, TypeOK
    <3> QED
      BY <3>1, <3>2 DEF Kept
  <2>2. ASSUME NEW k \in Keys, NEW d \in Data, InsertExisting(k, d)
        PROVE  Kept'
    <3>1. UNCHANGED <<held, freed>>
      BY <2>2 DEF InsertExisting
    <3>2. PICK i \in DOMAIN nodes : nodes[i].key = k
      BY <2>2, ExistsIsPresent DEF InsertExisting, TableInv
    <3>3. \A j \in DOMAIN nodes : j \in DOMAIN nodes'
             /\ nodes'[j].id = nodes[j].id /\ nodes'[j].key = nodes[j].key
      BY <2>2, <3>2, InsertExistingNodes
    <3> QED
      BY <3>1, <3>3 DEF Kept
  <2>3. ASSUME NEW k \in Keys, Lookup(k)
        PROVE  Kept'
    <3>1. /\ held' = [key |-> k, id |-> IdOf(k), exists |-> Exists(k)]
          /\ nodes' = nodes
      BY <2>3 DEF Lookup
    <3>2. CASE Exists(k)
      <4>1. PICK i \in DOMAIN nodes : nodes[i].key = k
        BY <3>2, ExistsIsPresent DEF TableInv
      <4> QED
        BY <3>1, <3>2, <4>1, FindsNode DEF Kept
    <3>3. CASE ~Exists(k)
      BY <3>1, <3>3, OverlapFits DEF Kept
    <3> QED
      BY <3>2, <3>3
  <2>4. CASE Free
    BY <2>4 DEF Free, Kept
  <2>5. CASE UNCHANGED vars
    BY <2>5 DEF vars, Kept
  <2> QED
    BY <2>1, <2>2, <2>3, <2>4, <2>5 DEF Next
<1>3. TableInv /\ Kept => HeldStaysValid
  <2> SUFFICES ASSUME TableInv, Kept, ~freed, held # NoHolder
               PROVE  IF held.exists
                      THEN /\ WithId(held.id) # {}
                           /\ nodes[First(WithId(held.id))].key = held.key
                      ELSE \A i \in WithId(held.id) : Hash[nodes[i].key] = Hash[held.key]
    BY DEF HeldStaysValid
  <2>1. CASE held.exists
    <3>1. PICK i \in DOMAIN nodes : nodes[i].id = held.id /\ nodes[i].key = held.key
      BY <2>1 DEF Kept
    <3>2. WithId(held.id) = {i} /\ First(WithId(held.id)) = i
      BY <3>1, FindsNode
    <3> QED
      BY <2>1, <3>1, <3>2
  <2>2. CASE ~held.exists
    BY <2>2 DEF Kept, WithId, Chain, TableInv, Placed
  <2> QED
    BY <2>1, <2>2
<1> QED
  BY <1>1, <1>2, <1>3, TableInvHolds, PTL DEF Spec

----------------------------------------------------------------------------
(* The table implements IdTable. *)

\* The refinement mapping, key by key.
Mapped ==
    /\ idOf = [k \in Keys |-> idOf[k]]
    /\ valueOf = [k \in Keys |-> valueOf[k]]
    /\ \A i \in DOMAIN nodes : /\ idOf[nodes[i].key] = nodes[i].id
                               /\ valueOf[nodes[i].key] = nodes[i].data
    /\ \A k \in Keys : (\A i \in DOMAIN nodes : nodes[i].key # k) =>
         idOf[k] = NoId /\ valueOf[k] = NoData

\* What the table has for a key is what IdTable is mapped to.
LEMMA MappingHolds == TableInv => Mapped
<1> SUFFICES ASSUME TableInv PROVE Mapped
  OBVIOUS
<1>1. \A i \in DOMAIN nodes : nodes[i].key \in Keys
  BY NodeType DEF TableInv
<1> QED
  BY <1>1, FindsNode, ExistsIsPresent DEF TableInv, Mapped, idOf, valueOf

\* So it is after a step.
LEMMA MappingHoldsNext == TableInv' => Mapped'
BY MappingHolds, PTL

\* A step that leaves the nodes alone leaves the table alone.
LEMMA SameNodesSameTable ==
  ASSUME nodes' = nodes, size' = size
  PROVE  UNCHANGED Table!vars
BY DEF Table!vars, idOf, valueOf, Exists, IdOf, Get, WithId, SameHash, Chain, First

\* A new table is an empty IdTable.
LEMMA TableInit == Init => Table!Init
<1> SUFFICES ASSUME Init PROVE Table!Init
  OBVIOUS
<1>1. TableInv /\ DOMAIN nodes = {}
  BY TableInvInit DEF Init
<1> QED
  BY <1>1, MappingHolds DEF Table!Init, Mapped

\* Every call is a step of IdTable or leaves it as it is.
LEMMA TableStep == TableInv /\ TableInv' /\ [Next]_vars => [Table!Next]_(Table!vars)
<1> SUFFICES ASSUME TableInv, TableInv', [Next]_vars PROVE [Table!Next]_(Table!vars)
  OBVIOUS
<1>1. Mapped /\ Mapped'
  BY MappingHolds, MappingHoldsNext
<1>2. \A i \in DOMAIN nodes : nodes[i].key \in Keys /\ nodes[i].id \in Ids
  BY NodeType DEF TableInv
<1>3. NoId \notin Ids
  BY FewCollisions DEF NoId, Ids
<1> HIDE DEF idOf, valueOf, NoId
<1>4. ASSUME NEW k \in Keys, NEW d \in Data, InsertNew(k, d)
      PROVE  Table!Add(k, d, IdOf(k)) /\ IdOf(k) \in Ids
  <2> DEFINE n == Len(nodes) + 1
             id == IdOf(k)
  <2>1. /\ DOMAIN nodes' = 1..n /\ DOMAIN nodes = 1..(n - 1) /\ Len(nodes) \in Nat
        /\ \A i \in DOMAIN nodes :
             /\ nodes'[i].key = nodes[i].key /\ nodes'[i].id = nodes[i].id
             /\ nodes'[i].data = nodes[i].data
        /\ nodes'[n].key = k /\ nodes'[n].id = id /\ nodes'[n].data = d
    BY <1>4, InsertNewNodes DEF TableInv, TypeOK
  <2>2. id \in Ids /\ \A i \in DOMAIN nodes : nodes[i].key # k
    BY <1>4, OverlapFits, ExistsIsPresent DEF InsertNew, TableInv
  <2>3. \A i \in DOMAIN nodes : nodes[i].id # id
    <3>1. Distinct'
      BY RankedIsDistinctNext
    <3> QED
      BY <2>1, <3>1 DEF Distinct
  <2> HIDE DEF id, n
  <2>4. DOMAIN nodes' = DOMAIN nodes \cup {n}
    BY <2>1 DEF n
  <2>5. \A q \in Keys :
          /\ idOf[q] # id
          /\ idOf'[q] = IF q = k THEN id ELSE idOf[q]
          /\ valueOf'[q] = IF q = k THEN d ELSE valueOf[q]
    <3> SUFFICES ASSUME NEW q \in Keys
                 PROVE  /\ idOf[q] # id
                        /\ idOf'[q] = IF q = k THEN id ELSE idOf[q]
                        /\ valueOf'[q] = IF q = k THEN d ELSE valueOf[q]
      OBVIOUS
    <3>1. CASE \E i \in DOMAIN nodes : nodes[i].key = q
      <4>1. PICK i \in DOMAIN nodes : nodes[i].key = q
        BY <3>1
      <4>2. idOf[q] = nodes[i].id /\ valueOf[q] = nodes[i].data
        BY <1>1, <4>1 DEF Mapped
      <4>3. i \in DOMAIN nodes' /\ nodes'[i].key = q
        BY <2>1, <2>4, <4>1
      <4>4. idOf'[q] = nodes'[i].id /\ valueOf'[q] = nodes'[i].data
        BY <1>1, <4>3 DEF Mapped
      <4> QED
        BY <2>1, <2>2, <2>3, <4>1, <4>2, <4>4
    <3>2. CASE q = k
      <4>1. n \in DOMAIN nodes' /\ nodes'[n].key = q
        BY <2>1, <2>4, <3>2
      <4>2. idOf'[q] = nodes'[n].id /\ valueOf'[q] = nodes'[n].data
        BY <1>1, <4>1 DEF Mapped
      <4>3. idOf[q] = NoId
        BY <1>1, <2>2, <3>2 DEF Mapped
      <4> QED
        BY <1>3, <2>1, <2>2, <3>2, <4>2, <4>3
    <3>3. CASE q # k /\ \A i \in DOMAIN nodes : nodes[i].key # q
      <4>1. \A i \in DOMAIN nodes' : nodes'[i].key # q
        BY <2>1, <2>4, <3>3
      <4>2. /\ idOf[q] = NoId /\ valueOf[q] = NoData
            /\ idOf'[q] = NoId /\ valueOf'[q] = NoData
        BY <1>1, <3>3, <4>1 DEF Mapped
      <4> QED
        BY <1>3, <2>2, <3>3, <4>2
    <3> QED
      BY <3>1, <3>2, <3>3
  <2>6. idOf[k] = NoId
    BY <1>1, <2>2 DEF Mapped
  <2>7. idOf' = [idOf EXCEPT ![k] = id] /\ valueOf' = [valueOf EXCEPT ![k] = d]
    BY <1>1, <2>5 DEF Mapped
  <2>8. \A other \in Keys : idOf[other] # id
    BY <2>5
  <2> QED
    BY <2>2, <2>6, <2>7, <2>8 DEF Table!Add, id
<1>5. ASSUME NEW k \in Keys, NEW d \in Data, InsertExisting(k, d)
      PROVE  Table!Replace(k, d)
  <2>1. PICK i \in DOMAIN nodes : nodes[i].key = k
    BY <1>5, ExistsIsPresent DEF InsertExisting, TableInv
  <2>2. /\ DOMAIN nodes' = DOMAIN nodes
        /\ \A j \in DOMAIN nodes :
             /\ nodes'[j].key = nodes[j].key /\ nodes'[j].id = nodes[j].id
             /\ j # i => nodes'[j].data = nodes[j].data
        /\ nodes'[i].data = d
    BY <1>5, <2>1, InsertExistingNodes
  <2>3. \A q \in Keys :
          /\ idOf'[q] = idOf[q]
          /\ valueOf'[q] = IF q = k THEN d ELSE valueOf[q]
    <3> SUFFICES ASSUME NEW q \in Keys
                 PROVE  /\ idOf'[q] = idOf[q]
                        /\ valueOf'[q] = IF q = k THEN d ELSE valueOf[q]
      OBVIOUS
    <3>1. CASE \E j \in DOMAIN nodes : nodes[j].key = q
      BY <1>1, <2>1, <2>2, <3>1 DEF Mapped
    <3>2. CASE \A j \in DOMAIN nodes : nodes[j].key # q
      BY <1>1, <2>1, <2>2, <3>2 DEF Mapped
    <3> QED
      BY <3>1, <3>2
  <2>4. idOf' = idOf /\ valueOf' = [valueOf EXCEPT ![k] = d]
    BY <1>1, <2>3 DEF Mapped
  <2>5. idOf[k] # NoId
    BY <1>1, <1>2, <1>3, <2>1 DEF Mapped
  <2> QED
    BY <2>4, <2>5 DEF Table!Replace
<1>6. ASSUME NEW k \in Keys, Lookup(k)
      PROVE  UNCHANGED Table!vars
  <2>1. nodes' = nodes /\ size' = size
    BY <1>6 DEF Lookup
  <2> QED
    BY <2>1, SameNodesSameTable
<1>7. CASE Free
  <2>1. DOMAIN nodes' = {}
    BY <1>7 DEF Free
  <2> QED
    BY <1>1, <2>1 DEF Mapped, Table!Drop, Table!Next
<1>8. CASE UNCHANGED vars
  <2>1. nodes' = nodes /\ size' = size
    BY <1>8 DEF vars
  <2> QED
    BY <2>1, SameNodesSameTable
<1> QED
  BY <1>4, <1>5, <1>6, <1>7, <1>8 DEF Next, Table!Next

\* The table keeps the promises of IdTable for any keys and any hash: to its
\* users growth, collisions and overwriting (lut.c) are invisible.
THEOREM LUTImplementsIdTable == Spec => ImplementsIdTable
BY TableInit, TableStep, TableInvHolds, PTL
DEF Spec, ImplementsIdTable, Table!Spec
=============================================================================
