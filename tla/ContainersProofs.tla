-------------------------- MODULE ContainersProofs --------------------------
(***************************************************************************)
(* Theorems about Containers, for any objects, keys, hashes, sizes and     *)
(* comparisons, and any number of vectors and sets.                        *)
(*                                                                         *)
(* What is shown of each container is how a step changes how often an      *)
(* object is in it (Occurrences): of a list by the nodes that lead to each *)
(* other (Along), of a map by what each key leads to (Lookup), which the   *)
(* items of a bucket are one to one with, and of vectors and sets by what  *)
(* is done to their sequences.  The inductive invariant Inv says that each *)
(* container has its shape and that the counts are exact.                  *)
(***************************************************************************)
EXTENDS Containers, Integers, LeastNumber, FiniteSetTheorems, SequenceTheorems

\* A set that a function maps to another, one to one, is as large.
LEMMA OneToOne ==
    ASSUME NEW S, NEW T, IsFiniteSet(S), NEW f, f \in [S -> T],
           \A x, y \in S : f[x] = f[y] => x = y,
           \A t \in T : \E x \in S : f[x] = t
    PROVE  IsFiniteSet(T) /\ Cardinality(T) = Cardinality(S)
<1>1. f \in Surjection(S, T) /\ f \in Injection(S, T)
  BY DEF Surjection, Injection, IsInjective
<1> QED
  BY <1>1, FS_Surjection

\* Two sets that have nothing in common.
LEMMA Apart ==
    ASSUME NEW S, NEW T, IsFiniteSet(S), IsFiniteSet(T), S \cap T = {}
    PROVE  IsFiniteSet(S \cup T) /\ Cardinality(S \cup T) = Cardinality(S) + Cardinality(T)
<1>1. Cardinality(S) \in Nat /\ Cardinality(T) \in Nat
  BY FS_CardinalityType
<1>2. Cardinality({}) = 0
  BY FS_EmptySet
<1>3. /\ IsFiniteSet(S \cup T)
      /\ Cardinality(S \cup T) = Cardinality(S) + Cardinality(T) - Cardinality(S \cap T)
  BY FS_Union
<1>4. Cardinality(S \cap T) = 0
  BY <1>2
<1> QED
  BY <1>1, <1>3, <1>4

----------------------------------------------------------------------------
(* How often an object is an element *)

\* An object is finitely often in a container that is finite.
LEMMA OccurrencesAreFinite ==
    ASSUME NEW f, IsFiniteSet(DOMAIN f), NEW o
    PROVE  /\ IsFiniteSet({i \in DOMAIN f : f[i] = o})
           /\ Occurrences(o, f) \in Nat
<1>1. {i \in DOMAIN f : f[i] = o} \in SUBSET DOMAIN f
  OBVIOUS
<1>2. IsFiniteSet({i \in DOMAIN f : f[i] = o})
  BY <1>1, FS_Subset
<1> QED
  BY <1>2, FS_CardinalityType DEF Occurrences

\* The same of a sequence, whose places are 1 to its length.
LEMMA OccurrencesInSeq ==
    ASSUME NEW S, NEW s \in Seq(S), NEW o
    PROVE  /\ IsFiniteSet(DOMAIN s) /\ DOMAIN s = 1..Len(s) /\ Len(s) \in Nat
           /\ IsFiniteSet({i \in DOMAIN s : s[i] = o})
           /\ Occurrences(o, s) \in Nat
<1>1. DOMAIN s = 1..Len(s) /\ Len(s) \in Nat
  BY LenProperties
<1>2. IsFiniteSet(DOMAIN s)
  BY <1>1, FS_Interval
<1> QED
  BY <1>1, <1>2, OccurrencesAreFinite

\* Nothing is in an empty container.
LEMMA OccurrencesOfNone ==
    ASSUME NEW o
    PROVE  Occurrences(o, <<>>) = 0
<1>1. {i \in DOMAIN <<>> : <<>>[i] = o} = {}
  OBVIOUS
<1> QED
  BY <1>1, FS_EmptySet DEF Occurrences

\* A container of one element has that one once.
LEMMA OccurrencesOfOne ==
    ASSUME NEW o, NEW e
    PROVE  Occurrences(o, <<e>>) = IF e = o THEN 1 ELSE 0
<1> DEFINE s == <<e>>
<1>1. DOMAIN s = {1} /\ s[1] = e
  OBVIOUS
<1> HIDE DEF s
<1>2. CASE e = o
  <2>1. {i \in DOMAIN s : s[i] = o} = {1}
    BY <1>1, <1>2
  <2> QED
    BY <1>2, <2>1, FS_Singleton DEF Occurrences, s
<1>3. CASE e # o
  <2>1. {i \in DOMAIN s : s[i] = o} = {}
    BY <1>1, <1>3
  <2> QED
    BY <1>3, <2>1, FS_EmptySet DEF Occurrences, s
<1> QED
  BY <1>2, <1>3

\* One sequence behind another has what both have (vector_extend).
LEMMA OccurrencesOfTwo ==
    ASSUME NEW S, NEW s \in Seq(S), NEW t \in Seq(S), NEW o
    PROVE  Occurrences(o, s \o t) = Occurrences(o, s) + Occurrences(o, t)
<1> DEFINE u == s \o t
           m == Len(s)
           n == Len(t)
           A == {i \in DOMAIN s : s[i] = o}
           B == {i \in DOMAIN t : t[i] = o}
           C == {i \in 1..(m + n) : i > m /\ u[i] = o}
           f == [i \in B |-> m + i]
<1>1. /\ u \in Seq(S) /\ Len(u) = m + n
      /\ \A i \in 1..(m + n) : u[i] = IF i <= m THEN s[i] ELSE t[i - m]
  BY ConcatProperties
<1>2. /\ m \in Nat /\ n \in Nat /\ DOMAIN s = 1..m /\ DOMAIN t = 1..n /\ DOMAIN u = 1..(m + n)
      /\ IsFiniteSet(A) /\ IsFiniteSet(B)
  BY <1>1, OccurrencesInSeq
<1> HIDE DEF u, m, n
<1>3. f \in [B -> C]
  <2> SUFFICES ASSUME NEW i \in B PROVE m + i \in C
    OBVIOUS
  <2>1. i \in 1..n /\ t[i] = o
    BY <1>2
  <2>2. m + i \in 1..(m + n) /\ m + i > m /\ (m + i) - m = i
    BY <1>2, <2>1
  <2> QED
    BY <1>1, <1>2, <2>1, <2>2
<1>4. \A x, y \in B : f[x] = f[y] => x = y
  BY <1>2
<1>5. \A c \in C : \E x \in B : f[x] = c
  <2> SUFFICES ASSUME NEW c \in C PROVE c - m \in B /\ f[c - m] = c
    OBVIOUS
  <2>1. c - m \in 1..n
    BY <1>2
  <2>2. t[c - m] = o
    BY <1>1, <1>2
  <2> QED
    BY <1>2, <2>1, <2>2
<1> HIDE DEF f
<1>6. IsFiniteSet(C) /\ Cardinality(C) = Cardinality(B)
  BY <1>2, <1>3, <1>4, <1>5, OneToOne
<1>7. {i \in DOMAIN u : u[i] = o} = A \cup C
  BY <1>1, <1>2
<1>8. A \cap C = {}
  BY <1>2
<1>9. Cardinality(A \cup C) = Cardinality(A) + Cardinality(C)
  BY <1>2, <1>6, <1>8, Apart
<1> QED
  BY <1>6, <1>7, <1>9 DEF Occurrences, u

\* A sequence is what is before an element, the element, and what is after.
LEMMA SplitAt ==
    ASSUME NEW S, NEW s \in Seq(S), NEW i \in 1..Len(s)
    PROVE  /\ SubSeq(s, 1, i - 1) \in Seq(S) /\ SubSeq(s, i + 1, Len(s)) \in Seq(S)
           /\ s[i] \in S
           /\ s = SubSeq(s, 1, i - 1) \o (<<s[i]>> \o SubSeq(s, i + 1, Len(s)))
<1>1. Len(s) \in Nat /\ \A j \in 1..Len(s) : s[j] \in S
  BY LenProperties, ElementOfSeq
<1>2. SubSeq(s, 1, i - 1) \in Seq(S) /\ SubSeq(s, i + 1, Len(s)) \in Seq(S)
  BY <1>1, SubSeqProperties
<1>3. SubSeq(s, i, Len(s)) = <<s[i]>> \o SubSeq(s, i + 1, Len(s))
  <2>1. i \in 1..Len(s) /\ Len(s) \in i..Len(s)
    BY <1>1
  <2> QED
    BY <2>1, SubSeqRecursiveFirst
<1>4. SubSeq(s, 1, i - 1) \o SubSeq(s, (i - 1) + 1, Len(s)) = SubSeq(s, 1, Len(s))
  <2>1. 1 \in 1..(Len(s) + 1) /\ i - 1 \in (1 - 1)..Len(s) /\ Len(s) \in (i - 1)..Len(s)
    BY <1>1
  <2> QED
    BY <2>1, ConcatAdjacentSubSeq
<1>5. (i - 1) + 1 = i
  BY <1>1
<1>6. SubSeq(s, 1, Len(s)) = s
  BY SubSeqFull
<1> QED
  BY <1>1, <1>2, <1>3, <1>4, <1>5, <1>6

\* An element is taken out, put in after the first i, or replaced.
Without(s, i) == SubSeq(s, 1, i - 1) \o SubSeq(s, i + 1, Len(s))
With(s, i, e) == SubSeq(s, 1, i) \o <<e>> \o SubSeq(s, i + 1, Len(s))
Put(s, i, e) == [s EXCEPT ![i] = e]

\* Taking out the element at one place takes one of it (vector_remove).
LEMMA OccurrencesWithout ==
    ASSUME NEW S, NEW s \in Seq(S), NEW i \in 1..Len(s), NEW o
    PROVE  /\ Without(s, i) \in Seq(S)
           /\ Occurrences(o, s) = Occurrences(o, Without(s, i)) + (IF s[i] = o THEN 1 ELSE 0)
<1> DEFINE a == SubSeq(s, 1, i - 1)
           b == SubSeq(s, i + 1, Len(s))
           e == s[i]
           one == <<e>>
           m == IF e = o THEN 1 ELSE 0
<1>1. a \in Seq(S) /\ b \in Seq(S) /\ e \in S /\ s = a \o (one \o b)
  BY SplitAt
<1> HIDE DEF a, b, e
<1>2. one \in Seq(S) /\ Occurrences(o, one) = m
  BY <1>1, OccurrencesOfOne
<1> HIDE DEF one
<1>3. one \o b \in Seq(S) /\ a \o b \in Seq(S)
  BY <1>1, <1>2, ConcatProperties
<1>4. /\ Occurrences(o, s) = Occurrences(o, a) + Occurrences(o, one \o b)
      /\ Occurrences(o, one \o b) = m + Occurrences(o, b)
      /\ Occurrences(o, a \o b) = Occurrences(o, a) + Occurrences(o, b)
  BY <1>1, <1>2, <1>3, OccurrencesOfTwo, ZenonT(40)
<1>5. Occurrences(o, a) \in Nat /\ Occurrences(o, b) \in Nat
  BY <1>1, OccurrencesInSeq
<1>6. Occurrences(o, s) = Occurrences(o, a \o b) + m
  BY <1>4, <1>5
<1> QED
  BY <1>3, <1>6 DEF a, b, e, Without

\* Putting an element in between adds one of it (vector_insert).
LEMMA OccurrencesWith ==
    ASSUME NEW S, NEW s \in Seq(S), NEW i \in 0..Len(s), NEW e \in S, NEW o
    PROVE  /\ With(s, i, e) \in Seq(S) /\ Len(With(s, i, e)) = Len(s) + 1
           /\ Occurrences(o, With(s, i, e)) = Occurrences(o, s) + (IF e = o THEN 1 ELSE 0)
<1> DEFINE a == SubSeq(s, 1, i)
           b == SubSeq(s, i + 1, Len(s))
           one == <<e>>
           m == IF e = o THEN 1 ELSE 0
<1>1. Len(s) \in Nat /\ \A j \in 1..Len(s) : s[j] \in S
  BY LenProperties, ElementOfSeq
<1>2. a \in Seq(S) /\ b \in Seq(S) /\ Len(a) = i /\ Len(b) = Len(s) - i
  BY <1>1, SubSeqProperties
<1>3. a \o b = s
  <2>1. 1 \in 1..(Len(s) + 1) /\ i \in (1 - 1)..Len(s) /\ Len(s) \in i..Len(s)
    BY <1>1
  <2> QED
    BY <2>1, ConcatAdjacentSubSeq, SubSeqFull
<1>4. one \in Seq(S) /\ Len(one) = 1 /\ Occurrences(o, one) = m
  BY OccurrencesOfOne
<1> HIDE DEF a, b, one
<1> DEFINE c == a \o one
<1>5. c \in Seq(S) /\ Len(c) = i + 1
  <2>1. c \in Seq(S) /\ Len(c) = Len(a) + Len(one)
    BY <1>2, <1>4, ConcatProperties
  <2> QED
    BY <1>2, <1>4, <2>1
<1> HIDE DEF c
<1>6. c \o b \in Seq(S) /\ Len(c \o b) = (i + 1) + (Len(s) - i)
  <2>1. c \o b \in Seq(S) /\ Len(c \o b) = Len(c) + Len(b)
    BY <1>2, <1>5, ConcatProperties
  <2> QED
    BY <1>2, <1>5, <2>1
<1>7. /\ Occurrences(o, c \o b) = Occurrences(o, c) + Occurrences(o, b)
      /\ Occurrences(o, s) = Occurrences(o, a) + Occurrences(o, b)
  BY <1>2, <1>3, <1>5, OccurrencesOfTwo
<1>8. Occurrences(o, c) = Occurrences(o, a) + m
  BY <1>2, <1>4, OccurrencesOfTwo DEF c
<1>9. Occurrences(o, a) \in Nat /\ Occurrences(o, b) \in Nat
  BY <1>2, OccurrencesInSeq
<1>10. /\ Len(c \o b) = Len(s) + 1
       /\ Occurrences(o, c \o b) = Occurrences(o, s) + m
  BY <1>1, <1>6, <1>7, <1>8, <1>9
<1> QED
  BY <1>6, <1>10 DEF a, b, c, one, With

\* So does putting it at either end (vector_add, the adds of the lists).
LEMMA OccurrencesAppended ==
    ASSUME NEW S, NEW s \in Seq(S), NEW e \in S, NEW o
    PROVE  /\ Occurrences(o, Append(s, e)) = Occurrences(o, s) + (IF e = o THEN 1 ELSE 0)
           /\ Occurrences(o, <<e>> \o s) = Occurrences(o, s) + (IF e = o THEN 1 ELSE 0)
<1> DEFINE one == <<e>>
           m == IF e = o THEN 1 ELSE 0
<1>1. Append(s, e) = s \o one
  BY AppendIsConcat
<1>2. one \in Seq(S) /\ Occurrences(o, one) = m
  BY OccurrencesOfOne
<1> HIDE DEF one
<1>3. Occurrences(o, s \o one) = Occurrences(o, s) + m /\ Occurrences(o, one \o s) = m + Occurrences(o, s)
  BY <1>2, OccurrencesOfTwo
<1>4. Occurrences(o, s) \in Nat
  BY OccurrencesInSeq
<1>5. Occurrences(o, one \o s) = Occurrences(o, s) + m
  BY <1>3, <1>4
<1> QED
  BY <1>1, <1>3, <1>5 DEF one

\* Writing to a place replaces what was there (a removal that keeps its gap).
LEMMA OccurrencesPut ==
    ASSUME NEW S, NEW s \in Seq(S), NEW i \in 1..Len(s), NEW e, NEW o
    PROVE  Occurrences(o, Put(s, i, e)) + (IF s[i] = o THEN 1 ELSE 0)
               = Occurrences(o, s) + (IF e = o THEN 1 ELSE 0)
<1> DEFINE t == Put(s, i, e)
           A == {j \in DOMAIN s : s[j] = o}
           B == {j \in DOMAIN t : t[j] = o}
<1>1. DOMAIN s = 1..Len(s) /\ IsFiniteSet(A)
  BY OccurrencesInSeq
<1>2. DOMAIN t = DOMAIN s /\ t[i] = e /\ \A j \in DOMAIN s : j # i => t[j] = s[j]
  BY <1>1 DEF Put
<1> HIDE DEF t
<1>3. B = IF e = o THEN A \cup {i} ELSE A \ {i}
  BY <1>1, <1>2
<1>4. i \in A <=> s[i] = o
  BY <1>1
<1>5. Cardinality(A) \in Nat
  BY <1>1, FS_CardinalityType
<1> HIDE DEF A, B
<1>6. /\ Cardinality(A \cup {i}) = IF i \in A THEN Cardinality(A) ELSE Cardinality(A) + 1
      /\ Cardinality(A \ {i}) = IF i \in A THEN Cardinality(A) - 1 ELSE Cardinality(A)
  BY <1>1, FS_AddElement, FS_RemoveElement
<1>7. Cardinality(B) + (IF s[i] = o THEN 1 ELSE 0) = Cardinality(A) + (IF e = o THEN 1 ELSE 0)
  BY <1>3, <1>4, <1>5, <1>6
<1> QED
  BY <1>7 DEF Occurrences, A, B, t

\* A function that is defined by recursion from 0 to a number.
Follows(f, first, G, N) == f = [n \in 0..N |-> IF n = 0 THEN first ELSE G[n][f[n - 1]]]

\* A recursion from 0 to N has a function that follows it: the loops of
\* vector_extend, of the set operations and of growth are such recursions.
LEMMA IterationExists ==
    ASSUME NEW T, NEW first \in T, NEW N \in Nat, NEW G \in [1..N -> [T -> T]]
    PROVE  \E f \in [0..N -> T] : Follows(f, first, G, N)
<1> DEFINE S == {n \in 0..N : \E f \in [0..n -> T] : Follows(f, first, G, n)}
<1>1. 0 \in S
  <2> DEFINE f == [i \in 0..0 |-> first]
             h == [i \in 0..0 |-> IF i = 0 THEN first ELSE G[i][f[i - 1]]]
  <2>1. f \in [0..0 -> T] /\ f = h /\ 0 \in 0..N
    OBVIOUS
  <2> HIDE DEF f
  <2>2. Follows(f, first, G, 0)
    BY <2>1 DEF Follows
  <2> QED
    BY <2>1, <2>2
<1>2. ASSUME NEW n \in 1..N, n - 1 \in S PROVE n \in S
  <2>1. PICK m \in Nat : m = n - 1 /\ n = m + 1
    OBVIOUS
  <2>2. PICK f \in [0..m -> T] : Follows(f, first, G, m)
    BY <1>2, <2>1
  <2> DEFINE last == G[n][f[m]]
             g == [i \in 0..n |-> IF i = n THEN last ELSE f[i]]
             h == [i \in 0..n |-> IF i = 0 THEN first ELSE G[i][g[i - 1]]]
  <2>3. last \in T
    BY <2>1
  <2> HIDE DEF last
  <2>4. f[0] = first /\ \A i \in 1..m : f[i] = G[i][f[i - 1]]
    <3>1. \A i \in 0..m : f[i] = IF i = 0 THEN first ELSE G[i][f[i - 1]]
      BY <2>2 DEF Follows
    <3>2. 0 \in 0..m /\ \A i \in 1..m : i \in 0..m /\ i # 0
      OBVIOUS
    <3> QED
      BY <3>1, <3>2
  <2>5. g[n] = last /\ \A i \in 0..m : g[i] = f[i]
    BY <2>1
  <2>6. g \in [0..n -> T]
    BY <2>1, <2>3
  <2>7. ASSUME NEW i \in 0..n PROVE g[i] = h[i]
    <3>1. h[i] = IF i = 0 THEN first ELSE G[i][g[i - 1]]
      OBVIOUS
    <3> HIDE DEF g, h
    <3>2. CASE i = n
      <4>1. i # 0 /\ i - 1 = m /\ m \in 0..m
        BY <2>1, <3>2
      <4>2. h[i] = G[n][f[m]]
        BY <2>5, <3>1, <3>2, <4>1
      <4> QED
        BY <2>5, <3>2, <4>2 DEF last
    <3>3. CASE i \in 1..m
      <4>1. i # 0 /\ i - 1 \in 0..m /\ i \in 0..m
        BY <3>3
      <4> QED
        BY <2>4, <2>5, <3>1, <3>3, <4>1
    <3>4. CASE i = 0
      BY <2>4, <2>5, <3>1, <3>4, 0 \in 0..m
    <3>5. i = n \/ i \in 1..m \/ i = 0
      BY <2>1
    <3> QED
      BY <3>2, <3>3, <3>4, <3>5
  <2>8. g = h
    BY <2>7
  <2> HIDE DEF g
  <2>9. Follows(g, first, G, n)
    BY <2>8 DEF Follows
  <2> QED
    BY <2>6, <2>9
<1> HIDE DEF S
<1>3. 0..N \subseteq S
  BY <1>1, <1>2, InductionUpTo
<1>4. N \in S
  BY <1>3
<1> QED
  BY <1>4 DEF S

\* The operators of the instances are those of Containers.
LEMMA SameOperators ==
    /\ \A S : List!Cardinality(S) = Cardinality(S) /\ M!Cardinality(S) = Cardinality(S)
    /\ \A c, o : List!Increased(c, o) = Increased(c, o) /\ M!Increased(c, o) = Increased(c, o)
    /\ \A c, o : List!Decreased(c, o) = Decreased(c, o)
    /\ \A c, f : List!AllDecreased(c, f) = AllDecreased(c, f) /\ M!AllDecreased(c, f) = AllDecreased(c, f)
<1>1. \A S : List!Cardinality(S) = Cardinality(S) /\ M!Cardinality(S) = Cardinality(S)
  BY DEF List!Cardinality, M!Cardinality, Cardinality, List!IsFiniteSet, M!IsFiniteSet, IsFiniteSet
<1>2. \A c, o : List!Increased(c, o) = Increased(c, o) /\ M!Increased(c, o) = Increased(c, o)
  BY DEF List!Increased, M!Increased, Increased
<1>3. \A c, o : List!Decreased(c, o) = Decreased(c, o)
  BY DEF List!Decreased, Decreased
<1>4. \A o, f : List!Occurrences(o, f) = Occurrences(o, f) /\ M!Occurrences(o, f) = Occurrences(o, f)
  BY <1>1 DEF List!Occurrences, M!Occurrences, Occurrences
<1>5. \A c, f : List!AllDecreased(c, f) = AllDecreased(c, f) /\ M!AllDecreased(c, f) = AllDecreased(c, f)
  BY <1>4 DEF List!AllDecreased, M!AllDecreased, AllDecreased
<1> QED
  BY <1>1, <1>2, <1>3, <1>5

----------------------------------------------------------------------------
(* The linked vector *)

\* The nodes of the list are s: head and next lead through them in order,
\* and tail to the last.
Along(s) ==
    /\ \A i, j \in 1..Len(s) : s[i] = s[j] => i = j
    /\ head = IF Len(s) = 0 THEN Null ELSE s[1]
    /\ \A i \in 1..Len(s) : next[s[i]] = IF i = Len(s) THEN Null ELSE s[i + 1]
    /\ Len(s) # 0 => tail = s[Len(s)]
    /\ \A i \in 1..Len(s) : data[s[i]] \in Objects

ListTypes ==
    /\ tail \in Nodes \cup {Null} /\ unique \in BOOLEAN
    /\ next \in [Nodes -> Nodes \cup {Null}] /\ data \in [Nodes -> Objects \cup {Null}]

DataOf(s) == [i \in 1..Len(s) |-> data[s[i]]]

\* A list of different nodes is no longer than there are nodes: Items, which
\* looks at as many, sees all of it.
LEMMA ChainFits ==
    ASSUME NEW s \in Seq(Nodes), \A i, j \in 1..Len(s) : s[i] = s[j] => i = j
    PROVE  /\ Len(s) \in Nat /\ Cardinality(Nodes) \in Nat /\ Len(s) <= Cardinality(Nodes)
           /\ Cardinality({s[i] : i \in 1..Len(s)}) = Len(s)
<1> DEFINE R == {s[i] : i \in 1..Len(s)}
<1>1. Len(s) \in Nat /\ s \in [1..Len(s) -> Nodes] /\ R \subseteq Nodes
  BY LenProperties, ElementOfSeq
<1>2. IsFiniteSet(1..Len(s)) /\ Cardinality(1..Len(s)) = Len(s)
  <2> DEFINE n == Len(s)
  <2>1. n \in Nat
    BY <1>1
  <2> HIDE DEF n
  <2>2. IsFiniteSet(1..n) /\ Cardinality(1..n) = IF 1 > n THEN 0 ELSE n - 1 + 1
    BY <2>1, FS_Interval
  <2> QED
    BY <2>1, <2>2 DEF n
<1>3. IsFiniteSet(R) /\ Cardinality(R) = Len(s)
  <2>1. s \in [1..Len(s) -> R]
    BY <1>1
  <2>2. \A t \in R : \E i \in 1..Len(s) : s[i] = t
    OBVIOUS
  <2> HIDE DEF R
  <2> QED
    BY <1>2, <2>1, <2>2, OneToOne, ZenonT(60)
<1> HIDE DEF R
<1>4. IsFiniteSet(Nodes)
  BY MemoryAssumption
<1>5. Cardinality(R) <= Cardinality(Nodes) /\ Cardinality(Nodes) \in Nat
  BY <1>1, <1>4, FS_Subset, FS_CardinalityType
<1> QED
  BY <1>1, <1>3, <1>5 DEF R

\* What the model reads along next is that.
LEMMA ItemsAlong ==
    \A s \in Seq(Nodes) : Along(s) =>
        List!InList = {s[i] : i \in 1..Len(s)} /\ List!Items = DataOf(s)
<1> SUFFICES ASSUME NEW s \in Seq(Nodes), Along(s)
             PROVE  List!InList = {s[i] : i \in 1..Len(s)} /\ List!Items = DataOf(s)
  OBVIOUS
<1> DEFINE N == Cardinality(Nodes)
           n == Len(s)
           Step(f) == [i \in 1..(N + 1) |->
                         IF i = 1 THEN head ELSE IF f[i - 1] = Null THEN Null ELSE next[f[i - 1]]]
           g == [i \in 1..(N + 1) |-> IF i <= n THEN s[i] ELSE Null]
           R == {s[i] : i \in 1..n}
<1>1. /\ n \in Nat /\ N \in Nat /\ n <= N /\ Cardinality(R) = n
      /\ \A i \in 1..n : s[i] \in Nodes /\ s[i] # Null
  <2>1. n \in Nat /\ N \in Nat /\ n <= N /\ Cardinality(R) = n
    BY ChainFits DEF Along
  <2>2. \A i \in 1..n : s[i] \in Nodes
    BY ElementOfSeq
  <2> QED
    BY <2>1, <2>2, MemoryAssumption
<1>2. /\ head = IF n = 0 THEN Null ELSE s[1]
      /\ \A i \in 1..n : next[s[i]] = IF i = n THEN Null ELSE s[i + 1]
  BY DEF Along
<1>3. List!At = CHOOSE f : f = Step(f)
  BY SameOperators, Zenon DEF List!At
<1> HIDE DEF n, N
<1>4. ASSUME NEW i \in 1..(N + 1) PROVE g[i] = Step(g)[i]
  <2>1. CASE i = 1
    BY <1>1, <1>2, <2>1
  <2>2. CASE i # 1
    <3>1. i - 1 \in 1..(N + 1) /\ i - 1 \in Nat /\ i \in Nat
      BY <1>1, <2>2
    <3>2. CASE i - 1 > n
      BY <1>1, <2>2, <3>1, <3>2
    <3>3. CASE i - 1 = n
      <4>1. n \in 1..n /\ g[i - 1] = s[n] /\ g[i] = Null
        BY <1>1, <2>2, <3>1, <3>3
      <4> QED
        BY <1>1, <1>2, <2>2, <4>1
    <3>4. CASE i - 1 < n
      <4>1. i - 1 \in 1..n /\ g[i - 1] = s[i - 1] /\ g[i] = s[i] /\ (i - 1) + 1 = i
        BY <1>1, <2>2, <3>1, <3>4
      <4> HIDE DEF g
      <4>2. next[s[i - 1]] = s[i] /\ s[i - 1] # Null
        BY <1>1, <1>2, <3>1, <3>4, <4>1
      <4> QED
        BY <2>2, <4>1, <4>2
    <3> QED
      BY <1>1, <3>1, <3>2, <3>3, <3>4
  <2> QED
    BY <2>1, <2>2
<1>5. g = Step(g)
  BY <1>4
<1> HIDE DEF g
<1>6. List!At = Step(List!At)
  BY <1>3, <1>5
<1>7. \A i \in 1..(N + 1) :
        List!At[i] = IF i = 1 THEN head ELSE IF List!At[i - 1] = Null THEN Null ELSE next[List!At[i - 1]]
  BY <1>6
<1>8. \A i \in 1..(N + 1) :
        g[i] = IF i = 1 THEN head ELSE IF g[i - 1] = Null THEN Null ELSE next[g[i - 1]]
  BY <1>5
<1> DEFINE S == {i \in 0..(N + 1) : i # 0 => List!At[i] = g[i]}
<1>9. \A i \in 1..(N + 1) : i - 1 \in S => i \in S
  <2> SUFFICES ASSUME NEW i \in 1..(N + 1), i - 1 \in S PROVE List!At[i] = g[i]
    BY <1>1
  <2>1. i = 1 \/ (i # 1 /\ i - 1 # 0)
    BY <1>1
  <2> QED
    BY <1>7, <1>8, <2>1
<1>10. 0 \in S /\ N + 1 \in Nat
  BY <1>1
<1> HIDE DEF S
<1>11. 0..(N + 1) \subseteq S
  BY <1>9, <1>10, InductionUpTo
<1>12. \A i \in 1..(N + 1) : List!At[i] = IF i <= n THEN s[i] ELSE Null
  <2> SUFFICES ASSUME NEW i \in 1..(N + 1)
               PROVE  List!At[i] = IF i <= n THEN s[i] ELSE Null
    OBVIOUS
  <2>1. i \in S /\ i # 0
    BY <1>1, <1>11
  <2> QED
    BY <2>1 DEF S, g
<1>13. List!InList = R
  <2>1. List!InList = {List!At[i] : i \in 1..N} \ {Null}
    BY SameOperators DEF List!InList, N
  <2>2. \A i \in 1..n : i \in 1..N /\ List!At[i] = s[i]
    BY <1>1, <1>12
  <2>3. R \subseteq List!InList
    BY <1>1, <2>1, <2>2
  <2>4. ASSUME NEW i \in 1..N, List!At[i] # Null PROVE List!At[i] \in R
    <3>1. i \in 1..(N + 1) /\ i \in Nat /\ i >= 1
      BY <1>1
    <3>2. i <= n
      BY <1>1, <1>12, <2>4, <3>1
    <3>3. i \in 1..n
      BY <1>1, <3>1, <3>2
    <3> QED
      BY <2>2, <3>3
  <2> QED
    BY <2>1, <2>3, <2>4
<1>14. List!Items = [i \in 1..n |-> data[List!At[i]]]
  <2>1. List!Items = [i \in 1..List!Cardinality(List!InList) |-> data[List!At[i]]]
    BY DEF List!Items
  <2>2. List!Cardinality(List!InList) = n
    BY <1>1, <1>13, SameOperators
  <2> QED
    BY <2>1, <2>2
<1>15. \A i \in 1..n : List!At[i] = s[i]
  BY <1>1, <1>12
<1> QED
  BY <1>13, <1>14, <1>15 DEF n, DataOf

ListInv == ListTypes /\ (\E s \in Seq(Nodes) : Along(s)) /\ List!NoneTwice

\* The same after a step.
LEMMA ItemsAlongNext ==
    (\A s \in Seq(Nodes) : Along(s) =>
        List!InList = {s[i] : i \in 1..Len(s)} /\ List!Items = DataOf(s))'
BY ItemsAlong, PTL

\* What is in a list are objects; head leads to the first.
LEMMA ItemsAreObjects ==
    ListInv => /\ List!Items \in Seq(Objects)
               /\ head # Null <=> List!Items # <<>>
               /\ head # Null => data[head] = List!Items[1] /\ data[head] \in Objects
<1> SUFFICES ASSUME ListInv
             PROVE  /\ List!Items \in Seq(Objects)
                    /\ head # Null <=> List!Items # <<>>
                    /\ head # Null => data[head] = List!Items[1] /\ data[head] \in Objects
  OBVIOUS
<1>1. PICK s \in Seq(Nodes) : Along(s) /\ List!Items = DataOf(s)
  BY ItemsAlong DEF ListInv
<1>2. Len(s) \in Nat /\ \A i \in 1..Len(s) : s[i] \in Nodes /\ s[i] # Null
  BY LenProperties, ElementOfSeq, MemoryAssumption
<1>3. \A i \in 1..Len(s) : data[s[i]] \in Objects
  BY <1>1 DEF Along
<1>4. head = IF Len(s) = 0 THEN Null ELSE s[1]
  BY <1>1 DEF Along
<1>5. DataOf(s) \in Seq(Objects) /\ Len(DataOf(s)) = Len(s)
  BY <1>2, <1>3 DEF DataOf
<1>6. Len(s) # 0 => head # Null /\ DataOf(s)[1] = data[head] /\ data[head] \in Objects
  BY <1>2, <1>3, <1>4 DEF DataOf
<1>7. DataOf(s) # <<>> <=> Len(s) # 0
  BY <1>2, <1>5, EmptySeq
<1> QED
  BY <1>1, <1>4, <1>5, <1>6, <1>7

\* linked_vector_append
LEMMA AppendKeeps ==
    ASSUME ListInv, NEW n \in Nodes, NEW o \in Objects, List!AppendNode(n, o)
    PROVE  ListInv' /\ List!Items' = Append(List!Items, o)
<1>1. PICK s \in Seq(Nodes) :
        Along(s) /\ List!InList = {s[i] : i \in 1..Len(s)} /\ List!Items = DataOf(s)
  BY ItemsAlong DEF ListInv
<1>2. PICK k \in Nat : k = Len(s)
  BY LenProperties
<1>3. \A i \in 1..k : s[i] \in Nodes /\ s[i] # Null /\ s[i] # n
  BY <1>1, <1>2, ElementOfSeq, MemoryAssumption DEF List!AppendNode, List!NewNode
<1>4. /\ \A i, j \in 1..k : s[i] = s[j] => i = j
      /\ head = IF k = 0 THEN Null ELSE s[1]
      /\ \A i \in 1..k : next[s[i]] = IF i = k THEN Null ELSE s[i + 1]
      /\ k # 0 => tail = s[k]
      /\ \A i \in 1..k : data[s[i]] \in Objects
  BY <1>1, <1>2 DEF Along
<1> DEFINE t == Append(s, n)
<1>5. /\ t \in Seq(Nodes) /\ Len(t) = k + 1 /\ t[k + 1] = n
      /\ \A i \in 1..k : t[i] = s[i]
  BY <1>2, AppendProperties
<1> HIDE DEF t
<1>6. /\ next \in [Nodes -> Nodes \cup {Null}] /\ data \in [Nodes -> Objects \cup {Null}]
      /\ unique \in BOOLEAN
  BY DEF ListInv, ListTypes
<1>7. /\ data' = [data EXCEPT ![n] = o] /\ tail' = n /\ unique' = unique
      /\ unique => ~List!Inside(o)
  BY DEF List!AppendNode, List!NewNode
<1>8. /\ head' = IF k = 0 THEN n ELSE head
      /\ next' \in [Nodes -> Nodes \cup {Null}]
      /\ next'[n] = Null
      /\ \A m \in Nodes : m # n => next'[m] = IF k # 0 /\ m = tail THEN n ELSE next[m]
  <2>1. CASE k = 0
    <3>1. head = Null
      BY <1>4, <2>1
    <3>2. head' = n /\ next' = [next EXCEPT ![n] = Null]
      BY <3>1 DEF List!AppendNode
    <3> QED
      BY <1>6, <2>1, <3>2
  <2>2. CASE k # 0
    <3>1. 1 \in 1..k /\ k \in 1..k
      BY <2>2
    <3>2. head # Null /\ tail # Null /\ tail # n /\ tail \in Nodes
      BY <1>3, <1>4, <2>2, <3>1
    <3>3. head' = head /\ next' = [next EXCEPT ![n] = Null, ![tail] = n]
      BY <3>2 DEF List!AppendNode
    <3> QED
      BY <1>6, <2>2, <3>2, <3>3
  <2> QED
    BY <2>1, <2>2
<1>9. \A i \in 1..(k + 1) : i = k + 1 \/ i \in 1..k
  OBVIOUS
<1>10. Along(t)'
  <2>1. \A i, j \in 1..(k + 1) : t[i] = t[j] => i = j
    BY <1>3, <1>4, <1>5, <1>9
  <2>2. head' = t[1]
    BY <1>4, <1>5, <1>8
  <2>3. \A i \in 1..(k + 1) : next'[t[i]] = IF i = k + 1 THEN Null ELSE t[i + 1]
    <3>1. next'[t[k + 1]] = Null
      BY <1>5, <1>8
    <3>2. ASSUME NEW i \in 1..k PROVE next'[t[i]] = t[i + 1]
      <4>1. t[i] = s[i] /\ s[i] \in Nodes /\ s[i] # n /\ k # 0
        BY <1>3, <1>5
      <4>2. next'[s[i]] = IF s[i] = tail THEN n ELSE next[s[i]]
        BY <1>8, <4>1
      <4>3. s[i] = tail <=> i = k
        BY <1>4, <4>1
      <4>4. CASE i = k
        BY <1>5, <4>1, <4>2, <4>3, <4>4
      <4>5. CASE i # k
        <5>1. i + 1 \in 1..k
          BY <4>5
        <5> QED
          BY <1>4, <1>5, <4>1, <4>2, <4>3, <4>5, <5>1
      <4> QED
        BY <4>4, <4>5
    <3> QED
      BY <1>9, <3>1, <3>2
  <2>4. \A i \in 1..(k + 1) : data'[t[i]] \in Objects
    BY <1>3, <1>4, <1>5, <1>6, <1>7, <1>9
  <2> QED
    BY <1>5, <1>7, <2>1, <2>2, <2>3, <2>4 DEF Along
<1>11. List!Items' = Append(List!Items, o)
  <2>1. List!Items' = DataOf(t)'
    BY <1>5, <1>10, ItemsAlongNext
  <2>2. DataOf(t)' = [i \in 1..(k + 1) |-> data'[t[i]]] /\ DataOf(s) = [i \in 1..k |-> data[s[i]]]
    BY <1>2, <1>5 DEF DataOf
  <2>3. Append(DataOf(s), o) = [i \in 1..(k + 1) |-> IF i = k + 1 THEN o ELSE data[s[i]]]
    BY <2>2
  <2>4. \A i \in 1..(k + 1) : data'[t[i]] = IF i = k + 1 THEN o ELSE data[s[i]]
    BY <1>3, <1>5, <1>6, <1>7, <1>9
  <2> QED
    BY <1>1, <2>1, <2>2, <2>3, <2>4
<1>12. List!NoneTwice'
  <2> SUFFICES ASSUME unique PROVE \A i, j \in DOMAIN List!Items' :
                      Same(List!Items'[i], List!Items'[j]) => i = j
    BY <1>7 DEF List!NoneTwice
  <2> DEFINE u == List!Items
  <2>1. u \in Seq(Objects) /\ \A i, j \in DOMAIN u : Same(u[i], u[j]) => i = j
    BY ItemsAreObjects DEF ListInv, List!NoneTwice
  <2>2. \A i \in DOMAIN u : ~Same(u[i], o)
    BY <1>7 DEF List!Inside
  <2> HIDE DEF u
  <2>3. PICK m \in Nat : m = Len(u) /\ DOMAIN u = 1..m
    BY <2>1, LenProperties
  <2>4. /\ DOMAIN Append(u, o) = 1..(m + 1) /\ Append(u, o)[m + 1] = o
        /\ \A i \in 1..m : Append(u, o)[i] = u[i]
    BY <2>1, <2>3, AppendProperties
  <2>5. \A i, j \in 1..(m + 1) : Same(Append(u, o)[i], Append(u, o)[j]) => i = j
    <3>1. \A i \in 1..(m + 1) : i = m + 1 \/ i \in 1..m
      OBVIOUS
    <3> QED
      BY <2>1, <2>2, <2>3, <2>4, <3>1 DEF Same
  <2> QED
    BY <1>11, <2>4, <2>5 DEF u
<1>13. ListTypes'
  BY <1>6, <1>7, <1>8 DEF ListTypes
<1> QED
  BY <1>5, <1>10, <1>11, <1>12, <1>13 DEF ListInv

\* linked_vector_prepend
LEMMA PrependKeeps ==
    ASSUME ListInv, NEW n \in Nodes, NEW o \in Objects, List!Prepend(n, o)
    PROVE  ListInv' /\ List!Items' = <<o>> \o List!Items
<1>1. PICK s \in Seq(Nodes) :
        Along(s) /\ List!InList = {s[i] : i \in 1..Len(s)} /\ List!Items = DataOf(s)
  BY ItemsAlong DEF ListInv
<1>2. PICK k \in Nat : k = Len(s)
  BY LenProperties
<1>3. \A i \in 1..k : s[i] \in Nodes /\ s[i] # Null /\ s[i] # n
  BY <1>1, <1>2, ElementOfSeq, MemoryAssumption DEF List!Prepend, List!NewNode
<1>4. /\ \A i, j \in 1..k : s[i] = s[j] => i = j
      /\ head = IF k = 0 THEN Null ELSE s[1]
      /\ \A i \in 1..k : next[s[i]] = IF i = k THEN Null ELSE s[i + 1]
      /\ k # 0 => tail = s[k]
      /\ \A i \in 1..k : data[s[i]] \in Objects
  BY <1>1, <1>2 DEF Along
<1> DEFINE t == <<n>> \o s
<1>5. /\ t \in Seq(Nodes) /\ Len(t) = k + 1 /\ t[1] = n
      /\ \A i \in 1..k : t[i + 1] = s[i]
  BY <1>2
<1> HIDE DEF t
<1>6. /\ next \in [Nodes -> Nodes \cup {Null}] /\ data \in [Nodes -> Objects \cup {Null}]
      /\ unique \in BOOLEAN /\ tail \in Nodes \cup {Null}
  BY DEF ListInv, ListTypes
<1>7. /\ data' = [data EXCEPT ![n] = o] /\ head' = n /\ unique' = unique /\ ~unique
  BY DEF List!Prepend, List!NewNode
<1>8. /\ tail' = IF k = 0 THEN n ELSE tail
      /\ next' = [next EXCEPT ![n] = head]
  <2>1. CASE k = 0
    <3>1. head = Null
      BY <1>4, <2>1
    <3> QED
      BY <2>1, <3>1 DEF List!Prepend
  <2>2. CASE k # 0
    <3>1. 1 \in 1..k /\ k \in 1..k
      BY <2>2
    <3>2. head # Null /\ tail # Null
      BY <1>3, <1>4, <2>2, <3>1
    <3> QED
      BY <2>2, <3>2 DEF List!Prepend
  <2> QED
    BY <2>1, <2>2
<1>9. /\ head \in Nodes \cup {Null}
      /\ next' \in [Nodes -> Nodes \cup {Null}] /\ next'[n] = head
      /\ \A m \in Nodes : m # n => next'[m] = next[m]
  <2>1. head \in Nodes \cup {Null}
    BY <1>3, <1>4
  <2> QED
    BY <1>6, <1>8, <2>1
<1>10. \A i \in 1..(k + 1) : i = 1 \/ (i - 1 \in 1..k /\ (i - 1) + 1 = i)
  OBVIOUS
<1>11. Along(t)'
  <2>1. \A i, j \in 1..(k + 1) : t[i] = t[j] => i = j
    <3>1. \A i \in 1..(k + 1) : i = 1 \/ t[i] = s[i - 1]
      BY <1>5, <1>10
    <3>2. \A i, j \in 1..(k + 1) : i - 1 = j - 1 => i = j
      OBVIOUS
    <3> QED
      BY <1>3, <1>4, <1>5, <1>10, <3>1, <3>2
  <2>2. head' = t[1]
    BY <1>5, <1>7
  <2>3. \A i \in 1..(k + 1) : next'[t[i]] = IF i = k + 1 THEN Null ELSE t[i + 1]
    <3>1. next'[t[1]] = IF k = 0 THEN Null ELSE t[2]
      <4>1. k # 0 => t[2] = s[1]
        <5>1. k # 0 => 1 \in 1..k
          OBVIOUS
        <5> QED
          BY <1>5, <5>1
      <4> QED
        BY <1>4, <1>5, <1>9, <4>1
    <3>2. ASSUME NEW i \in 1..k PROVE next'[t[i + 1]] = IF i = k THEN Null ELSE t[i + 2]
      <4>1. t[i + 1] = s[i] /\ s[i] \in Nodes /\ s[i] # n
        BY <1>3, <1>5
      <4>2. next'[s[i]] = next[s[i]]
        BY <1>9, <4>1
      <4>3. i # k => t[i + 2] = s[i + 1]
        <5>1. i # k => i + 1 \in 1..k /\ (i + 1) + 1 = i + 2
          OBVIOUS
        <5> QED
          BY <1>5, <5>1
      <4> QED
        BY <1>4, <4>1, <4>2, <4>3
    <3> SUFFICES ASSUME NEW i \in 1..(k + 1)
                 PROVE  next'[t[i]] = IF i = k + 1 THEN Null ELSE t[i + 1]
      OBVIOUS
    <3>3. CASE i = 1
      <4>1. i = k + 1 <=> k = 0
        BY <3>3
      <4>2. i + 1 = 2
        BY <3>3
      <4> QED
        BY <3>1, <3>3, <4>1, <4>2
    <3>4. CASE i # 1
      <4>1. PICK j \in 1..k : j = i - 1
        BY <3>4
      <4>2. i = j + 1 /\ i + 1 = j + 2 /\ (i = k + 1 <=> j = k)
        BY <4>1
      <4> QED
        BY <3>2, <4>2
    <3> QED
      BY <3>3, <3>4
  <2>4. tail' = t[k + 1]
    <3>1. k # 0 => k \in 1..k
      OBVIOUS
    <3> QED
      BY <1>4, <1>5, <1>8, <3>1
  <2>5. \A i \in 1..(k + 1) : data'[t[i]] \in Objects
    <3>1. data'[n] = o /\ \A i \in 1..k : data'[s[i]] = data[s[i]]
      BY <1>3, <1>6, <1>7
    <3>2. \A i \in 1..(k + 1) : i = 1 \/ (i - 1 \in 1..k /\ t[i] = s[i - 1])
      BY <1>5, <1>10
    <3>3. o \in Objects /\ \A i \in 1..k : data'[s[i]] \in Objects
      BY <1>4, <3>1
    <3> SUFFICES ASSUME NEW i \in 1..(k + 1) PROVE data'[t[i]] \in Objects
      OBVIOUS
    <3>4. CASE i = 1
      BY <1>5, <3>1, <3>4
    <3>5. CASE i # 1
      <4>1. PICK j \in 1..k : t[i] = s[j]
        BY <3>2, <3>5
      <4> QED
        BY <3>3, <4>1
    <3> QED
      BY <3>4, <3>5
  <2> QED
    BY <1>5, <2>1, <2>2, <2>3, <2>4, <2>5 DEF Along
<1>12. List!Items' = <<o>> \o List!Items
  <2>1. List!Items' = DataOf(t)'
    BY <1>5, <1>11, ItemsAlongNext
  <2>2. DataOf(t)' = [i \in 1..(k + 1) |-> data'[t[i]]] /\ DataOf(s) = [i \in 1..k |-> data[s[i]]]
    BY <1>2, <1>5 DEF DataOf
  <2>3. <<o>> \o DataOf(s) = [i \in 1..(k + 1) |-> IF i = 1 THEN o ELSE data[s[i - 1]]]
    BY <2>2
  <2>4. \A i \in 1..(k + 1) : data'[t[i]] = IF i = 1 THEN o ELSE data[s[i - 1]]
    <3>1. data'[n] = o /\ \A i \in 1..k : data'[s[i]] = data[s[i]]
      BY <1>3, <1>6, <1>7
    <3>2. \A i \in 1..(k + 1) : i = 1 \/ (i - 1 \in 1..k /\ t[i] = s[i - 1])
      BY <1>5, <1>10
    <3> QED
      BY <1>5, <3>1, <3>2
  <2> QED
    BY <1>1, <2>1, <2>2, <2>3, <2>4
<1>13. List!NoneTwice'
  BY <1>7 DEF List!NoneTwice
<1>14. ListTypes'
  <2>1. tail' \in Nodes \cup {Null}
    BY <1>6, <1>8
  <2> QED
    BY <1>6, <1>7, <1>9, <2>1 DEF ListTypes
<1> QED
  BY <1>5, <1>11, <1>12, <1>13, <1>14 DEF ListInv

\* queue_pop, stack_pop
LEMMA PopKeeps ==
    ASSUME ListInv, List!Pop
    PROVE  ListInv' /\ List!Items # <<>> /\ List!Items' = Tail(List!Items)
<1>1. PICK s \in Seq(Nodes) :
        Along(s) /\ List!InList = {s[i] : i \in 1..Len(s)} /\ List!Items = DataOf(s)
  BY ItemsAlong DEF ListInv
<1>2. PICK k \in Nat : k = Len(s)
  BY LenProperties
<1>3. /\ \A i, j \in 1..k : s[i] = s[j] => i = j
      /\ head = IF k = 0 THEN Null ELSE s[1]
      /\ \A i \in 1..k : next[s[i]] = IF i = k THEN Null ELSE s[i + 1]
      /\ k # 0 => tail = s[k]
      /\ \A i \in 1..k : data[s[i]] \in Objects
  BY <1>1, <1>2 DEF Along
<1>4. head # Null /\ head' = next[head] /\ UNCHANGED <<tail, next, data, unique>>
  BY DEF List!Pop
<1>5. k # 0 /\ s # <<>> /\ 1 \in 1..k
  BY <1>2, <1>3, <1>4
<1> DEFINE t == Tail(s)
<1>6. t \in Seq(Nodes) /\ Len(t) = k - 1 /\ \A i \in 1..(k - 1) : t[i] = s[i + 1]
  BY <1>2, <1>5, HeadTailProperties
<1> HIDE DEF t
<1>7. \A i \in 1..(k - 1) : i + 1 \in 1..k
  OBVIOUS
<1>8. Along(t)'
  <2>1. \A i, j \in 1..(k - 1) : t[i] = t[j] => i = j
    <3> SUFFICES ASSUME NEW i \in 1..(k - 1), NEW j \in 1..(k - 1), t[i] = t[j] PROVE i = j
      OBVIOUS
    <3>1. i + 1 \in 1..k /\ j + 1 \in 1..k /\ s[i + 1] = s[j + 1]
      BY <1>6, <1>7
    <3>2. i + 1 = j + 1
      BY <1>3, <3>1
    <3> QED
      BY <3>2
  <2>2. head' = IF k - 1 = 0 THEN Null ELSE t[1]
    <3>1. k - 1 # 0 => 1 \in 1..(k - 1) /\ 1 # k
      BY <1>5
    <3>2. k - 1 = 0 <=> 1 = k
      OBVIOUS
    <3> QED
      BY <1>3, <1>4, <1>5, <1>6, <3>1, <3>2
  <2>3. \A i \in 1..(k - 1) : next[t[i]] = IF i = k - 1 THEN Null ELSE t[i + 1]
    <3> SUFFICES ASSUME NEW i \in 1..(k - 1)
                 PROVE  next[t[i]] = IF i = k - 1 THEN Null ELSE t[i + 1]
      OBVIOUS
    <3>1. i # k - 1 => i + 1 \in 1..(k - 1)
      OBVIOUS
    <3>2. i = k - 1 <=> i + 1 = k
      OBVIOUS
    <3> QED
      BY <1>3, <1>6, <1>7, <3>1, <3>2
  <2>4. k - 1 # 0 => tail = t[k - 1]
    <3>1. k - 1 # 0 => k - 1 \in 1..(k - 1) /\ (k - 1) + 1 = k
      BY <1>5
    <3>2. k - 1 # 0 => t[k - 1] = s[k]
      <4>1. k - 1 # 0 => t[k - 1] = s[(k - 1) + 1]
        BY <1>6, <3>1
      <4> QED
        BY <3>1, <4>1
    <3> QED
      BY <1>3, <1>5, <3>2
  <2>5. \A i \in 1..(k - 1) : data[t[i]] \in Objects
    BY <1>3, <1>6, <1>7
  <2> QED
    BY <1>4, <1>6, <2>1, <2>2, <2>3, <2>4, <2>5 DEF Along
<1>9. List!Items' = Tail(List!Items) /\ List!Items # <<>>
  <2>1. List!Items' = DataOf(t)'
    BY <1>6, <1>8, ItemsAlongNext
  <2>2. DataOf(t)' = [i \in 1..(k - 1) |-> data[t[i]]] /\ DataOf(s) = [i \in 1..k |-> data[s[i]]]
    BY <1>2, <1>4, <1>6 DEF DataOf
  <2>3. DataOf(s) # <<>> /\ Tail(DataOf(s)) = [i \in 1..(k - 1) |-> data[s[i + 1]]]
    BY <1>5, <1>7, <2>2
  <2> QED
    BY <1>1, <1>6, <2>1, <2>2, <2>3
<1>10. List!NoneTwice'
  <2> SUFFICES ASSUME unique PROVE \A i, j \in DOMAIN List!Items' :
                      Same(List!Items'[i], List!Items'[j]) => i = j
    BY <1>4 DEF List!NoneTwice
  <2> DEFINE u == List!Items
  <2>1. u \in Seq(Objects) /\ u # <<>> /\ \A i, j \in DOMAIN u : Same(u[i], u[j]) => i = j
    BY <1>9, ItemsAreObjects DEF ListInv, List!NoneTwice
  <2> HIDE DEF u
  <2>2. PICK m \in Nat : m = Len(u) /\ DOMAIN u = 1..m
    BY <2>1, LenProperties
  <2>3. DOMAIN Tail(u) = 1..(m - 1) /\ \A i \in 1..(m - 1) : Tail(u)[i] = u[i + 1]
    BY <2>1, <2>2, HeadTailProperties
  <2>4. \A i \in 1..(m - 1) : i + 1 \in 1..m
    OBVIOUS
  <2>5. \A i, j \in 1..(m - 1) : Same(Tail(u)[i], Tail(u)[j]) => i + 1 = j + 1
    BY <2>1, <2>2, <2>3, <2>4
  <2>6. \A i, j \in 1..(m - 1) : i + 1 = j + 1 => i = j
    OBVIOUS
  <2> QED
    BY <1>9, <2>3, <2>5, <2>6 DEF u
<1>11. ListTypes'
  BY <1>4 DEF ListInv, ListTypes
<1> QED
  BY <1>6, <1>8, <1>9, <1>10, <1>11 DEF ListInv

\* A list without a node, new or after linked_vector_free.
LEMMA EmptyList ==
    ListTypes /\ head = Null => ListInv /\ List!Items = <<>>
<1> SUFFICES ASSUME ListTypes, head = Null PROVE ListInv /\ List!Items = <<>>
  OBVIOUS
<1> DEFINE s == <<>>
<1>1. s \in Seq(Nodes) /\ Len(s) = 0
  BY EmptySeq
<1>2. Along(s)
  BY <1>1 DEF Along
<1>3. List!Items = DataOf(s)
  BY <1>1, <1>2, ItemsAlong
<1>4. DataOf(s) = <<>>
  BY DEF DataOf
<1> HIDE DEF s
<1>5. List!NoneTwice
  BY <1>3, <1>4 DEF List!NoneTwice
<1> QED
  BY <1>1, <1>2, <1>3, <1>4, <1>5 DEF ListInv

\* The same after a step.
LEMMA EmptyListNext ==
    (ListTypes /\ head = Null => ListInv /\ List!Items = <<>>)'
BY EmptyList, PTL

\* A new list is empty.
LEMMA ListInit == List!Init => ListInv /\ List!Items = <<>>
<1> SUFFICES ASSUME List!Init PROVE ListTypes /\ head = Null
  BY EmptyList
<1> QED
  BY DEF List!Init, ListTypes

\* linked_vector_free and linked_vector_new leave an empty list.
LEMMA RenewKeeps ==
    ASSUME ListInv, List!Renew
    PROVE  ListInv' /\ List!Items' = <<>>
<1>1. ListTypes' /\ head' = Null
  BY DEF List!Renew, ListInv, ListTypes
<1> QED
  BY <1>1, EmptyListNext

\* What does not touch the list leaves its items.
LEMMA ListStutters ==
    ASSUME ListInv, UNCHANGED list
    PROVE  ListInv' /\ List!Items' = List!Items
<1>1. UNCHANGED <<head, tail, next, data, unique>>
  BY DEF list
<1>2. PICK s \in Seq(Nodes) : Along(s) /\ List!Items = DataOf(s)
  BY ItemsAlong DEF ListInv
<1>3. Along(s)'
  BY <1>1, <1>2 DEF Along
<1>4. List!Items' = DataOf(s)'
  BY <1>3, ItemsAlongNext
<1>5. DataOf(s)' = DataOf(s)
  BY <1>1 DEF DataOf
<1>6. List!Items' = List!Items
  BY <1>2, <1>4, <1>5
<1>7. List!NoneTwice'
  BY <1>1, <1>6 DEF ListInv, List!NoneTwice
<1>8. ListTypes'
  BY <1>1 DEF ListInv, ListTypes
<1> QED
  BY <1>3, <1>6, <1>7, <1>8 DEF ListInv

----------------------------------------------------------------------------
(* The map: what one bucket holds *)

Entry == [key : Keys, data : Objects]

\* A bucket with one item of a key.
Chain(c) ==
    c \in Seq(Entry) /\ \A i, j \in 1..Len(c) : c[i].key = c[j].key => i = j

\* The data that a bucket has for a key.
Lookup(c, k) ==
    LET places == {i \in DOMAIN c : c[i].key = k}
    IN  IF places = {} THEN Null ELSE c[M!First(places)].data

\* The parts of Chain, with the types of the items.
LEMMA ChainProperties ==
    ASSUME NEW c, Chain(c)
    PROVE  /\ Len(c) \in Nat /\ DOMAIN c = 1..Len(c)
           /\ \A i \in 1..Len(c) : /\ c[i] \in Entry /\ c[i].key \in Keys
                                   /\ c[i].data \in Objects /\ c[i].data # Null
           /\ \A i, j \in 1..Len(c) : c[i].key = c[j].key => i = j
<1>1. c \in Seq(Entry) /\ \A i, j \in 1..Len(c) : c[i].key = c[j].key => i = j
  BY DEF Chain
<1>2. Len(c) \in Nat /\ DOMAIN c = 1..Len(c) /\ \A i \in 1..Len(c) : c[i] \in Entry
  BY <1>1, LenProperties, ElementOfSeq
<1>3. \A e \in Entry : e.key \in Keys /\ e.data \in Objects /\ e.data # Null
  BY MemoryAssumption DEF Entry
<1> QED
  BY <1>1, <1>2, <1>3

\* Each item of a bucket is found under its key.
LEMMA LookupOne ==
    ASSUME NEW c, Chain(c), NEW i \in 1..Len(c)
    PROVE  Lookup(c, c[i].key) = c[i].data
<1> DEFINE k == c[i].key
           places == {j \in DOMAIN c : c[j].key = k}
<1>1. places = {i} /\ i \in Nat
  BY ChainProperties
<1>2. M!First({i}) = i
  BY <1>1 DEF M!First
<1>3. Lookup(c, k) = IF places = {} THEN Null ELSE c[M!First(places)].data
  BY DEF Lookup
<1> QED
  BY <1>1, <1>2, <1>3

\* A key that no item has leads to nothing.
LEMMA LookupNone ==
    ASSUME NEW c, Chain(c), NEW k, \A i \in 1..Len(c) : c[i].key # k
    PROVE  Lookup(c, k) = Null
<1>1. {j \in DOMAIN c : c[j].key = k} = {}
  BY ChainProperties
<1> QED
  BY <1>1 DEF Lookup

\* A key that leads to anything is that of an item.
LEMMA LookupSome ==
    ASSUME NEW c, Chain(c), NEW k, Lookup(c, k) # Null
    PROVE  \E i \in 1..Len(c) : c[i].key = k /\ c[i].data = Lookup(c, k)
<1>1. PICK i \in 1..Len(c) : c[i].key = k
  BY LookupNone
<1>2. Lookup(c, c[i].key) = c[i].data
  BY LookupOne
<1> QED
  BY <1>1, <1>2

\* What a bucket leads to is an object, and only a key leads to one.
LEMMA LookupTypes ==
    ASSUME NEW c, Chain(c), NEW k
    PROVE  /\ Lookup(c, k) \in Objects \cup {Null}
           /\ Lookup(c, k) # Null => k \in Keys
<1> SUFFICES ASSUME Lookup(c, k) # Null PROVE Lookup(c, k) \in Objects /\ k \in Keys
  OBVIOUS
<1>1. PICK i \in 1..Len(c) : c[i].key = k /\ c[i].data = Lookup(c, k)
  BY LookupSome
<1>2. c[i].key \in Keys /\ c[i].data \in Objects
  BY ChainProperties
<1> QED
  BY <1>1, <1>2

\* Two buckets with the same items of a key.
LEMMA SameLookup ==
    ASSUME NEW c, Chain(c), NEW d, Chain(d), NEW k,
           \A i \in 1..Len(c) : c[i].key = k => \E j \in 1..Len(d) : d[j] = c[i],
           \A j \in 1..Len(d) : d[j].key = k => \E i \in 1..Len(c) : d[j] = c[i]
    PROVE  Lookup(d, k) = Lookup(c, k)
<1>1. CASE \E i \in 1..Len(c) : c[i].key = k
  <2>1. PICK i \in 1..Len(c) : c[i].key = k
    BY <1>1
  <2>2. PICK j \in 1..Len(d) : d[j] = c[i]
    BY <2>1
  <2>3. Lookup(c, c[i].key) = c[i].data /\ Lookup(d, d[j].key) = d[j].data
    BY LookupOne
  <2> QED
    BY <2>1, <2>2, <2>3
<1>2. CASE \A i \in 1..Len(c) : c[i].key # k
  <2>1. \A j \in 1..Len(d) : d[j].key # k
    BY <1>2
  <2> QED
    BY <1>2, <2>1, LookupNone
<1> QED
  BY <1>1, <1>2

\* An empty bucket leads nowhere.
LEMMA EmptyChain == Chain(<<>>) /\ \A k : Lookup(<<>>, k) = Null
<1>1. <<>> \in Seq(Entry) /\ Len(<<>>) = 0
  BY EmptySeq
<1>2. Chain(<<>>)
  BY <1>1 DEF Chain
<1> QED
  BY <1>1, <1>2, LookupNone

\* An item in front of those that have other keys.
LEMMA ChainFront ==
    ASSUME NEW c, Chain(c), NEW e \in Entry, Lookup(c, e.key) = Null
    PROVE  /\ Chain(<<e>> \o c) /\ Lookup(<<e>> \o c, e.key) = e.data
           /\ \A k : k # e.key => Lookup(<<e>> \o c, k) = Lookup(c, k)
<1>1. PICK n \in Nat : n = Len(c) /\ c \in Seq(Entry)
  BY ChainProperties DEF Chain
<1> DEFINE d == <<e>> \o c
<1>2. /\ d \in Seq(Entry) /\ Len(d) = n + 1 /\ d[1] = e
      /\ \A i \in 1..n : d[i + 1] = c[i]
  BY <1>1
<1> HIDE DEF d
<1>3. \A i \in 1..n : c[i].key # e.key
  <2> SUFFICES ASSUME NEW i \in 1..n, c[i].key = e.key PROVE FALSE
    OBVIOUS
  <2>1. Lookup(c, c[i].key) = c[i].data /\ c[i].data # Null
    BY <1>1, LookupOne, ChainProperties
  <2> QED
    BY <2>1
<1>4. \A i \in 1..(n + 1) : i = 1 \/ (i - 1 \in 1..n /\ d[i] = c[i - 1])
  <2>1. \A i \in 1..(n + 1) : i = 1 \/ (i - 1 \in 1..n /\ (i - 1) + 1 = i)
    OBVIOUS
  <2> QED
    BY <1>2, <2>1
<1>5. Chain(d)
  <2> SUFFICES ASSUME NEW i \in 1..(n + 1), NEW j \in 1..(n + 1), d[i].key = d[j].key PROVE i = j
    BY <1>2 DEF Chain
  <2>1. CASE i = 1 \/ j = 1
    BY <1>2, <1>3, <1>4, <2>1
  <2>2. CASE i # 1 /\ j # 1
    <3>1. i - 1 = j - 1
      BY <1>1, <1>4, <2>2, ChainProperties
    <3> QED
      BY <3>1
  <2> QED
    BY <2>1, <2>2
<1>6. Lookup(d, e.key) = e.data
  <2>1. 1 \in 1..Len(d)
    BY <1>2
  <2> QED
    BY <1>2, <1>5, <2>1, LookupOne
<1>7. ASSUME NEW k, k # e.key PROVE Lookup(d, k) = Lookup(c, k)
  <2>1. \A i \in 1..Len(c) : c[i].key = k => \E j \in 1..Len(d) : d[j] = c[i]
    <3>1. \A i \in 1..n : i + 1 \in 1..(n + 1)
      OBVIOUS
    <3> QED
      BY <1>1, <1>2, <3>1
  <2>2. \A j \in 1..Len(d) : d[j].key = k => \E i \in 1..Len(c) : d[j] = c[i]
    BY <1>1, <1>2, <1>4, <1>7
  <2> QED
    BY <1>5, <2>1, <2>2, SameLookup
<1> QED
  BY <1>5, <1>6, <1>7 DEF d

\* The data of an item are replaced.
LEMMA ChainPut ==
    ASSUME NEW c, Chain(c), NEW i \in 1..Len(c), NEW o \in Objects
    PROVE  LET d == [c EXCEPT ![i].data = o] IN
           /\ Chain(d) /\ Lookup(d, c[i].key) = o
           /\ \A k : k # c[i].key => Lookup(d, k) = Lookup(c, k)
<1> DEFINE d == [c EXCEPT ![i].data = o]
<1>1. PICK n \in Nat : n = Len(c) /\ c \in Seq(Entry) /\ DOMAIN c = 1..n
  BY ChainProperties DEF Chain
<1>2. d = [c EXCEPT ![i] = [c[i] EXCEPT !.data = o]]
  OBVIOUS
<1>3. c[i] \in Entry
  BY ChainProperties
<1> DEFINE e == [c[i] EXCEPT !.data = o]
<1>4. e \in Entry /\ e.key = c[i].key /\ e.data = o
  BY <1>3 DEF Entry
<1> HIDE DEF e
<1>5. d = [c EXCEPT ![i] = e]
  BY <1>2 DEF e
<1> HIDE DEF d
<1>6. /\ d \in Seq(Entry) /\ Len(d) = n /\ d[i] = e
      /\ \A j \in 1..n : j # i => d[j] = c[j]
  BY <1>1, <1>4, <1>5, ExceptSeq
<1>7. \A j \in 1..n : d[j].key = c[j].key
  BY <1>4, <1>6
<1>8. Chain(d)
  BY <1>1, <1>6, <1>7, ChainProperties DEF Chain
<1>9. Lookup(d, c[i].key) = o
  <2>1. i \in 1..Len(d) /\ d[i].key = c[i].key /\ d[i].data = o
    BY <1>1, <1>4, <1>6
  <2> QED
    BY <1>8, <2>1, LookupOne
<1>10. ASSUME NEW k, k # c[i].key PROVE Lookup(d, k) = Lookup(c, k)
  <2>1. \A j \in 1..Len(c) : c[j].key = k => \E h \in 1..Len(d) : d[h] = c[j]
    BY <1>1, <1>6, <1>10
  <2>2. \A j \in 1..Len(d) : d[j].key = k => \E h \in 1..Len(c) : d[j] = c[h]
    BY <1>1, <1>4, <1>6, <1>10
  <2> QED
    BY <1>8, <2>1, <2>2, SameLookup
<1> QED
  BY <1>8, <1>9, <1>10 DEF d

\* An item is taken out.
LEMMA ChainWithout ==
    ASSUME NEW c, Chain(c), NEW i \in 1..Len(c)
    PROVE  /\ Chain(Without(c, i)) /\ Lookup(Without(c, i), c[i].key) = Null
           /\ \A k : k # c[i].key => Lookup(Without(c, i), k) = Lookup(c, k)
<1> DEFINE d == Without(c, i)
<1>1. PICK n \in Nat : n = Len(c) /\ c \in Seq(Entry) /\ DOMAIN c = 1..n
  BY ChainProperties DEF Chain
<1>2. /\ d \in Seq(Entry) /\ Len(d) = n - 1
      /\ \A j \in 1..(n - 1) : d[j] = IF j < i THEN c[j] ELSE c[j + 1]
  <2> DEFINE a == SubSeq(c, 1, i - 1)
             b == SubSeq(c, i + 1, n)
  <2>1. \A j \in 1..n : c[j] \in Entry
    BY <1>1, ElementOfSeq
  <2>2. a \in Seq(Entry) /\ Len(a) = i - 1 /\ \A j \in 1..(i - 1) : a[j] = c[j]
    BY <1>1, <2>1, SubSeqProperties
  <2>3. b \in Seq(Entry) /\ Len(b) = n - i /\ \A j \in 1..(n - i) : b[j] = c[i + j]
    BY <1>1, <2>1, SubSeqProperties
  <2>4. d = a \o b
    BY <1>1 DEF Without
  <2> HIDE DEF a, b, d
  <2>5. /\ d \in Seq(Entry) /\ Len(d) = Len(a) + Len(b)
        /\ \A j \in 1..(Len(a) + Len(b)) : d[j] = IF j <= Len(a) THEN a[j] ELSE b[j - Len(a)]
    BY <2>2, <2>3, <2>4, ConcatProperties
  <2>6. Len(a) + Len(b) = n - 1
    BY <1>1, <2>2, <2>3
  <2>7. ASSUME NEW j \in 1..(n - 1) PROVE d[j] = IF j < i THEN c[j] ELSE c[j + 1]
    <3>1. CASE j < i
      BY <1>1, <2>2, <2>5, <2>6, <3>1, SMTT(30)
    <3>2. CASE ~(j < i)
      <4>1. j - (i - 1) \in 1..(n - i) /\ i + (j - (i - 1)) = j + 1 /\ ~(j <= i - 1)
        BY <1>1, <3>2
      <4>2. d[j] = b[j - (i - 1)]
        BY <2>2, <2>5, <2>6, <4>1
      <4> QED
        BY <2>3, <3>2, <4>1, <4>2
    <3> QED
      BY <3>1, <3>2
  <2> QED
    BY <2>5, <2>6, <2>7
<1> HIDE DEF d
<1> DEFINE at(j) == IF j < i THEN j ELSE j + 1
<1>3. \A j \in 1..(n - 1) : at(j) \in 1..n /\ at(j) # i /\ d[j] = c[at(j)]
  BY <1>1, <1>2
<1>4. \A j, h \in 1..(n - 1) : at(j) = at(h) => j = h
  OBVIOUS
<1>5. \A j \in 1..n : j # i => \E h \in 1..(n - 1) : at(h) = j
  <2> SUFFICES ASSUME NEW j \in 1..n, j # i PROVE \E h \in 1..(n - 1) : at(h) = j
    OBVIOUS
  <2>1. CASE j < i
    BY <1>1, <2>1
  <2>2. CASE j > i
    <3>1. j - 1 \in 1..(n - 1) /\ at(j - 1) = j
      BY <1>1, <2>2
    <3> QED
      BY <3>1
  <2> QED
    BY <1>1, <2>1, <2>2
<1> HIDE DEF at
<1>6. \A j, h \in 1..n : c[j].key = c[h].key => j = h
  BY <1>1, ChainProperties
<1>7. Chain(d)
  <2> SUFFICES ASSUME NEW j \in 1..(n - 1), NEW h \in 1..(n - 1), d[j].key = d[h].key PROVE j = h
    BY <1>2 DEF Chain
  <2>1. at(j) = at(h)
    BY <1>3, <1>6
  <2> QED
    BY <1>4, <2>1
<1>8. Lookup(d, c[i].key) = Null
  <2>1. \A j \in 1..Len(d) : d[j].key # c[i].key
    BY <1>1, <1>2, <1>3, <1>6
  <2> QED
    BY <1>7, <2>1, LookupNone
<1>9. ASSUME NEW k, k # c[i].key PROVE Lookup(d, k) = Lookup(c, k)
  <2>1. \A j \in 1..Len(c) : c[j].key = k => \E h \in 1..Len(d) : d[h] = c[j]
    BY <1>1, <1>2, <1>3, <1>5, <1>9
  <2>2. \A j \in 1..Len(d) : d[j].key = k => \E h \in 1..Len(c) : d[j] = c[h]
    BY <1>1, <1>2, <1>3
  <2> QED
    BY <1>7, <2>1, <2>2, SameLookup
<1> QED
  BY <1>7, <1>8, <1>9 DEF d

\* A bucket of the grown table has the items that hash to it.
LEMMA ChainRebucketed ==
    ASSUME NEW c, Chain(c), NEW size, NEW b
    PROVE  LET d == M!Rebucketed(c, size, b) IN
           /\ Chain(d)
           /\ \A k : Lookup(d, k) = IF M!Bucket(k, size) = b THEN Lookup(c, k) ELSE Null
<1> DEFINE N == Len(c)
           item(n) == c[N - n + 1]
           Step(f) == [n \in 0..N |->
                         IF n = 0 THEN <<>>
                         ELSE IF M!Bucket(item(n).key, size) = b THEN <<item(n)>> \o f[n - 1] ELSE f[n - 1]]
           v == CHOOSE f : f = Step(f)
           G == [n \in 1..N |-> [x \in Seq(Entry) |->
                   IF M!Bucket(item(n).key, size) = b THEN <<item(n)>> \o x ELSE x]]
<1>1. M!Rebucketed(c, size, b) = v[N]
  BY DEF M!Rebucketed
<1>2. N \in Nat /\ \A n \in 1..N : N - n + 1 \in 1..N /\ item(n) \in Entry
  BY ChainProperties
<1> HIDE DEF N
<1>3. G \in [1..N -> [Seq(Entry) -> Seq(Entry)]]
  <2> SUFFICES ASSUME NEW n \in 1..N, NEW x \in Seq(Entry) PROVE <<item(n)>> \o x \in Seq(Entry)
    OBVIOUS
  <2>1. item(n) \in Entry
    BY <1>2
  <2> HIDE DEF item
  <2> QED
    BY <2>1
<1>4. <<>> \in Seq(Entry)
  BY EmptySeq
<1>5. PICK f \in [0..N -> Seq(Entry)] : Follows(f, <<>>, G, N)
  <2> HIDE DEF G
  <2> QED
    BY <1>2, <1>3, <1>4, IterationExists
<1>6. f = Step(f)
  <2>1. f = [n \in 0..N |-> IF n = 0 THEN <<>> ELSE G[n][f[n - 1]]]
    BY <1>5 DEF Follows
  <2>2. ASSUME NEW n \in 0..N PROVE f[n] = Step(f)[n]
    <3>1. CASE n = 0
      BY <2>1, <3>1
    <3>2. CASE n # 0
      <4>1. n \in 1..N /\ n - 1 \in 0..N
        BY <1>2, <3>2
      <4>2. f[n - 1] \in Seq(Entry)
        BY <1>5, <4>1
      <4>3. f[n] = G[n][f[n - 1]]
        BY <2>1, <3>2
      <4>4. G[n][f[n - 1]] =
              IF M!Bucket(item(n).key, size) = b THEN <<item(n)>> \o f[n - 1] ELSE f[n - 1]
        BY <4>1, <4>2
      <4> QED
        BY <3>2, <4>3, <4>4
    <3> QED
      BY <3>1, <3>2
  <2> QED
    BY <2>1, <2>2
<1>7. v = Step(v)
  BY <1>6
<1> HIDE DEF v, G
<1>8. v[0] = <<>> /\ \A n \in 1..N :
        v[n] = IF M!Bucket(item(n).key, size) = b THEN <<item(n)>> \o v[n - 1] ELSE v[n - 1]
  <2>1. \A n \in 0..N : v[n] =
           IF n = 0 THEN <<>>
           ELSE IF M!Bucket(item(n).key, size) = b THEN <<item(n)>> \o v[n - 1] ELSE v[n - 1]
    BY <1>7
  <2>2. 0 \in 0..N /\ \A n \in 1..N : n \in 0..N /\ n # 0
    BY <1>2
  <2> QED
    BY <2>1, <2>2
<1> DEFINE Read(n, k) == \E i \in 1..n : item(i).key = k
           S == {n \in 0..N : /\ Chain(v[n])
                              /\ \A k : Lookup(v[n], k) =
                                   IF M!Bucket(k, size) = b /\ Read(n, k) THEN Lookup(c, k) ELSE Null}
<1>9. 0 \in S
  <2>1. \A k : ~Read(0, k)
    OBVIOUS
  <2> HIDE DEF Read
  <2> QED
    BY <1>2, <1>8, <2>1, EmptyChain
<1>10. ASSUME NEW n \in 1..N, n - 1 \in S PROVE n \in S
  <2> DEFINE e == item(n)
             w == v[n - 1]
  <2>1. /\ Chain(w)
        /\ \A k : Lookup(w, k) = IF M!Bucket(k, size) = b /\ Read(n - 1, k) THEN Lookup(c, k) ELSE Null
    BY <1>10
  <2>2. ~Read(n - 1, e.key)
    <3> SUFFICES ASSUME NEW i \in 1..(n - 1), item(i).key = item(n).key PROVE FALSE
      OBVIOUS
    <3>1. N - i + 1 \in 1..N /\ N - n + 1 \in 1..N /\ N - i + 1 # N - n + 1
      BY <1>2
    <3> QED
      BY <3>1, ChainProperties DEF N
  <2>3. \A k : Read(n, k) <=> Read(n - 1, k) \/ k = e.key
    <3>1. \A i : i \in 1..n <=> i \in 1..(n - 1) \/ i = n
      BY <1>2
    <3> HIDE DEF item
    <3> QED
      BY <3>1
  <2>4. Lookup(c, e.key) = e.data /\ e \in Entry
    <3>1. N - n + 1 \in 1..Len(c)
      BY <1>2 DEF N
    <3> QED
      BY <1>2, <3>1, LookupOne
  <2> HIDE DEF e, w, Read, item
  <2>5. v[n] = IF M!Bucket(e.key, size) = b THEN <<e>> \o w ELSE w
    BY <1>8 DEF e, w
  <2>6. CASE M!Bucket(e.key, size) = b
    <3>1. Lookup(w, e.key) = Null
      BY <2>1, <2>2
    <3>2. /\ Chain(<<e>> \o w) /\ Lookup(<<e>> \o w, e.key) = e.data
          /\ \A k : k # e.key => Lookup(<<e>> \o w, k) = Lookup(w, k)
      BY <2>1, <2>4, <3>1, ChainFront
    <3>3. v[n] = <<e>> \o w
      BY <2>5, <2>6
    <3>4. ASSUME NEW k
          PROVE  Lookup(v[n], k) = IF M!Bucket(k, size) = b /\ Read(n, k) THEN Lookup(c, k) ELSE Null
      <4>1. CASE k = e.key
        BY <2>3, <2>4, <2>6, <3>2, <3>3, <4>1
      <4>2. CASE k # e.key
        BY <2>1, <2>3, <3>2, <3>3, <4>2
      <4> QED
        BY <4>1, <4>2
    <3>5. Chain(v[n])
      BY <3>2, <3>3
    <3> QED
      BY <3>4, <3>5
  <2>7. CASE M!Bucket(e.key, size) # b
    <3>1. v[n] = w
      BY <2>5, <2>7
    <3>2. ASSUME NEW k
          PROVE  Lookup(v[n], k) = IF M!Bucket(k, size) = b /\ Read(n, k) THEN Lookup(c, k) ELSE Null
      BY <2>1, <2>3, <2>7, <3>1
    <3> QED
      BY <2>1, <3>1, <3>2
  <2> QED
    BY <2>6, <2>7
<1> HIDE DEF S
<1>11. 0..N \subseteq S
  BY <1>2, <1>9, <1>10, InductionUpTo
<1>12. N \in S
  BY <1>2, <1>11
<1>13. \A k : Lookup(c, k) # Null => Read(N, k)
  <2> SUFFICES ASSUME NEW k, Lookup(c, k) # Null PROVE Read(N, k)
    OBVIOUS
  <2>1. PICK i \in 1..N : c[i].key = k
    BY LookupSome DEF N
  <2>2. N - i + 1 \in 1..N /\ N - (N - i + 1) + 1 = i
    BY <1>2
  <2> QED
    BY <2>1, <2>2
<1> HIDE DEF Read
<1> QED
  BY <1>1, <1>12, <1>13 DEF S

----------------------------------------------------------------------------
(* Remainders *)

\* A remainder is less than what divides.
LEMMA Remainder ==
    ASSUME NEW s \in Nat \ {0}, NEW h \in Nat
    PROVE  h % s \in 0..(s-1)
OBVIOUS

\* A number is made of its quotient and its remainder.
LEMMA DivisionIs ==
    ASSUME NEW s \in Nat \ {0}, NEW h \in Nat
    PROVE  h = s * (h \div s) + (h % s) /\ h \div s \in Nat
OBVIOUS

\* A remainder is the only one.
LEMMA RemainderOf ==
    ASSUME NEW s \in Nat \ {0}, NEW q \in Nat, NEW r \in 0..(s-1)
    PROVE  (s * q + r) % s = r
OBVIOUS

\* Of the two buckets that one is split into, each comes from it.
LEMMA RemainderOfTwice ==
    ASSUME NEW s \in Nat \ {0}, NEW h \in Nat
    PROVE  (h % (2 * s)) % s = h % s
<1> DEFINE t == 2 * s
           r == h % t
           q == h \div t
           a == r % s
           b == r \div s
           c == 2 * q + b
<1>1. t \in Nat \ {0}
  OBVIOUS
<1> HIDE DEF t
<1>2. r \in 0..(t - 1) /\ r \in Nat /\ q \in Nat /\ h = t * q + r
  BY <1>1, Remainder, DivisionIs
<1> HIDE DEF r, q
<1>3. a \in 0..(s - 1) /\ b \in Nat /\ r = s * b + a
  BY <1>2, Remainder, DivisionIs
<1> HIDE DEF a, b
<1>4. t * q = s * (2 * q) /\ s * c = s * (2 * q) + s * b /\ c \in Nat
  BY <1>2, <1>3 DEF t
<1> HIDE DEF c
<1>5. s * c + a = h
  <2> DEFINE x == t * q
             y == s * (2 * q)
             z == s * b
             w == s * c
  <2>1. h = x + r /\ r = z + a /\ x = y /\ w = y + z
    BY <1>2, <1>3, <1>4
  <2>2. y \in Int /\ z \in Int /\ a \in Int
    BY <1>2, <1>3
  <2> HIDE DEF x, y, z, w
  <2>3. w + a = h
    BY <2>1, <2>2
  <2> QED
    BY <2>3 DEF w
<1>6. (s * c + a) % s = a
  BY <1>3, <1>4, RemainderOf
<1> QED
  BY <1>5, <1>6 DEF a, r, t

----------------------------------------------------------------------------
(* The map: all of its buckets *)

GetIn(m, k) == Lookup(m.table[M!Bucket(k, m.size)], k)

\* Every bucket has the items that hash to it, one of a key.
MapShape(m) ==
    /\ m = [size |-> m.size, n |-> m.n, table |-> m.table]
    /\ m.size \in Nat \ {0} /\ m.n \in Nat
    /\ m.table \in [0..(m.size - 1) -> Seq(Entry)]
    /\ \A b \in 0..(m.size - 1) :
         /\ Chain(m.table[b])
         /\ \A k \in Keys : Lookup(m.table[b], k) # Null => M!Bucket(k, m.size) = b

\* A bucket of the grown table has items of one bucket of the old one
\* (map_realloc).
LEMMA BucketIs ==
    ASSUME NEW size \in Nat \ {0}, NEW k \in Keys
    PROVE  /\ M!Bucket(k, size) \in 0..(size - 1)
           /\ M!Bucket(k, 2 * size) \in 0..(2 * size - 1)
           /\ M!Bucket(k, 2 * size) % size = M!Bucket(k, size)
<1> DEFINE h == Hash[k]
           w == 2 * size
<1>1. h \in Nat /\ w \in Nat \ {0}
  BY MapAssumption
<1>2. (h % w) % size = h % size
  BY <1>1, RemainderOfTwice
<1> HIDE DEF h, w
<1>3. h % size \in 0..(size - 1) /\ h % w \in 0..(w - 1)
  BY <1>1, Remainder
<1> QED
  BY <1>2, <1>3 DEF M!Bucket, h, w

\* map_get gives an object or NULL.
LEMMA GetTypes ==
    ASSUME NEW m, MapShape(m), NEW k \in Keys
    PROVE  Chain(m.table[M!Bucket(k, m.size)]) /\ GetIn(m, k) \in Objects \cup {Null}
<1>1. Chain(m.table[M!Bucket(k, m.size)])
  BY BucketIs DEF MapShape
<1> QED
  BY <1>1, LookupTypes DEF GetIn

\* map_new
LEMMA NewMap ==
    ASSUME NEW size \in Sizes
    PROVE  MapShape(M!New(size)) /\ M!New(size).n = 0 /\ \A k \in Keys : GetIn(M!New(size), k) = Null
<1> DEFINE m == M!New(size)
<1>1. size \in Nat \ {0}
  BY MapAssumption
<1>2. /\ m = [size |-> m.size, n |-> m.n, table |-> m.table] /\ m.size = size /\ m.n = 0
      /\ m.table = [i \in 0..(size - 1) |-> <<>>]
  BY DEF M!New
<1> HIDE DEF m
<1>3. m.table \in [0..(size - 1) -> Seq(Entry)] /\ \A b \in 0..(size - 1) : m.table[b] = <<>>
  BY <1>2, EmptySeq
<1>4. MapShape(m)
  BY <1>1, <1>2, <1>3, EmptyChain DEF MapShape
<1>5. \A k \in Keys : GetIn(m, k) = Null
  BY <1>1, <1>2, <1>3, BucketIs, EmptyChain DEF GetIn
<1> QED
  BY <1>2, <1>4, <1>5 DEF m

\* map_realloc: every key leads to what it led to.
LEMMA GrownKeeps ==
    ASSUME NEW m, MapShape(m), NEW c \in Nat, c = Cardinality(M!Places)
    PROVE  LET g == M!Grown(m) IN
           /\ MapShape(g) /\ g.n = m.n + c /\ \A k \in Keys : GetIn(g, k) = GetIn(m, k)
<1> DEFINE g == M!Grown(m)
           s == m.size
           w == 2 * m.size
<1>1. s \in Nat \ {0} /\ w \in Nat \ {0} /\ m.n \in Nat
  BY DEF MapShape
<1>2. /\ g = [size |-> w, n |-> m.n + c,
              table |-> [b \in 0..(w - 1) |-> M!Rebucketed(m.table[b % s], w, b)]]
  BY SameOperators DEF M!Grown
<1> HIDE DEF g
<1>3. /\ g = [size |-> g.size, n |-> g.n, table |-> g.table] /\ g.size = w /\ g.n = m.n + c
      /\ g.table = [b \in 0..(w - 1) |-> M!Rebucketed(m.table[b % s], w, b)]
  BY <1>2
<1>4. ASSUME NEW b \in 0..(w - 1)
      PROVE  /\ g.table[b] = M!Rebucketed(m.table[b % s], w, b)
             /\ b % s \in 0..(s - 1) /\ Chain(m.table[b % s])
             /\ Chain(g.table[b])
             /\ \A k : Lookup(g.table[b], k) =
                         IF M!Bucket(k, w) = b THEN Lookup(m.table[b % s], k) ELSE Null
  <2>1. g.table[b] = M!Rebucketed(m.table[b % s], w, b)
    BY <1>3
  <2>2. b % s \in 0..(s - 1)
    <3>1. b \in Nat
      BY <1>1
    <3> HIDE DEF s
    <3> QED
      BY <1>1, <3>1, Remainder
  <2>3. Chain(m.table[b % s])
    BY <2>2 DEF MapShape
  <2> QED
    BY <2>1, <2>2, <2>3, ChainRebucketed
<1>5. g.table \in [0..(w - 1) -> Seq(Entry)]
  <2>1. \A b \in 0..(w - 1) : g.table[b] \in Seq(Entry)
    BY <1>4 DEF Chain
  <2>2. g.table = [b \in 0..(w - 1) |-> g.table[b]]
    BY <1>3
  <2> QED
    BY <2>1, <2>2
<1>6. MapShape(g)
  <2>1. g.n \in Nat
    BY <1>1, <1>3
  <2>2. ASSUME NEW b \in 0..(w - 1), NEW k \in Keys, Lookup(g.table[b], k) # Null
        PROVE  M!Bucket(k, w) = b
    BY <1>4, <2>2
  <2> HIDE DEF w
  <2> QED
    BY <1>1, <1>3, <1>4, <1>5, <2>1, <2>2 DEF MapShape
<1>7. ASSUME NEW k \in Keys PROVE GetIn(g, k) = GetIn(m, k)
  <2> DEFINE b == M!Bucket(k, w)
  <2>1. b \in 0..(w - 1) /\ b % s = M!Bucket(k, s)
    BY <1>1, BucketIs
  <2>2. GetIn(g, k) = Lookup(g.table[b], k)
    BY <1>3 DEF GetIn
  <2> HIDE DEF b
  <2>3. Lookup(g.table[b], k) = Lookup(m.table[b % s], k)
    BY <1>4, <2>1 DEF b
  <2> QED
    BY <2>1, <2>2, <2>3 DEF GetIn
<1> QED
  BY <1>3, <1>6, <1>7 DEF g

\* A bucket is replaced by one in which nothing changes but for a key that
\* hashes to it.
Rebuilt(m, k, d) == [m EXCEPT !.table[M!Bucket(k, m.size)] = d]

\* A step that writes to the bucket of one key changes what this key leads
\* to, and no other.
LEMMA BucketPut ==
    ASSUME NEW m, MapShape(m), NEW k \in Keys, NEW d, Chain(d),
           \A j : j # k => Lookup(d, j) = Lookup(m.table[M!Bucket(k, m.size)], j),
           NEW q, q = Rebuilt(m, k, d)
    PROVE  /\ MapShape(q) /\ q.n = m.n /\ q.size = m.size
           /\ GetIn(q, k) = Lookup(d, k)
           /\ \A j \in Keys \ {k} : GetIn(q, j) = GetIn(m, j)
<1> DEFINE s == m.size
           h == M!Bucket(k, s)
<1>1. /\ s \in Nat \ {0} /\ m.n \in Nat /\ h \in 0..(s - 1)
      /\ m = [size |-> m.size, n |-> m.n, table |-> m.table]
      /\ m.table \in [0..(s - 1) -> Seq(Entry)]
      /\ \A b \in 0..(s - 1) : Chain(m.table[b])
      /\ \A b \in 0..(s - 1) : \A j \in Keys : Lookup(m.table[b], j) # Null => M!Bucket(j, s) = b
  BY BucketIs DEF MapShape
<1>2. /\ q = [size |-> q.size, n |-> q.n, table |-> q.table] /\ q.size = s /\ q.n = m.n
      /\ q.table = [m.table EXCEPT ![h] = d]
  BY <1>1 DEF Rebuilt
<1> HIDE DEF s, h
<1>3. d \in Seq(Entry)
  BY DEF Chain
<1>4. /\ q.table \in [0..(s - 1) -> Seq(Entry)] /\ q.table[h] = d
      /\ \A b \in 0..(s - 1) : b # h => q.table[b] = m.table[b]
  BY <1>1, <1>2, <1>3
<1>5. \A b \in 0..(s - 1) : Chain(q.table[b])
  BY <1>1, <1>4
<1>6. ASSUME NEW b \in 0..(s - 1), NEW j \in Keys, Lookup(q.table[b], j) # Null
      PROVE  M!Bucket(j, s) = b
  <2>1. CASE b # h
    BY <1>1, <1>4, <1>6, <2>1
  <2>2. CASE b = h /\ j = k
    BY <2>2 DEF h
  <2>3. CASE b = h /\ j # k
    <3>1. Lookup(m.table[h], j) # Null
      BY <1>4, <1>6, <2>3 DEF h, s
    <3> QED
      BY <1>1, <2>3, <3>1
  <2> QED
    BY <2>1, <2>2, <2>3
<1>7. MapShape(q)
  BY <1>1, <1>2, <1>4, <1>5, <1>6 DEF MapShape
<1>8. GetIn(q, k) = Lookup(d, k)
  BY <1>2, <1>4 DEF GetIn, h
<1>9. ASSUME NEW j \in Keys \ {k} PROVE GetIn(q, j) = GetIn(m, j)
  <2>1. M!Bucket(j, s) \in 0..(s - 1)
    BY <1>1, BucketIs
  <2>2. Lookup(q.table[M!Bucket(j, s)], j) = Lookup(m.table[M!Bucket(j, s)], j)
    <3>1. CASE M!Bucket(j, s) = h
      BY <1>4, <3>1 DEF h, s
    <3>2. CASE M!Bucket(j, s) # h
      BY <1>4, <2>1, <3>2
    <3> QED
      BY <3>1, <3>2
  <2> QED
    BY <1>2, <2>2 DEF GetIn, s
<1> QED
  BY <1>2, <1>7, <1>8, <1>9 DEF s

\* The first of the items of a key, of which there is one.
PlacesOf(c, k) == {i \in DOMAIN c : c[i].key = k}

\* map_get finds an item when there is one, and it is of the key.
LEMMA FirstPlace ==
    ASSUME NEW c, Chain(c), NEW k
    PROVE  /\ PlacesOf(c, k) = {} <=> Lookup(c, k) = Null
           /\ PlacesOf(c, k) # {} => /\ M!First(PlacesOf(c, k)) \in 1..Len(c)
                                    /\ c[M!First(PlacesOf(c, k))].key = k
<1> DEFINE P == PlacesOf(c, k)
<1>1. DOMAIN c = 1..Len(c) /\ Len(c) \in Nat
  BY ChainProperties
<1>2. CASE P = {}
  <2>1. \A i \in 1..Len(c) : c[i].key # k
    BY <1>1, <1>2 DEF PlacesOf
  <2> QED
    BY <1>2, <2>1, LookupNone
<1>3. CASE P # {}
  <2>1. PICK i \in 1..Len(c) : c[i].key = k
    BY <1>1, <1>3 DEF PlacesOf
  <2>2. P = {i} /\ i \in Nat
    BY <1>1, <2>1, ChainProperties DEF PlacesOf
  <2>3. M!First({i}) = i
    BY <2>2 DEF M!First
  <2>4. Lookup(c, k) = c[i].data /\ c[i].data # Null
    BY <2>1, LookupOne, ChainProperties
  <2> QED
    BY <2>1, <2>2, <2>3, <2>4
<1> QED
  BY <1>2, <1>3

\* prv_map_insert_item
LEMMA InsertedKeeps ==
    ASSUME NEW m, MapShape(m), NEW k \in Keys, NEW o \in Objects
    PROVE  LET q == M!ItemInserted(m, k, o) IN
           /\ MapShape(q) /\ q.size = m.size
           /\ q.n = IF GetIn(m, k) = Null THEN m.n + 1 ELSE m.n
           /\ GetIn(q, k) = o /\ \A j \in Keys \ {k} : GetIn(q, j) = GetIn(m, j)
<1> DEFINE q == M!ItemInserted(m, k, o)
           b == M!Bucket(k, m.size)
           c == m.table[b]
           P == PlacesOf(c, k)
           e == [key |-> k, data |-> o]
<1>1. Chain(c) /\ GetIn(m, k) = Lookup(c, k)
  BY GetTypes DEF GetIn
<1>2. q = IF P = {} THEN [m EXCEPT !.n = @ + 1, !.table[b] = <<e>> \o @]
          ELSE [m EXCEPT !.table[b][M!First(P)].data = o]
  BY Zenon DEF M!ItemInserted, PlacesOf
<1>3. /\ P = {} <=> Lookup(c, k) = Null
      /\ P # {} => M!First(P) \in 1..Len(c) /\ c[M!First(P)].key = k
  BY <1>1, FirstPlace
<1>4. /\ m = [size |-> m.size, n |-> m.n, table |-> m.table] /\ m.n \in Nat
      /\ m.table \in [0..(m.size - 1) -> Seq(Entry)] /\ b \in 0..(m.size - 1)
  BY BucketIs DEF MapShape
<1> HIDE DEF P, q, b
<1>5. CASE P = {}
  <2> DEFINE d == <<e>> \o c
             r == [m EXCEPT !.table[b] = d]
  <2>1. e \in Entry /\ e.key = k /\ e.data = o
    BY DEF Entry
  <2> HIDE DEF e
  <2>2. Chain(d) /\ Lookup(d, k) = o /\ \A j : j # k => Lookup(d, j) = Lookup(c, j)
    BY <1>1, <1>3, <1>5, <2>1, ChainFront
  <2> HIDE DEF d
  <2>3. r = Rebuilt(m, k, d)
    BY DEF b, Rebuilt
  <2>4. \A j : j # k => Lookup(d, j) = Lookup(m.table[M!Bucket(k, m.size)], j)
    BY <2>2 DEF b
  <2> HIDE DEF r
  <2>5. /\ MapShape(r) /\ r.n = m.n /\ r.size = m.size /\ GetIn(r, k) = o
        /\ \A j \in Keys \ {k} : GetIn(r, j) = GetIn(m, j)
    BY <2>2, <2>3, <2>4, BucketPut
  <2>6. /\ q = [size |-> q.size, n |-> q.n, table |-> q.table]
        /\ q.size = r.size /\ q.table = r.table /\ q.n = m.n + 1
    BY <1>2, <1>4, <1>5 DEF r, d
  <2>7. MapShape(q)
    BY <1>4, <2>5, <2>6 DEF MapShape
  <2>8. \A j : GetIn(q, j) = GetIn(r, j)
    BY <2>6 DEF GetIn
  <2> QED
    BY <1>1, <1>3, <1>5, <2>5, <2>6, <2>7, <2>8 DEF q
<1>6. CASE P # {}
  <2> DEFINE i == M!First(P)
             d == [c EXCEPT ![i].data = o]
  <2>1. i \in 1..Len(c) /\ c[i].key = k
    BY <1>3, <1>6
  <2> HIDE DEF i
  <2>2. Chain(d) /\ Lookup(d, c[i].key) = o /\ \A j : j # c[i].key => Lookup(d, j) = Lookup(c, j)
    BY <1>1, <2>1, ChainPut
  <2>3. q = [m EXCEPT !.table[b] = d]
    BY <1>2, <1>6, Zenon DEF i
  <2>4. q = Rebuilt(m, k, d)
    BY <2>3, Zenon DEF b, Rebuilt
  <2> HIDE DEF d
  <2>5. \A j : j # k => Lookup(d, j) = Lookup(m.table[M!Bucket(k, m.size)], j)
    BY <2>1, <2>2 DEF b
  <2>6. /\ MapShape(q) /\ q.n = m.n /\ q.size = m.size /\ GetIn(q, k) = Lookup(d, k)
        /\ \A j \in Keys \ {k} : GetIn(q, j) = GetIn(m, j)
    BY <2>2, <2>4, <2>5, BucketPut
  <2> QED
    BY <1>1, <1>3, <1>6, <2>1, <2>2, <2>6 DEF q
<1> QED
  BY <1>5, <1>6

----------------------------------------------------------------------------
(* The map of the model *)

PlacesIn(m) == UNION {{b} \X DOMAIN m.table[b] : b \in DOMAIN m.table}
ItemIn(m, p) == m.table[p[1]][p[2]]
DataIn(m) == [p \in PlacesIn(m) |-> ItemIn(m, p).data]

\* The map of the model is one of those the lemmas above are about.
LEMMA MapNames ==
    /\ M!Places = PlacesIn(map) /\ M!Data = DataIn(map)
    /\ \A k : M!Get(k) = GetIn(map, k)
<1>1. M!Places = PlacesIn(map)
  BY DEF M!Places, PlacesIn
<1>2. M!Data = DataIn(map)
  BY <1>1 DEF M!Data, M!Item, DataIn, ItemIn
<1>3. \A k : M!Get(k) = GetIn(map, k)
  BY DEF M!Get, M!PlaceOf, M!Chain, GetIn, Lookup
<1> QED
  BY <1>1, <1>2, <1>3

\* So it is after a step.
LEMMA MapNamesNext ==
    /\ M!Places' = PlacesIn(map') /\ M!Data' = DataIn(map')
    /\ \A k : M!Get(k)' = GetIn(map', k)
<1>1. M!Places' = PlacesIn(map')
  BY DEF M!Places, PlacesIn
<1>2. M!Data' = DataIn(map')
  BY <1>1 DEF M!Data, M!Item, DataIn, ItemIn
<1>3. \A k : M!Get(k)' = GetIn(map', k)
  BY DEF M!Get, M!PlaceOf, M!Chain, GetIn, Lookup
<1> QED
  BY <1>1, <1>2, <1>3

\* map_remove
LEMMA DeletedKeeps ==
    ASSUME NEW m, MapShape(m), NEW k \in Keys, NEW i \in 1..Len(m.table[M!Bucket(k, m.size)]),
           m.table[M!Bucket(k, m.size)][i].key = k,
           NEW q, q = Rebuilt(m, k, Without(m.table[M!Bucket(k, m.size)], i))
    PROVE  /\ MapShape(q) /\ q.n = m.n /\ GetIn(m, k) \in Objects
           /\ GetIn(q, k) = Null /\ \A j \in Keys \ {k} : GetIn(q, j) = GetIn(m, j)
<1> DEFINE c == m.table[M!Bucket(k, m.size)]
           d == Without(c, i)
<1>1. Chain(c) /\ GetIn(m, k) = Lookup(c, k)
  BY GetTypes DEF GetIn
<1>2. Lookup(c, c[i].key) = c[i].data /\ c[i].data \in Objects
  BY <1>1, LookupOne, ChainProperties
<1>3. Chain(d) /\ Lookup(d, k) = Null /\ \A j : j # k => Lookup(d, j) = Lookup(c, j)
  BY <1>1, ChainWithout
<1>4. /\ MapShape(q) /\ q.n = m.n /\ GetIn(q, k) = Lookup(d, k)
      /\ \A j \in Keys \ {k} : GetIn(q, j) = GetIn(m, j)
  <2>1. \A j : j # k => Lookup(d, j) = Lookup(m.table[M!Bucket(k, m.size)], j)
    BY <1>3
  <2>2. q = Rebuilt(m, k, d)
    OBVIOUS
  <2> HIDE DEF d
  <2> QED
    BY <1>3, <2>1, <2>2, BucketPut
<1> QED
  BY <1>1, <1>2, <1>3, <1>4

\* map_remove: the key is not found any more, every other is.
LEMMA DeleteKeeps ==
    ASSUME MapShape(map), NEW k \in Keys, M!Delete(k)
    PROVE  /\ MapShape(map') /\ map'.n = map.n /\ GetIn(map, k) \in Objects
           /\ GetIn(map', k) = Null /\ \A j \in Keys \ {k} : GetIn(map', j) = GetIn(map, j)
<1>1. PICK m, q : m = map /\ q = map'
  OBVIOUS
<1> DEFINE c == m.table[M!Bucket(k, m.size)]
<1>2. PICK h : h = M!First(PlacesOf(c, k))
  OBVIOUS
<1>3. PlacesOf(c, k) # {} /\ q = Rebuilt(m, k, Without(c, h))
  BY <1>1, <1>2, Zenon DEF M!Delete, M!PlaceOf, M!Chain, PlacesOf, Without, Rebuilt
<1>4. MapShape(m)
  BY <1>1
<1>5. h \in 1..Len(c) /\ c[h].key = k
  <2>1. Chain(c)
    BY <1>4, GetTypes
  <2> HIDE DEF c
  <2> QED
    BY <1>2, <1>3, <2>1, FirstPlace
<1>6. /\ MapShape(q) /\ q.n = m.n /\ GetIn(m, k) \in Objects
      /\ GetIn(q, k) = Null /\ \A j \in Keys \ {k} : GetIn(q, j) = GetIn(m, j)
  BY <1>3, <1>4, <1>5, DeletedKeeps
<1> QED
  BY <1>1, <1>6

\* A family of finite sets.
LEMMA FiniteFamily ==
    ASSUME NEW S, IsFiniteSet(S), NEW f, \A x \in S : IsFiniteSet(f[x])
    PROVE  IsFiniteSet(UNION {f[x] : x \in S})
<1> DEFINE T == {f[x] : x \in S}
           g == [x \in S |-> f[x]]
<1>1. g \in Surjection(S, T)
  BY DEF Surjection
<1>2. \A t \in T : IsFiniteSet(t)
  OBVIOUS
<1> HIDE DEF T, g
<1>3. IsFiniteSet(T)
  BY <1>1, FS_Surjection
<1>4. IsFiniteSet(UNION T)
  BY <1>2, <1>3, FS_UNION
<1> QED
  BY <1>4 DEF T

\* Every item of the map is in its key's bucket and found under its key.
LEMMA MapPlaces ==
    ASSUME NEW m, MapShape(m)
    PROVE  /\ IsFiniteSet(PlacesIn(m))
           /\ PlacesIn(m) = {p \in (0..(m.size - 1)) \X Nat : p[2] \in 1..Len(m.table[p[1]])}
           /\ \A p \in PlacesIn(m) :
                /\ p[1] \in 0..(m.size - 1) /\ p[2] \in 1..Len(m.table[p[1]]) /\ p = <<p[1], p[2]>>
                /\ ItemIn(m, p).key \in Keys /\ ItemIn(m, p).data \in Objects
                /\ M!Bucket(ItemIn(m, p).key, m.size) = p[1]
                /\ GetIn(m, ItemIn(m, p).key) = ItemIn(m, p).data
<1> DEFINE B == 0..(m.size - 1)
           t == m.table
           f == [b \in B |-> {b} \X DOMAIN t[b]]
<1>1. /\ m.size \in Nat \ {0} /\ DOMAIN t = B
      /\ \A b \in B : Chain(t[b]) /\ \A k \in Keys : Lookup(t[b], k) # Null => M!Bucket(k, m.size) = b
  BY DEF MapShape
<1>2. IsFiniteSet(B)
  BY <1>1, FS_Interval
<1>3. \A b \in B : DOMAIN t[b] = 1..Len(t[b]) /\ Len(t[b]) \in Nat
  BY <1>1, ChainProperties
<1> HIDE DEF B
<1>4. \A b \in B : IsFiniteSet(f[b])
  <2> SUFFICES ASSUME NEW b \in B PROVE IsFiniteSet({b} \X DOMAIN t[b])
    OBVIOUS
  <2>1. PICK n \in Nat : DOMAIN t[b] = 1..n
    BY <1>3
  <2>2. IsFiniteSet(DOMAIN t[b])
    BY <2>1, FS_Interval
  <2>3. IsFiniteSet({b})
    BY FS_Singleton
  <2> QED
    BY <2>2, <2>3, FS_Product
<1>5. PlacesIn(m) = UNION {f[b] : b \in B}
  BY <1>1 DEF PlacesIn
<1>6. IsFiniteSet(PlacesIn(m))
  <2> HIDE DEF f
  <2> QED
    BY <1>2, <1>4, <1>5, FiniteFamily
<1>7. PlacesIn(m) = {p \in B \X Nat : p[2] \in 1..Len(t[p[1]])}
  <2>1. PlacesIn(m) = UNION {{b} \X (1..Len(t[b])) : b \in B}
    BY <1>1, <1>3 DEF PlacesIn
  <2> QED
    BY <2>1
<1>8. ASSUME NEW p \in PlacesIn(m)
      PROVE  /\ p[1] \in B /\ p[2] \in 1..Len(t[p[1]]) /\ p = <<p[1], p[2]>>
             /\ ItemIn(m, p).key \in Keys /\ ItemIn(m, p).data \in Objects
             /\ M!Bucket(ItemIn(m, p).key, m.size) = p[1]
             /\ GetIn(m, ItemIn(m, p).key) = ItemIn(m, p).data
  <2>1. p[1] \in B /\ p[2] \in 1..Len(t[p[1]]) /\ p = <<p[1], p[2]>>
    BY <1>7
  <2> DEFINE c == t[p[1]]
             i == p[2]
  <2>2. Chain(c) /\ i \in 1..Len(c) /\ ItemIn(m, p) = c[i]
    BY <1>1, <2>1 DEF ItemIn
  <2>3. c[i].key \in Keys /\ c[i].data \in Objects /\ c[i].data # Null /\ Lookup(c, c[i].key) = c[i].data
    BY <2>2, ChainProperties, LookupOne
  <2>4. M!Bucket(c[i].key, m.size) = p[1]
    BY <1>1, <2>1, <2>3
  <2> QED
    BY <2>1, <2>2, <2>3, <2>4 DEF GetIn
<1> QED
  BY <1>6, <1>7, <1>8 DEF B

\* The items are, one to one, the keys that lead to something.
LEMMA MapContents ==
    ASSUME NEW m, MapShape(m), NEW O, O \subseteq Objects
    PROVE  /\ IsFiniteSet({k \in Keys : GetIn(m, k) \in O})
           /\ Cardinality({p \in PlacesIn(m) : ItemIn(m, p).data \in O})
                = Cardinality({k \in Keys : GetIn(m, k) \in O})
<1> DEFINE S == {p \in PlacesIn(m) : ItemIn(m, p).data \in O}
           T == {k \in Keys : GetIn(m, k) \in O}
           f == [p \in S |-> ItemIn(m, p).key]
<1>1. IsFiniteSet(S)
  BY MapPlaces, FS_Subset
<1>2. f \in [S -> T]
  <2> SUFFICES ASSUME NEW p \in S PROVE ItemIn(m, p).key \in T
    OBVIOUS
  <2>1. ItemIn(m, p).key \in Keys /\ GetIn(m, ItemIn(m, p).key) = ItemIn(m, p).data
    BY MapPlaces
  <2> QED
    BY <2>1
<1>3. ASSUME NEW p \in S, NEW q \in S, f[p] = f[q] PROVE p = q
  <2>1. ItemIn(m, p).key = ItemIn(m, q).key
    BY <1>3
  <2>2. /\ p[1] \in 0..(m.size - 1) /\ p[2] \in 1..Len(m.table[p[1]]) /\ p = <<p[1], p[2]>>
        /\ q[2] \in 1..Len(m.table[q[1]]) /\ q = <<q[1], q[2]>>
        /\ M!Bucket(ItemIn(m, p).key, m.size) = p[1] /\ M!Bucket(ItemIn(m, q).key, m.size) = q[1]
    BY MapPlaces
  <2>3. p[1] = q[1]
    BY <2>1, <2>2
  <2>4. Chain(m.table[p[1]])
    BY <2>2 DEF MapShape
  <2>5. p[2] = q[2]
    BY <2>1, <2>2, <2>3, <2>4, ChainProperties DEF ItemIn
  <2> QED
    BY <2>2, <2>3, <2>5
<1>4. ASSUME NEW k \in T PROVE \E p \in S : f[p] = k
  <2> DEFINE b == M!Bucket(k, m.size)
             c == m.table[b]
  <2>1. b \in 0..(m.size - 1) /\ Chain(c) /\ GetIn(m, k) = Lookup(c, k) /\ GetIn(m, k) \in O
    BY GetTypes, BucketIs DEF MapShape, GetIn
  <2>2. Lookup(c, k) # Null
    BY <2>1, MemoryAssumption
  <2>3. PICK i \in 1..Len(c) : c[i].key = k /\ c[i].data = Lookup(c, k)
    BY <2>1, <2>2, LookupSome
  <2>4. i \in Nat /\ <<b, i>> \in PlacesIn(m) /\ ItemIn(m, <<b, i>>) = c[i]
    BY <2>1, MapPlaces DEF ItemIn
  <2> QED
    BY <2>1, <2>3, <2>4
<1> HIDE DEF f, S, T
<1>5. IsFiniteSet(T) /\ Cardinality(T) = Cardinality(S)
  BY <1>1, <1>2, <1>3, <1>4, OneToOne
<1> QED
  BY <1>5 DEF S, T

\* How many items there are, and how many with an object, by what the keys
\* lead to.
LEMMA MapCounts ==
    ASSUME NEW m, MapShape(m)
    PROVE  /\ IsFiniteSet({k \in Keys : GetIn(m, k) # Null})
           /\ Cardinality(PlacesIn(m)) \in Nat
           /\ Cardinality(PlacesIn(m)) = Cardinality({k \in Keys : GetIn(m, k) # Null})
           /\ \A o \in Objects :
                /\ IsFiniteSet({k \in Keys : GetIn(m, k) = o})
                /\ Occurrences(o, DataIn(m)) \in Nat
                /\ Occurrences(o, DataIn(m)) = Cardinality({k \in Keys : GetIn(m, k) = o})
<1>1. IsFiniteSet(PlacesIn(m)) /\ Cardinality(PlacesIn(m)) \in Nat
  BY MapPlaces, FS_CardinalityType
<1>2. /\ IsFiniteSet({k \in Keys : GetIn(m, k) # Null})
      /\ Cardinality(PlacesIn(m)) = Cardinality({k \in Keys : GetIn(m, k) # Null})
  <2>1. {p \in PlacesIn(m) : ItemIn(m, p).data \in Objects} = PlacesIn(m)
    BY MapPlaces
  <2>2. {k \in Keys : GetIn(m, k) \in Objects} = {k \in Keys : GetIn(m, k) # Null}
    BY GetTypes, MemoryAssumption
  <2> QED
    BY <2>1, <2>2, MapContents
<1>3. ASSUME NEW o \in Objects
      PROVE  /\ IsFiniteSet({k \in Keys : GetIn(m, k) = o})
             /\ Occurrences(o, DataIn(m)) \in Nat
             /\ Occurrences(o, DataIn(m)) = Cardinality({k \in Keys : GetIn(m, k) = o})
  <2>1. /\ IsFiniteSet({k \in Keys : GetIn(m, k) \in {o}})
        /\ Cardinality({p \in PlacesIn(m) : ItemIn(m, p).data \in {o}})
             = Cardinality({k \in Keys : GetIn(m, k) \in {o}})
    <3> DEFINE O == {o}
    <3>1. O \subseteq Objects
      OBVIOUS
    <3> HIDE DEF O
    <3>2. /\ IsFiniteSet({k \in Keys : GetIn(m, k) \in O})
          /\ Cardinality({p \in PlacesIn(m) : ItemIn(m, p).data \in O})
               = Cardinality({k \in Keys : GetIn(m, k) \in O})
      BY <3>1, MapContents
    <3> QED
      BY <3>2 DEF O
  <2>2. {k \in Keys : GetIn(m, k) \in {o}} = {k \in Keys : GetIn(m, k) = o}
    OBVIOUS
  <2>3. {p \in PlacesIn(m) : ItemIn(m, p).data \in {o}} = {p \in DOMAIN DataIn(m) : DataIn(m)[p] = o}
    BY DEF DataIn
  <2>4. Occurrences(o, DataIn(m)) = Cardinality({p \in PlacesIn(m) : ItemIn(m, p).data \in {o}})
    BY <2>3 DEF Occurrences
  <2>5. Cardinality({k \in Keys : GetIn(m, k) = o}) \in Nat
    BY <2>1, <2>2, FS_CardinalityType
  <2> QED
    BY <2>1, <2>2, <2>4, <2>5
<1> QED
  BY <1>1, <1>2, <1>3

\* They change with what one key leads to.
LEMMA MapCountsChange ==
    ASSUME NEW m, MapShape(m), NEW q, MapShape(q), NEW k \in Keys,
           \A j \in Keys \ {k} : GetIn(q, j) = GetIn(m, j)
    PROVE  /\ \A o \in Objects :
                Occurrences(o, DataIn(q)) + (IF GetIn(m, k) = o THEN 1 ELSE 0)
                  = Occurrences(o, DataIn(m)) + (IF GetIn(q, k) = o THEN 1 ELSE 0)
           /\ Cardinality(PlacesIn(q)) + (IF GetIn(m, k) # Null THEN 1 ELSE 0)
                = Cardinality(PlacesIn(m)) + (IF GetIn(q, k) # Null THEN 1 ELSE 0)
<1>1. ASSUME NEW o \in Objects
      PROVE  Occurrences(o, DataIn(q)) + (IF GetIn(m, k) = o THEN 1 ELSE 0)
               = Occurrences(o, DataIn(m)) + (IF GetIn(q, k) = o THEN 1 ELSE 0)
  <2> DEFINE A == {j \in Keys : GetIn(m, j) = o}
             B == {j \in Keys : GetIn(q, j) = o}
  <2>1. /\ IsFiniteSet(A) /\ Occurrences(o, DataIn(m)) = Cardinality(A)
        /\ IsFiniteSet(B) /\ Occurrences(o, DataIn(q)) = Cardinality(B)
    BY MapCounts
  <2>2. A \ {k} = B \ {k} /\ (k \in A <=> GetIn(m, k) = o) /\ (k \in B <=> GetIn(q, k) = o)
    OBVIOUS
  <2> HIDE DEF A, B
  <2>3. Cardinality(A) \in Nat /\ Cardinality(B) \in Nat
    BY <2>1, FS_CardinalityType
  <2>4. /\ Cardinality(A \ {k}) = IF k \in A THEN Cardinality(A) - 1 ELSE Cardinality(A)
        /\ Cardinality(B \ {k}) = IF k \in B THEN Cardinality(B) - 1 ELSE Cardinality(B)
    BY <2>1, FS_RemoveElement
  <2> QED
    BY <2>1, <2>2, <2>3, <2>4
<1>2. Cardinality(PlacesIn(q)) + (IF GetIn(m, k) # Null THEN 1 ELSE 0)
        = Cardinality(PlacesIn(m)) + (IF GetIn(q, k) # Null THEN 1 ELSE 0)
  <2> DEFINE A == {j \in Keys : GetIn(m, j) # Null}
             B == {j \in Keys : GetIn(q, j) # Null}
  <2>1. /\ IsFiniteSet(A) /\ Cardinality(PlacesIn(m)) = Cardinality(A)
        /\ IsFiniteSet(B) /\ Cardinality(PlacesIn(q)) = Cardinality(B)
    BY MapCounts
  <2>2. A \ {k} = B \ {k} /\ (k \in A <=> GetIn(m, k) # Null) /\ (k \in B <=> GetIn(q, k) # Null)
    OBVIOUS
  <2> HIDE DEF A, B
  <2>3. Cardinality(A) \in Nat /\ Cardinality(B) \in Nat
    BY <2>1, FS_CardinalityType
  <2>4. /\ Cardinality(A \ {k}) = IF k \in A THEN Cardinality(A) - 1 ELSE Cardinality(A)
        /\ Cardinality(B \ {k}) = IF k \in B THEN Cardinality(B) - 1 ELSE Cardinality(B)
    BY <2>1, FS_RemoveElement
  <2> QED
    BY <2>1, <2>2, <2>3, <2>4
<1> QED
  BY <1>1, <1>2

\* n, which counts some items twice, is never less than they are.
MapInv ==
    /\ MapShape(map) /\ Cardinality(PlacesIn(map)) <= map.n
    /\ Keys = {} => map.n = 0

\* A step of the map that changes what one key leads to, with the numbers
\* that go with it.
KeyChanged(k) ==
    /\ \A j \in Keys \ {k} : M!Get(j)' = M!Get(j)
    /\ \A o \in Objects :
         Occurrences(o, M!Data)' + (IF M!Get(k) = o THEN 1 ELSE 0)
           = Occurrences(o, M!Data) + (IF M!Get(k)' = o THEN 1 ELSE 0)

\* When one key changes, items and objects of the map change by what it led
\* to and what it leads to.
LEMMA KeyChanges ==
    ASSUME MapInv, NEW k \in Keys, MapShape(map'),
           \A j \in Keys \ {k} : GetIn(map', j) = GetIn(map, j)
    PROVE  /\ KeyChanged(k)
           /\ Cardinality(PlacesIn(map')) \in Nat /\ Cardinality(PlacesIn(map)) \in Nat
           /\ Cardinality(PlacesIn(map')) + (IF GetIn(map, k) # Null THEN 1 ELSE 0)
                = Cardinality(PlacesIn(map)) + (IF GetIn(map', k) # Null THEN 1 ELSE 0)
<1>1. PICK m, q : m = map /\ q = map'
  OBVIOUS
<1>2. MapShape(m) /\ MapShape(q) /\ \A j \in Keys \ {k} : GetIn(q, j) = GetIn(m, j)
  BY <1>1 DEF MapInv
<1>3. /\ \A o \in Objects :
           Occurrences(o, DataIn(q)) + (IF GetIn(m, k) = o THEN 1 ELSE 0)
             = Occurrences(o, DataIn(m)) + (IF GetIn(q, k) = o THEN 1 ELSE 0)
      /\ Cardinality(PlacesIn(q)) + (IF GetIn(m, k) # Null THEN 1 ELSE 0)
           = Cardinality(PlacesIn(m)) + (IF GetIn(q, k) # Null THEN 1 ELSE 0)
  BY <1>2, MapCountsChange
<1>4. Cardinality(PlacesIn(q)) \in Nat /\ Cardinality(PlacesIn(m)) \in Nat
  BY <1>2, MapCounts
<1>5. \A o : Occurrences(o, M!Data)' = Occurrences(o, M!Data')
  OBVIOUS
<1>6. /\ M!Data = DataIn(m) /\ M!Data' = DataIn(q)
      /\ \A j : M!Get(j) = GetIn(m, j) /\ M!Get(j)' = GetIn(q, j)
  BY <1>1, MapNames, MapNamesNext
<1>7. KeyChanged(k)
  BY <1>2, <1>3, <1>5, <1>6 DEF KeyChanged
<1> QED
  BY <1>1, <1>3, <1>4, <1>7

\* A new map is empty.
LEMMA MapInitInv == M!Init => MapInv /\ map.n = 0 /\ \A k \in Keys : GetIn(map, k) = Null
<1> SUFFICES ASSUME M!Init
             PROVE  MapInv /\ map.n = 0 /\ \A k \in Keys : GetIn(map, k) = Null
  OBVIOUS
<1>1. PICK size \in Sizes : map = M!New(size)
  BY DEF M!Init
<1> DEFINE m == M!New(size)
<1>2. MapShape(m) /\ m.n = 0 /\ \A k \in Keys : GetIn(m, k) = Null
  BY <1>1, NewMap
<1> HIDE DEF m
<1>3. Cardinality(PlacesIn(m)) = 0
  <2>1. {k \in Keys : GetIn(m, k) # Null} = {}
    BY <1>2
  <2> QED
    BY <1>2, <2>1, MapCounts, FS_EmptySet
<1> QED
  BY <1>1, <1>2, <1>3 DEF MapInv, m

\* map_insert
LEMMA MapInsertKeeps ==
    ASSUME MapInv, NEW k \in Keys, NEW o \in Objects, M!Insert(k, o)
    PROVE  MapInv' /\ M!Get(k)' = o /\ KeyChanged(k)
<1>1. PICK m, q, c : m = map /\ q = map' /\ c = Cardinality(M!Places)
  OBVIOUS
<1>2. c \in Nat /\ c = Cardinality(PlacesIn(m)) /\ c <= m.n /\ MapShape(m)
  BY <1>1, MapNames, MapCounts DEF MapInv
<1>3. \E r : /\ MapShape(r) /\ m.n <= r.n /\ \A j \in Keys : GetIn(r, j) = GetIn(m, j)
             /\ q = M!ItemInserted(r, k, o)
  <2>1. PICK full \in BOOLEAN : map' = M!ItemInserted(IF full THEN M!Grown(map) ELSE map, k, o)
    BY Zenon DEF M!Insert
  <2>2. CASE full
    <3>1. q = M!ItemInserted(M!Grown(m), k, o)
      BY <1>1, <2>1, <2>2
    <3>2. MapShape(M!Grown(m)) /\ M!Grown(m).n = m.n + c /\ \A j \in Keys : GetIn(M!Grown(m), j) = GetIn(m, j)
      BY <1>1, <1>2, GrownKeeps
    <3>3. m.n \in Nat
      BY <1>2 DEF MapShape
    <3> QED
      BY <1>2, <3>1, <3>2, <3>3
  <2>3. CASE ~full
    <3>1. q = M!ItemInserted(m, k, o)
      BY <1>1, <2>1, <2>3
    <3>2. m.n \in Nat
      BY <1>2 DEF MapShape
    <3> QED
      BY <1>2, <3>1, <3>2
  <2> QED
    BY <2>2, <2>3
<1>4. PICK r : /\ MapShape(r) /\ m.n <= r.n /\ \A j \in Keys : GetIn(r, j) = GetIn(m, j)
               /\ q = M!ItemInserted(r, k, o)
  BY <1>3
<1>5. /\ MapShape(q) /\ q.n = (IF GetIn(r, k) = Null THEN r.n + 1 ELSE r.n)
      /\ GetIn(q, k) = o /\ \A j \in Keys \ {k} : GetIn(q, j) = GetIn(r, j)
  BY <1>4, InsertedKeeps
<1>6. \A j \in Keys \ {k} : GetIn(q, j) = GetIn(m, j)
  BY <1>4, <1>5
<1>7. /\ KeyChanged(k) /\ Cardinality(PlacesIn(q)) \in Nat
      /\ Cardinality(PlacesIn(q)) + (IF GetIn(m, k) # Null THEN 1 ELSE 0)
           = c + (IF GetIn(q, k) # Null THEN 1 ELSE 0)
  BY <1>1, <1>2, <1>5, <1>6, KeyChanges
<1>8. Cardinality(PlacesIn(q)) <= q.n
  <2>1. o # Null /\ m.n \in Nat /\ r.n \in Nat /\ GetIn(r, k) = GetIn(m, k)
    BY <1>2, <1>4, MemoryAssumption DEF MapShape
  <2> QED
    BY <1>2, <1>4, <1>5, <1>7, <2>1
<1>9. MapInv'
  BY <1>1, <1>5, <1>8 DEF MapInv
<1> QED
  BY <1>1, <1>5, <1>7, <1>9, MapNamesNext

\* map_remove
LEMMA MapDeleteKeeps ==
    ASSUME MapInv, NEW k \in Keys, M!Delete(k)
    PROVE  MapInv' /\ M!Get(k) \in Objects /\ M!Get(k)' = Null /\ KeyChanged(k)
<1>1. /\ MapShape(map') /\ map'.n = map.n /\ GetIn(map, k) \in Objects
      /\ GetIn(map', k) = Null /\ \A j \in Keys \ {k} : GetIn(map', j) = GetIn(map, j)
  BY DeleteKeeps DEF MapInv
<1>2. /\ KeyChanged(k)
      /\ Cardinality(PlacesIn(map')) \in Nat /\ Cardinality(PlacesIn(map)) \in Nat
      /\ Cardinality(PlacesIn(map')) + (IF GetIn(map, k) # Null THEN 1 ELSE 0)
           = Cardinality(PlacesIn(map)) + (IF GetIn(map', k) # Null THEN 1 ELSE 0)
  BY <1>1, KeyChanges
<1>3. Cardinality(PlacesIn(map)) <= map.n /\ map.n \in Nat
  BY DEF MapInv, MapShape
<1>4. Cardinality(PlacesIn(map')) <= map'.n
  BY <1>1, <1>2, <1>3
<1>5. MapInv'
  BY <1>1, <1>4 DEF MapInv
<1> QED
  BY <1>1, <1>2, <1>5, MapNames, MapNamesNext

\* map_free, and a new map
LEMMA MapRenewKeeps ==
    ASSUME NEW size \in Sizes, M!Renew(size)
    PROVE  MapInv' /\ map'.n = 0 /\ \A o \in Objects : Occurrences(o, M!Data)' = 0
<1>1. PICK q : q = map' /\ q = M!New(size)
  BY DEF M!Renew
<1>2. MapShape(q) /\ q.n = 0 /\ \A k \in Keys : GetIn(q, k) = Null
  BY <1>1, NewMap
<1>3. Cardinality(PlacesIn(q)) = 0
  <2>1. {k \in Keys : GetIn(q, k) # Null} = {}
    BY <1>2
  <2> QED
    BY <1>2, <2>1, MapCounts, FS_EmptySet
<1>4. ASSUME NEW o \in Objects PROVE Occurrences(o, DataIn(q)) = 0
  <2>1. {k \in Keys : GetIn(q, k) = o} = {}
    BY <1>2, MemoryAssumption
  <2> QED
    BY <1>2, <2>1, MapCounts, FS_EmptySet
<1>5. \A o : Occurrences(o, M!Data)' = Occurrences(o, M!Data')
  OBVIOUS
<1>6. M!Data' = DataIn(q)
  BY <1>1, MapNamesNext
<1>7. MapInv'
  BY <1>1, <1>2, <1>3 DEF MapInv
<1> QED
  BY <1>1, <1>2, <1>4, <1>5, <1>6, <1>7

\* What does not touch the map leaves every key.
LEMMA MapStutters ==
    ASSUME MapInv, UNCHANGED map
    PROVE  /\ MapInv' /\ (\A k : M!Get(k)' = M!Get(k))
           /\ \A o : Occurrences(o, M!Data)' = Occurrences(o, M!Data)
<1>1. MapInv'
  BY DEF MapInv
<1>2. \A k : M!Get(k)' = M!Get(k)
  BY MapNames, MapNamesNext
<1>3. \A o : Occurrences(o, M!Data)' = Occurrences(o, M!Data')
  OBVIOUS
<1>4. M!Data' = M!Data
  BY MapNames, MapNamesNext
<1> QED
  BY <1>1, <1>2, <1>3, <1>4

\* map_all_keys of a bucket, and of those before one.
KeysOf(c) == [i \in DOMAIN c |-> c[i].key]
Before(m, b) == {p \in PlacesIn(m) : p[1] < b}

AllKeysIn(m) ==
    LET upTo[b \in 0..m.size] ==
            IF b = 0 THEN <<>>
            ELSE LET keys == upTo[b - 1] IN
                 IF Len(keys) >= m.n THEN keys ELSE keys \o KeysOf(m.table[b - 1])
    IN  upTo[m.size]

\* What one more bucket adds.
LEMMA BeforeNext ==
    ASSUME NEW m, MapShape(m), NEW b \in 0..(m.size - 1), NEW keys \in Seq(Keys),
           Len(keys) = Cardinality(Before(m, b)),
           {keys[i] : i \in DOMAIN keys} = {ItemIn(m, p).key : p \in Before(m, b)}
    PROVE  LET all == keys \o KeysOf(m.table[b]) IN
           /\ all \in Seq(Keys) /\ Len(all) = Cardinality(Before(m, b + 1))
           /\ {all[i] : i \in DOMAIN all} = {ItemIn(m, p).key : p \in Before(m, b + 1)}
<1> DEFINE c == m.table[b]
           ks == KeysOf(c)
           all == keys \o ks
           here == {b} \X (1..Len(c))
<1>1. Chain(c) /\ b \in Nat
  BY DEF MapShape
<1>2. PICK n \in Nat : n = Len(c) /\ DOMAIN c = 1..n /\ \A i \in 1..n : c[i].key \in Keys
  BY <1>1, ChainProperties
<1>3. ks \in Seq(Keys) /\ Len(ks) = n /\ \A i \in 1..n : ks[i] = c[i].key
  BY <1>2 DEF KeysOf
<1>4. PICK l \in Nat : l = Len(keys) /\ DOMAIN keys = 1..l
  BY LenProperties
<1>5. all \in Seq(Keys) /\ Len(all) = l + n /\ DOMAIN all = 1..(l + n)
      /\ \A i \in 1..(l + n) : all[i] = IF i <= l THEN keys[i] ELSE ks[i - l]
  <2> HIDE DEF ks
  <2>1. all \in Seq(Keys) /\ Len(all) = Len(keys) + Len(ks)
        /\ \A i \in 1..(Len(keys) + Len(ks)) : all[i] = IF i <= Len(keys) THEN keys[i] ELSE ks[i - Len(keys)]
    BY <1>3, ConcatProperties
  <2>2. DOMAIN all = 1..Len(all)
    BY <2>1, LenProperties
  <2> QED
    BY <1>3, <1>4, <2>1, <2>2
<1>6. Before(m, b + 1) = Before(m, b) \cup here
  <2>1. ASSUME NEW p \in Before(m, b + 1) PROVE p \in Before(m, b) \cup here
    <3>1. p[1] \in 0..(m.size - 1) /\ p[2] \in 1..Len(m.table[p[1]]) /\ p = <<p[1], p[2]>> /\ p[1] < b + 1
          /\ p \in PlacesIn(m)
      BY <2>1, MapPlaces DEF Before
    <3>2. CASE p[1] = b
      BY <3>1, <3>2
    <3>3. CASE p[1] # b
      <4>1. p[1] < b
        BY <1>1, <3>1, <3>3
      <4> QED
        BY <3>1, <4>1 DEF Before
    <3> QED
      BY <3>2, <3>3
  <2>2. ASSUME NEW p \in Before(m, b) PROVE p \in Before(m, b + 1)
    <3>1. p[1] \in 0..(m.size - 1) /\ p \in PlacesIn(m) /\ p[1] < b
      BY <2>2, MapPlaces DEF Before
    <3> QED
      BY <1>1, <3>1 DEF Before
  <2>3. ASSUME NEW i \in 1..n PROVE <<b, i>> \in Before(m, b + 1)
    <3>1. <<b, i>> \in PlacesIn(m)
      BY <1>2, MapPlaces
    <3> QED
      BY <1>1, <3>1 DEF Before
  <2> QED
    BY <1>2, <2>1, <2>2, <2>3
<1>7. Before(m, b) \cap here = {}
  BY <1>1 DEF Before
<1>8. IsFiniteSet(here) /\ Cardinality(here) = n
  <2>1. IsFiniteSet(1..n) /\ Cardinality(1..n) = n
    <3>1. 1 \in Int /\ n \in Int
      OBVIOUS
    <3>2. IsFiniteSet(1..n) /\ Cardinality(1..n) = IF 1 > n THEN 0 ELSE n - 1 + 1
      BY <3>1, FS_Interval
    <3> QED
      BY <3>2
  <2>2. IsFiniteSet({b}) /\ Cardinality({b}) = 1
    BY FS_Singleton
  <2> DEFINE one == {b}
             to == 1..n
  <2> HIDE DEF one, to
  <2>3. IsFiniteSet(one \X to) /\ Cardinality(one \X to) = Cardinality(one) * Cardinality(to)
    BY <2>1, <2>2, FS_Product DEF one, to
  <2> QED
    BY <1>2, <2>1, <2>2, <2>3 DEF one, to
<1>9. IsFiniteSet(Before(m, b))
  <2>1. Before(m, b) \in SUBSET PlacesIn(m)
    BY DEF Before
  <2> QED
    BY <2>1, MapPlaces, FS_Subset
<1> DEFINE before == Before(m, b)
<1> HIDE DEF here, before
<1>10. Cardinality(before \cup here) = Cardinality(before) + Cardinality(here)
  BY <1>7, <1>8, <1>9, Apart DEF before
<1>11. Len(all) = Cardinality(Before(m, b + 1))
  BY <1>4, <1>5, <1>6, <1>8, <1>10 DEF before
<1> HIDE DEF all, ks
<1>12. {all[i] : i \in DOMAIN all} = {keys[i] : i \in DOMAIN keys} \cup {c[i].key : i \in 1..n}
  <2>1. ASSUME NEW i \in 1..(l + n)
        PROVE  all[i] \in {keys[j] : j \in 1..l} \cup {c[j].key : j \in 1..n}
    <3>1. CASE i <= l
      <4>1. i \in 1..l
        BY <3>1
      <4> QED
        BY <1>5, <3>1, <4>1
    <3>2. CASE ~(i <= l)
      <4>1. i - l \in 1..n
        BY <3>2
      <4> QED
        BY <1>3, <1>5, <3>2, <4>1
    <3> QED
      BY <3>1, <3>2
  <2>2. ASSUME NEW j \in 1..l PROVE keys[j] \in {all[i] : i \in 1..(l + n)}
    <3>1. j \in 1..(l + n) /\ j <= l
      OBVIOUS
    <3> QED
      BY <1>5, <3>1
  <2>3. ASSUME NEW j \in 1..n PROVE c[j].key \in {all[i] : i \in 1..(l + n)}
    <3>1. l + j \in 1..(l + n) /\ ~(l + j <= l) /\ (l + j) - l = j
      OBVIOUS
    <3>2. all[l + j] = c[j].key
      BY <1>3, <1>5, <3>1
    <3> QED
      BY <3>1, <3>2
  <2> DEFINE A == {all[i] : i \in 1..(l + n)}
             K == {keys[i] : i \in 1..l}
             H == {c[i].key : i \in 1..n}
  <2>4. A \subseteq K \cup H
    BY <2>1
  <2>5. K \subseteq A
    BY <2>2
  <2>6. H \subseteq A
    BY <2>3
  <2>7. A = K \cup H
    <3> HIDE DEF A, K, H
    <3> QED
      BY <2>4, <2>5, <2>6
  <2> QED
    BY <1>4, <1>5, <2>7
<1>13. {ItemIn(m, p).key : p \in here} = {c[i].key : i \in 1..n}
  <2>1. \A p \in here : p[2] \in 1..n /\ ItemIn(m, p) = c[p[2]]
    BY <1>2 DEF here, ItemIn
  <2>2. \A i \in 1..n : <<b, i>> \in here /\ ItemIn(m, <<b, i>>) = c[i]
    BY <1>2 DEF here, ItemIn
  <2> HIDE DEF c
  <2>3. \A p \in here : ItemIn(m, p).key \in {c[i].key : i \in 1..n}
    BY <2>1
  <2>4. \A i \in 1..n : c[i].key \in {ItemIn(m, p).key : p \in here}
    <3> SUFFICES ASSUME NEW i \in 1..n PROVE \E p \in here : ItemIn(m, p).key = c[i].key
      OBVIOUS
    <3>1. <<b, i>> \in here /\ ItemIn(m, <<b, i>>).key = c[i].key
      BY <2>2
    <3> QED
      BY <3>1
  <2> QED
    BY <2>3, <2>4, Zenon
<1>14. {ItemIn(m, p).key : p \in Before(m, b + 1)}
         = {ItemIn(m, p).key : p \in Before(m, b)} \cup {ItemIn(m, p).key : p \in here}
  BY <1>6
<1> QED
  BY <1>5, <1>11, <1>12, <1>13, <1>14 DEF all, ks

\* It stops at n keys, and no item is left then.
LEMMA AllKeysFound ==
    ASSUME NEW m, MapShape(m), Cardinality(PlacesIn(m)) <= m.n
    PROVE  /\ AllKeysIn(m) \in Seq(Keys) /\ Len(AllKeysIn(m)) = Cardinality(PlacesIn(m))
           /\ {AllKeysIn(m)[i] : i \in DOMAIN AllKeysIn(m)} = {ItemIn(m, p).key : p \in PlacesIn(m)}
<1> DEFINE N == m.size
           More(b, keys) == IF Len(keys) >= m.n THEN keys ELSE keys \o KeysOf(m.table[b - 1])
           Step(f) == [b \in 0..N |-> IF b = 0 THEN <<>> ELSE More(b, f[b - 1])]
           v == CHOOSE f : f = Step(f)
           G == [b \in 1..N |-> [keys \in Seq(Keys) |-> More(b, keys)]]
<1>1. AllKeysIn(m) = v[N]
  BY DEF AllKeysIn
<1>2. N \in Nat /\ m.n \in Nat
  BY DEF MapShape
<1>3. \A b \in 1..N : KeysOf(m.table[b - 1]) \in Seq(Keys)
  <2> SUFFICES ASSUME NEW b \in 1..N PROVE KeysOf(m.table[b - 1]) \in Seq(Keys)
    OBVIOUS
  <2>1. b - 1 \in 0..(m.size - 1)
    BY <1>2
  <2>2. PICK c : c = m.table[b - 1] /\ Chain(c)
    BY <2>1 DEF MapShape
  <2>3. PICK n \in Nat : DOMAIN c = 1..n /\ \A i \in 1..n : c[i].key \in Keys
    BY <2>2, ChainProperties
  <2> QED
    BY <2>2, <2>3 DEF KeysOf
<1> HIDE DEF N
<1>4. G \in [1..N -> [Seq(Keys) -> Seq(Keys)]]
  <2> SUFFICES ASSUME NEW b \in 1..N, NEW keys \in Seq(Keys) PROVE More(b, keys) \in Seq(Keys)
    OBVIOUS
  <2>1. keys \o KeysOf(m.table[b - 1]) \in Seq(Keys)
    BY <1>3, ConcatProperties
  <2> QED
    BY <2>1
<1>5. <<>> \in Seq(Keys)
  BY EmptySeq
<1>6. PICK f \in [0..N -> Seq(Keys)] : Follows(f, <<>>, G, N)
  <2> HIDE DEF G
  <2> QED
    BY <1>2, <1>4, <1>5, IterationExists
<1> HIDE DEF More
<1>7. f = Step(f)
  <2>1. f = [n \in 0..N |-> IF n = 0 THEN <<>> ELSE G[n][f[n - 1]]]
    BY <1>6 DEF Follows
  <2>2. ASSUME NEW n \in 0..N PROVE f[n] = Step(f)[n]
    <3>1. CASE n = 0
      BY <2>1, <3>1
    <3>2. CASE n # 0
      <4>1. n \in 1..N /\ n - 1 \in 0..N
        BY <1>2, <3>2
      <4>2. f[n - 1] \in Seq(Keys)
        BY <1>6, <4>1
      <4>3. f[n] = G[n][f[n - 1]]
        BY <2>1, <3>2
      <4>4. G[n][f[n - 1]] = More(n, f[n - 1])
        BY <4>1, <4>2
      <4> QED
        BY <3>2, <4>3, <4>4
    <3> QED
      BY <3>1, <3>2
  <2> QED
    BY <2>1, <2>2
<1>8. v = Step(v)
  BY <1>7
<1> HIDE DEF v, G
<1>9. v[0] = <<>> /\ \A n \in 1..N : v[n] = More(n, v[n - 1])
  <2>1. \A n \in 0..N : v[n] = IF n = 0 THEN <<>> ELSE More(n, v[n - 1])
    BY <1>8
  <2>2. 0 \in 0..N /\ \A n \in 1..N : n \in 0..N /\ n # 0
    BY <1>2
  <2> QED
    BY <2>1, <2>2
<1> DEFINE Read(b, keys) ==
             /\ keys \in Seq(Keys) /\ Len(keys) = Cardinality(Before(m, b))
             /\ {keys[i] : i \in DOMAIN keys} = {ItemIn(m, p).key : p \in Before(m, b)}
           S == {b \in 0..N : Read(b, v[b])}
<1>10. 0 \in S
  <2>1. Before(m, 0) = {}
    BY MapPlaces DEF Before
  <2>2. Cardinality(Before(m, 0)) = 0
    BY <2>1, FS_EmptySet
  <2>3. {ItemIn(m, p).key : p \in Before(m, 0)} = {}
    BY <2>1
  <2> DEFINE keys == <<>>
  <2>4. Len(keys) = 0 /\ {keys[i] : i \in DOMAIN keys} = {} /\ keys \in Seq(Keys)
    BY <1>5
  <2> HIDE DEF keys
  <2>5. Read(0, keys)
    BY <2>2, <2>3, <2>4
  <2>6. v[0] = keys /\ 0 \in 0..N
    BY <1>2, <1>9 DEF keys
  <2> HIDE DEF Read
  <2> QED
    BY <2>5, <2>6
<1>11. ASSUME NEW n \in 1..N, n - 1 \in S PROVE n \in S
  <2>1. PICK b, keys : b = n - 1 /\ keys = v[b] /\ b + 1 = n
    OBVIOUS
  <2>2. b \in 0..(m.size - 1) /\ Read(b, keys)
    <3>1. b \in 0..(m.size - 1)
      BY <1>2, <2>1 DEF N
    <3> HIDE DEF Read
    <3>2. Read(b, keys)
      BY <1>11, <2>1
    <3> QED
      BY <3>1, <3>2
  <2>3. v[n] = IF Len(keys) >= m.n THEN keys ELSE keys \o KeysOf(m.table[b])
    BY <1>9, <2>1 DEF More
  <2>4. CASE Len(keys) >= m.n
    <3>1. IsFiniteSet(PlacesIn(m)) /\ Before(m, b) \in SUBSET PlacesIn(m)
      BY MapPlaces DEF Before
    <3>2. /\ Cardinality(Before(m, b)) <= Cardinality(PlacesIn(m))
          /\ Cardinality(PlacesIn(m)) = Cardinality(Before(m, b)) => PlacesIn(m) = Before(m, b)
          /\ Cardinality(Before(m, b)) \in Nat /\ Cardinality(PlacesIn(m)) \in Nat
      BY <3>1, FS_Subset, FS_CardinalityType
    <3>3. PlacesIn(m) = Before(m, b)
      BY <1>2, <2>2, <2>4, <3>2
    <3>4. Before(m, n) = PlacesIn(m)
      <4>1. \A p \in PlacesIn(m) : p[1] \in 0..(m.size - 1) /\ p[1] < b
        BY <3>3, MapPlaces DEF Before
      <4>2. \A p \in PlacesIn(m) : p[1] < n
        BY <2>1, <2>2, <4>1
      <4> QED
        BY <4>2 DEF Before
    <3>5. v[n] = keys
      BY <2>3, <2>4
    <3>6. Read(n, keys)
      BY <2>2, <3>3, <3>4
    <3> HIDE DEF Read
    <3> QED
      BY <3>5, <3>6
  <2>5. CASE ~(Len(keys) >= m.n)
    <3> DEFINE all == keys \o KeysOf(m.table[b])
    <3>1. /\ all \in Seq(Keys) /\ Len(all) = Cardinality(Before(m, b + 1))
          /\ {all[i] : i \in DOMAIN all} = {ItemIn(m, p).key : p \in Before(m, b + 1)}
      BY <2>2, BeforeNext, ZenonT(40)
    <3>2. v[n] = all
      BY <2>3, <2>5
    <3> HIDE DEF all
    <3>3. Read(n, v[n])
      BY <2>1, <3>1, <3>2
    <3> HIDE DEF Read
    <3> QED
      BY <1>2, <3>3
  <2> QED
    BY <2>4, <2>5
<1> HIDE DEF S
<1>12. 0..N \subseteq S
  BY <1>2, <1>10, <1>11, InductionUpTo
<1>13. Read(N, v[N])
  <2>1. N \in S
    BY <1>2, <1>12
  <2> QED
    BY <2>1 DEF S
<1>14. Before(m, N) = PlacesIn(m)
  <2>1. \A p \in PlacesIn(m) : p[1] < N
    BY <1>2, MapPlaces DEF N
  <2> QED
    BY <2>1 DEF Before
<1> QED
  BY <1>1, <1>13, <1>14

\* Every item is found under its key, and so is every key.
LEMMA KeysAreFound == MapInv => M!KeysFound
<1> SUFFICES ASSUME MapInv PROVE M!KeysFound
  OBVIOUS
<1>1. PICK m, keys : m = map /\ keys = AllKeysIn(m)
  OBVIOUS
<1>2. MapShape(m) /\ Cardinality(PlacesIn(m)) <= m.n
  BY <1>1 DEF MapInv
<1>3. M!Places = PlacesIn(m) /\ \A k : M!Get(k) = GetIn(m, k)
  BY <1>1, MapNames
<1>4. M!AllKeys = keys
  <2>1. M!AllKeys = AllKeysIn(map)
    BY DEF M!AllKeys, AllKeysIn, KeysOf
  <2> QED
    BY <1>1, <2>1
<1>5. Len(keys) = Cardinality(PlacesIn(m))
      /\ {keys[i] : i \in DOMAIN keys} = {ItemIn(m, p).key : p \in PlacesIn(m)}
  <2>1. /\ AllKeysIn(m) \in Seq(Keys) /\ Len(AllKeysIn(m)) = Cardinality(PlacesIn(m))
        /\ {AllKeysIn(m)[i] : i \in DOMAIN AllKeysIn(m)} = {ItemIn(m, p).key : p \in PlacesIn(m)}
    BY <1>2, AllKeysFound
  <2>2. keys = AllKeysIn(m)
    BY <1>1
  <2> QED
    BY <2>1, <2>2, Zenon
<1>6. \A p \in PlacesIn(m) : M!Item(p) = ItemIn(m, p)
  BY <1>1 DEF M!Item, ItemIn
<1>7. \A p \in PlacesIn(m) : /\ GetIn(m, ItemIn(m, p).key) = ItemIn(m, p).data
                             /\ ItemIn(m, p).key \in Keys /\ ItemIn(m, p).data \in Objects
  BY <1>2, MapPlaces
<1>8. \A k \in Keys : GetIn(m, k) # Null => \E p \in PlacesIn(m) : ItemIn(m, p).key = k
  <2> SUFFICES ASSUME NEW k \in Keys, GetIn(m, k) # Null
               PROVE  \E p \in PlacesIn(m) : ItemIn(m, p).key = k
    OBVIOUS
  <2> DEFINE b == M!Bucket(k, m.size)
             c == m.table[b]
  <2>1. b \in 0..(m.size - 1) /\ Chain(c) /\ Lookup(c, k) # Null
    BY <1>2, GetTypes, BucketIs DEF MapShape, GetIn
  <2>2. PICK i \in 1..Len(c) : c[i].key = k
    BY <2>1, LookupNone
  <2>3. i \in Nat /\ <<b, i>> \in PlacesIn(m) /\ ItemIn(m, <<b, i>>) = c[i]
    BY <1>2, <2>1, MapPlaces DEF ItemIn
  <2> QED
    BY <2>2, <2>3
<1>9. {keys[i] : i \in DOMAIN keys} = {k \in Keys : GetIn(m, k) # Null}
  BY <1>5, <1>7, <1>8, MemoryAssumption
<1> QED
  BY <1>3, <1>4, <1>5, <1>6, <1>7, <1>9, SameOperators DEF M!KeysFound

----------------------------------------------------------------------------
(* Vectors *)

VectorType ==
    [elements : Seq(Objects \cup {Null}), room : Nat, keep : BOOLEAN, compared : BOOLEAN]

VectorOK(v) == v \in VectorType /\ V!Fits(v)

\* The types of a vector's fields.
LEMMA VectorFields ==
    ASSUME NEW v \in VectorType
    PROVE  /\ v.elements \in Seq(Objects \cup {Null}) /\ v.room \in Nat
           /\ v.keep \in BOOLEAN /\ v.compared \in BOOLEAN /\ v # Null
           /\ Len(v.elements) \in Nat /\ DOMAIN v.elements = 1..Len(v.elements)
           /\ \A i \in 1..Len(v.elements) : v.elements[i] \in Objects \cup {Null}
<1>1. v.elements \in Seq(Objects \cup {Null}) /\ v.room \in Nat /\ v.keep \in BOOLEAN /\ v.compared \in BOOLEAN
  BY DEF VectorType
<1>2. v # Null
  BY MemoryAssumption, Zenon DEF VectorType
<1> QED
  BY <1>1, <1>2, LenProperties, ElementOfSeq

\* vector_new makes an empty vector, with room.
LEMMA NewVector ==
    ASSUME NEW keep \in BOOLEAN, NEW compared \in BOOLEAN
    PROVE  /\ VectorOK(V!New(keep, compared)) /\ V!New(keep, compared).elements = <<>>
           /\ V!New(keep, compared).keep = keep /\ V!New(keep, compared).compared = compared
<1>1. <<>> \in Seq(Objects \cup {Null}) /\ Len(<<>>) = 0
  BY EmptySeq
<1> QED
  BY <1>1, VectorAssumption DEF V!New, V!Fits, VectorOK, VectorType

\* vector_add
LEMMA AddedIs ==
    ASSUME NEW v, VectorOK(v), NEW o \in Objects \cup {Null}
    PROVE  LET w == V!Added(v, o) IN
           /\ VectorOK(w) /\ w.elements = Append(v.elements, o)
           /\ w.keep = v.keep /\ w.compared = v.compared
<1> DEFINE w == V!Added(v, o)
           all == Append(v.elements, o)
           room == IF v.room = Len(v.elements) + 1 THEN 2 * v.room ELSE v.room
<1>1. /\ v.elements \in Seq(Objects \cup {Null}) /\ v.room \in Nat /\ Len(v.elements) \in Nat
      /\ v.keep \in BOOLEAN /\ v.compared \in BOOLEAN
      /\ Len(v.elements) < v.room
  BY VectorFields DEF VectorOK, V!Fits
<1>2. /\ v = [elements |-> v.elements, room |-> v.room, keep |-> v.keep, compared |-> v.compared]
  BY DEF VectorOK, VectorType
<1>3. all \in Seq(Objects \cup {Null}) /\ Len(all) = Len(v.elements) + 1
  BY <1>1, AppendProperties
<1>4. w = [elements |-> all, room |-> room, keep |-> v.keep, compared |-> v.compared]
  <2>1. w = [(IF v.room = Len(v.elements) + 1 THEN [v EXCEPT !.room = 2 * @] ELSE v)
               EXCEPT !.elements = Append(@, o)]
    BY DEF V!Added, V!Allocated
  <2>2. CASE v.room = Len(v.elements) + 1
    <3>1. [v EXCEPT !.room = 2 * @] = [elements |-> v.elements, room |-> room, keep |-> v.keep, compared |-> v.compared]
      BY <1>2, <2>2
    <3> HIDE DEF room, all, w
    <3>2. w = [[elements |-> v.elements, room |-> room, keep |-> v.keep, compared |-> v.compared]
                  EXCEPT !.elements = Append(@, o)]
      BY <2>1, <2>2, <3>1
    <3> QED
      BY <3>2 DEF all
  <2>3. CASE v.room # Len(v.elements) + 1
    <3>1. room = v.room
      BY <2>3
    <3>2. w = [v EXCEPT !.elements = Append(@, o)]
      BY <2>1, <2>3
    <3> HIDE DEF room, w
    <3> QED
      BY <1>2, <3>1, <3>2
  <2> QED
    BY <2>2, <2>3
<1>5. room \in Nat /\ Len(all) < room
  BY <1>1, <1>3
<1> HIDE DEF all, room, w
<1>6. w \in VectorType
  BY <1>1, <1>3, <1>4, <1>5 DEF VectorType
<1> QED
  BY <1>4, <1>5, <1>6 DEF w, all, VectorOK, V!Fits

\* vector_insert
LEMMA InsertedIs ==
    ASSUME NEW v, VectorOK(v), NEW o \in Objects, NEW i \in 0..Len(v.elements)
    PROVE  LET w == V!Inserted(v, o, i) IN
           /\ VectorOK(w)
           /\ \A q : Occurrences(q, w.elements)
                       = Occurrences(q, v.elements) + (IF o = q THEN 1 ELSE 0)
<1> DEFINE w == V!Inserted(v, o, i)
           all == SubSeq(v.elements, 1, i) \o <<o>> \o SubSeq(v.elements, i + 1, Len(v.elements))
           room == IF v.room <= Len(v.elements) + 1 THEN 2 * v.room ELSE v.room
<1>1. /\ v.elements \in Seq(Objects \cup {Null}) /\ v.room \in Nat /\ Len(v.elements) \in Nat
      /\ v.keep \in BOOLEAN /\ v.compared \in BOOLEAN
      /\ Len(v.elements) < v.room
  BY VectorFields DEF VectorOK, V!Fits
<1>2. /\ v = [elements |-> v.elements, room |-> v.room, keep |-> v.keep, compared |-> v.compared]
  BY DEF VectorOK, VectorType
<1>3. /\ all \in Seq(Objects \cup {Null}) /\ Len(all) = Len(v.elements) + 1
      /\ \A q : Occurrences(q, all) = Occurrences(q, v.elements) + (IF o = q THEN 1 ELSE 0)
  <2>5. PICK T : T = Objects \cup {Null}
    OBVIOUS
  <2>1. PICK s \in Seq(T) : s = v.elements /\ i \in 0..Len(s) /\ o \in T
    BY <1>1, <2>5
  <2> DEFINE t == With(s, i, o)
  <2>3. ASSUME NEW q
        PROVE  /\ t \in Seq(T) /\ Len(t) = Len(s) + 1
               /\ Occurrences(q, t) = Occurrences(q, s) + (IF o = q THEN 1 ELSE 0)
    <3>1. i \in 0..Len(s) /\ o \in T
      BY <2>1
    <3> QED
      BY <3>1, OccurrencesWith
  <2>4. all = t
    BY <2>1 DEF With
  <2> HIDE DEF t, all
  <2> QED
    BY <2>5, <2>1, <2>3, <2>4
<1>4. w = [elements |-> all, room |-> room, keep |-> v.keep, compared |-> v.compared]
  <2> DEFINE e == SubSeq(v.elements, 1, i) \o <<o>> \o SubSeq(v.elements, i + 1, Len(v.elements))
  <2>1. w = [(IF v.room <= Len(v.elements) + 1 THEN [v EXCEPT !.room = 2 * @] ELSE v)
               EXCEPT !.elements = SubSeq(@, 1, i) \o <<o>> \o SubSeq(@, i + 1, Len(@))]
    BY DEF V!Inserted, V!Allocated
  <2>2. CASE v.room <= Len(v.elements) + 1
    <3>1. [v EXCEPT !.room = 2 * @] = [elements |-> v.elements, room |-> room, keep |-> v.keep, compared |-> v.compared]
      BY <1>2, <2>2
    <3> HIDE DEF room, all, w
    <3>2. w = [[elements |-> v.elements, room |-> room, keep |-> v.keep, compared |-> v.compared]
                  EXCEPT !.elements = SubSeq(@, 1, i) \o <<o>> \o SubSeq(@, i + 1, Len(@))]
      BY <2>1, <2>2, <3>1
    <3> QED
      BY <3>2 DEF all
  <2>3. CASE ~(v.room <= Len(v.elements) + 1)
    <3>1. room = v.room
      BY <2>3
    <3>2. w = [v EXCEPT !.elements = SubSeq(@, 1, i) \o <<o>> \o SubSeq(@, i + 1, Len(@))]
      BY <2>1, <2>3
    <3> HIDE DEF room, w
    <3> QED
      BY <1>2, <3>1, <3>2
  <2> QED
    BY <2>2, <2>3
<1>5. room \in Nat /\ Len(all) < room
  <2> HIDE DEF all
  <2> QED
    BY <1>1, <1>3
<1> HIDE DEF all, room, w
<1>6. w \in VectorType
  BY <1>1, <1>3, <1>4, <1>5 DEF VectorType
<1> QED
  BY <1>3, <1>4, <1>5, <1>6 DEF w, VectorOK, V!Fits

\* vector_remove
LEMMA RemovedIs ==
    ASSUME NEW v, VectorOK(v), NEW i \in 1..Len(v.elements)
    PROVE  LET w == V!Removed(v, i - 1) IN
           /\ VectorOK(w) /\ w.keep = v.keep /\ w.compared = v.compared
           /\ ~v.keep => w.elements = Without(v.elements, i)
           /\ \A q \in Objects :
                Occurrences(q, v.elements)
                  = Occurrences(q, w.elements) + (IF v.elements[i] = q THEN 1 ELSE 0)
<1> DEFINE w == V!Removed(v, i - 1)
           s == v.elements
           all == IF v.keep THEN [s EXCEPT ![i] = Null] ELSE Without(s, i)
           T == Objects \cup {Null}
<1>1. /\ s \in Seq(T) /\ v.room \in Nat /\ Len(s) \in Nat
      /\ v.keep \in BOOLEAN /\ v.compared \in BOOLEAN
      /\ Len(s) < v.room
  BY VectorFields DEF VectorOK, V!Fits
<1>2. /\ v = [elements |-> s, room |-> v.room, keep |-> v.keep, compared |-> v.compared]
  BY DEF VectorOK, VectorType
<1>3. w = [elements |-> all, room |-> v.room, keep |-> v.keep, compared |-> v.compared]
  <2>1. (i - 1) + 1 = i /\ (i - 1) + 2 = i + 1
    OBVIOUS
  <2>2. w = [v EXCEPT !.elements = all]
    BY <2>1 DEF V!Removed, Without
  <2> HIDE DEF all, w
  <2> QED
    BY <1>2, <2>2
<1>4. /\ all \in Seq(T) /\ Len(all) <= Len(s)
      /\ \A q \in Objects : Occurrences(q, s) = Occurrences(q, all) + (IF s[i] = q THEN 1 ELSE 0)
  <2>1. CASE v.keep
    <3> DEFINE t == Put(s, i, Null)
    <3>1. t \in Seq(T) /\ Len(t) = Len(s)
      BY <1>1, ExceptSeq DEF Put
    <3>2. ASSUME NEW q \in Objects
          PROVE  Occurrences(q, s) = Occurrences(q, t) + (IF s[i] = q THEN 1 ELSE 0)
      <4>1. Occurrences(q, t) + (IF s[i] = q THEN 1 ELSE 0) = Occurrences(q, s) + (IF Null = q THEN 1 ELSE 0)
        BY <1>1, OccurrencesPut
      <4>2. Null # q /\ Occurrences(q, s) \in Nat
        BY <1>1, MemoryAssumption, OccurrencesInSeq
      <4> QED
        BY <4>1, <4>2
    <3>3. all = t
      BY <2>1 DEF Put
    <3> HIDE DEF t, all
    <3> QED
      BY <1>1, <3>1, <3>2, <3>3
  <2>2. CASE ~v.keep
    <3>1. PICK e : e = s /\ e \in Seq(T) /\ Len(e) \in Nat /\ i \in 1..Len(e)
      BY <1>1
    <3>2. ASSUME NEW q
          PROVE  /\ Without(e, i) \in Seq(T)
                 /\ Occurrences(q, e) = Occurrences(q, Without(e, i)) + (IF e[i] = q THEN 1 ELSE 0)
      BY <3>1, OccurrencesWithout
    <3>3. Len(Without(e, i)) <= Len(e)
      <4> DEFINE a == SubSeq(e, 1, i - 1)
                 b == SubSeq(e, i + 1, Len(e))
      <4>1. \A j \in 1..Len(e) : e[j] \in T
        BY <3>1, ElementOfSeq
      <4>2. a \in Seq(T) /\ Len(a) = i - 1 /\ b \in Seq(T) /\ Len(b) = Len(e) - i
        BY <3>1, <4>1, SubSeqProperties
      <4> HIDE DEF a, b
      <4>3. Len(a \o b) = Len(a) + Len(b)
        BY <4>2, ConcatProperties
      <4>4. Len(a \o b) <= Len(e)
        BY <3>1, <4>2, <4>3
      <4> QED
        BY <4>4 DEF a, b, Without
    <3>4. all = Without(e, i)
      BY <2>2, <3>1
    <3> HIDE DEF all
    <3> QED
      BY <3>1, <3>2, <3>3, <3>4
  <2> QED
    BY <1>1, <2>1, <2>2
<1>5. ~v.keep => all = Without(s, i)
  OBVIOUS
<1> HIDE DEF all, w, s
<1>6. w \in VectorType
  BY <1>1, <1>3, <1>4 DEF VectorType
<1>7. V!Fits(w)
  <2>1. Len(all) \in Nat
    BY <1>4, LenProperties
  <2>2. Len(all) < v.room
    BY <1>1, <1>4, <2>1
  <2> QED
    BY <1>3, <2>2 DEF V!Fits
<1> QED
  BY <1>3, <1>4, <1>5, <1>6, <1>7 DEF w, s, VectorOK

\* The values of a recursive function, one by one.
Iterates(f, first, G, N) == f[0] = first /\ \A n \in 1..N : f[n] = G[n][f[n - 1]]

\* The same as IterationExists, place by place.
LEMMA IterationIs ==
    ASSUME NEW T, NEW first \in T, NEW N \in Nat, NEW G \in [1..N -> [T -> T]]
    PROVE  \E f \in [0..N -> T] : Iterates(f, first, G, N)
<1>1. PICK f \in [0..N -> T] : Follows(f, first, G, N)
  BY IterationExists
<1>2. \A n \in 0..N : f[n] = IF n = 0 THEN first ELSE G[n][f[n - 1]]
  BY <1>1 DEF Follows
<1>3. 0 \in 0..N /\ \A n \in 1..N : n \in 0..N /\ n # 0
  OBVIOUS
<1> QED
  BY <1>2, <1>3 DEF Iterates

GoodVectors == {v \in VectorType : VectorOK(v)}

\* vector_extend
LEMMA ExtendedIs ==
    ASSUME NEW v, VectorOK(v), NEW w, VectorOK(w)
    PROVE  LET x == V!Extended(v, w) IN
           /\ VectorOK(x)
           /\ \A q : Occurrences(q, x.elements) = Occurrences(q, v.elements) + Occurrences(q, w.elements)
<1> DEFINE N == Len(w.elements)
           Step(f) == [n \in 0..N |-> IF n = 0 THEN v ELSE V!Added(f[n - 1], w.elements[n])]
           u == CHOOSE f : f = Step(f)
           G == [n \in 1..N |-> [x \in GoodVectors |-> V!Added(x, w.elements[n])]]
           T == Objects \cup {Null}
<1>1. V!Extended(v, w) = u[N]
  BY DEF V!Extended
<1>2. /\ N \in Nat /\ w.elements \in Seq(T) /\ \A n \in 1..N : w.elements[n] \in T
      /\ v \in VectorType /\ v.elements \in Seq(T)
  BY VectorFields DEF VectorOK
<1> HIDE DEF N
<1>3. \A x \in GoodVectors, n \in 1..N : V!Added(x, w.elements[n]) \in GoodVectors
  <2> SUFFICES ASSUME NEW x \in GoodVectors, NEW o \in T PROVE V!Added(x, o) \in GoodVectors
    BY <1>2
  <2>1. VectorOK(x)
    BY DEF GoodVectors
  <2>2. VectorOK(V!Added(x, o))
    BY <2>1, AddedIs
  <2> QED
    BY <2>2 DEF GoodVectors, VectorOK
<1>4. G \in [1..N -> [GoodVectors -> GoodVectors]] /\ v \in GoodVectors
  BY <1>3 DEF GoodVectors, VectorOK
<1>5. PICK f \in [0..N -> GoodVectors] : Iterates(f, v, G, N)
  <2>1. N \in Nat /\ v \in GoodVectors /\ G \in [1..N -> [GoodVectors -> GoodVectors]]
    BY <1>2, <1>4
  <2> HIDE DEF G
  <2> QED
    BY <2>1, IterationIs
<1>6. f[0] = v /\ \A n \in 1..N : f[n] = V!Added(f[n - 1], w.elements[n])
  <2>1. \A n \in 1..N : n - 1 \in 0..N
    BY <1>2
  <2> QED
    BY <1>5, <2>1 DEF Iterates
<1>7. f = Step(f)
  <2>1. f = [n \in 0..N |-> f[n]]
    OBVIOUS
  <2>2. \A n \in 0..N : f[n] = IF n = 0 THEN v ELSE V!Added(f[n - 1], w.elements[n])
    <3>1. \A n \in 0..N : n = 0 \/ n \in 1..N
      BY <1>2
    <3> QED
      BY <1>6, <3>1
  <2> QED
    BY <2>1, <2>2
<1>8. u = Step(u)
  BY <1>7
<1> HIDE DEF u, G
<1>9. u[0] = v /\ \A n \in 1..N : u[n] = V!Added(u[n - 1], w.elements[n])
  <2>1. \A n \in 0..N : u[n] = IF n = 0 THEN v ELSE V!Added(u[n - 1], w.elements[n])
    BY <1>8
  <2>2. 0 \in 0..N /\ \A n \in 1..N : n \in 0..N /\ n # 0
    BY <1>2
  <2> QED
    BY <2>1, <2>2
<1> DEFINE part(n) == SubSeq(w.elements, 1, n)
           Is(x, n) == /\ VectorOK(x)
                       /\ \A q : Occurrences(q, x.elements)
                                   = Occurrences(q, v.elements) + Occurrences(q, part(n))
           S == {n \in 0..N : Is(u[n], n)}
<1>10. 0 \in S
  <2>1. part(0) = <<>>
    BY SubSeqEmpty
  <2>2. \A q : Occurrences(q, v.elements) \in Nat
    BY <1>2, OccurrencesInSeq
  <2> HIDE DEF part
  <2>3. Is(v, 0)
    BY <2>1, <2>2, OccurrencesOfNone
  <2> HIDE DEF Is
  <2> QED
    BY <1>2, <1>9, <2>3
<1>11. ASSUME NEW n \in 1..N, n - 1 \in S PROVE n \in S
  <2>1. PICK m \in Nat : m = n - 1 /\ n = m + 1
    OBVIOUS
  <2> DEFINE x == u[m]
             o == w.elements[n]
  <2>2. o \in T
    BY <1>2
  <2> HIDE DEF Is
  <2>3. Is(x, m)
    BY <1>11, <2>1
  <2>4. u[n] = V!Added(x, o)
    BY <1>9, <2>1
  <2>5. part(n) = Append(part(m), o) /\ part(m) \in Seq(T)
    <3> DEFINE e == w.elements
    <3>1. e \in Seq(T) /\ 1 \in 1..n /\ n \in 1..Len(e) /\ 1 \in 1..Len(e) /\ n \in 1..Len(e)
      BY <1>2 DEF N
    <3> HIDE DEF e
    <3>2. SubSeq(e, 1, n) = Append(SubSeq(e, 1, n - 1), e[n])
      BY <3>1, SubSeqRecursiveSecond
    <3>3. \A j \in 1..Len(e) : e[j] \in T
      BY <3>1, ElementOfSeq
    <3>4. SubSeq(e, 1, m) \in Seq(T)
      <4>1. \A i \in 1..m : e[i] \in T
        BY <2>1, <3>1, <3>3
      <4> QED
        BY <4>1, SubSeqProperties
    <3> QED
      BY <2>1, <3>2, <3>4 DEF e
  <2> HIDE DEF x, o
  <2>6. VectorOK(x) /\ \A q : Occurrences(q, x.elements)
                                = Occurrences(q, v.elements) + Occurrences(q, part(m))
    BY <2>3 DEF Is
  <2>7. x.elements \in Seq(T)
    BY <2>6, VectorFields DEF VectorOK
  <2> DEFINE y == V!Added(x, o)
  <2>8. VectorOK(y) /\ y.elements = Append(x.elements, o)
    BY <2>6, <2>2, AddedIs
  <2> HIDE DEF y, part
  <2>9. ASSUME NEW q
        PROVE  Occurrences(q, y.elements) = Occurrences(q, v.elements) + Occurrences(q, part(n))
    <3>1. PICK s, p : s = x.elements /\ p = part(m) /\ s \in Seq(T) /\ p \in Seq(T)
      BY <2>5, <2>7
    <3>2. /\ Occurrences(q, Append(s, o)) = Occurrences(q, s) + (IF o = q THEN 1 ELSE 0)
          /\ Occurrences(q, Append(p, o)) = Occurrences(q, p) + (IF o = q THEN 1 ELSE 0)
      BY <2>2, <3>1, OccurrencesAppended, ZenonT(60)
    <3>3. Occurrences(q, v.elements) \in Nat /\ Occurrences(q, p) \in Nat
      BY <1>2, <3>1, OccurrencesInSeq
    <3> QED
      BY <2>5, <2>6, <2>8, <3>1, <3>2, <3>3
  <2>10. Is(y, n)
    BY <2>8, <2>9 DEF Is
  <2> QED
    BY <1>2, <2>4, <2>10 DEF y
<1> HIDE DEF S, Is
<1>12. 0..N \subseteq S
  BY <1>2, <1>10, <1>11, InductionUpTo
<1>13. Is(u[N], N)
  <2>1. N \in S
    BY <1>2, <1>12
  <2> QED
    BY <2>1 DEF S
<1>14. part(N) = w.elements
  BY <1>2, SubSeqFull DEF N
<1> QED
  BY <1>1, <1>13, <1>14 DEF Is

----------------------------------------------------------------------------
(* Sets *)

SetOK(s) == /\ VectorOK(s) /\ s.elements \in Seq(Objects)
            /\ s.keep = FALSE /\ V!Distinct(s)

\* The comparison of a set is an equivalence, the same for all with its
\* cmp_func.
Alike(compared, a, b) == IF compared THEN Class[a] = Class[b] ELSE a = b

\* The comparison of a set depends on its cmp_func alone.
LEMMA EqualIs ==
    \A s, a, b : V!Equal(s, a, b) <=> Alike(s.compared, a, b)
BY DEF V!Equal, Same, Alike

\* It is an equivalence.
LEMMA AlikeIs ==
    /\ \A c, a : Alike(c, a, a)
    /\ \A c, a, b : Alike(c, a, b) => Alike(c, b, a)
    /\ \A c, a, b, d : Alike(c, a, b) /\ Alike(c, b, d) => Alike(c, a, d)
BY DEF Alike

\* A set is a vector without gaps that has one element of each kind.
LEMMA SetFields ==
    ASSUME NEW s, SetOK(s)
    PROVE  /\ s.elements \in Seq(Objects) /\ Len(s.elements) \in Nat
           /\ DOMAIN s.elements = 1..Len(s.elements) /\ s.compared \in BOOLEAN
           /\ \A i \in 1..Len(s.elements) : s.elements[i] \in Objects
           /\ \A i, j \in 1..Len(s.elements) :
                Alike(s.compared, s.elements[i], s.elements[j]) => i = j
           /\ \A o : V!Inside(s, o) <=> \E i \in 1..Len(s.elements) : Alike(s.compared, o, s.elements[i])
<1>1. s.elements \in Seq(Objects) /\ V!Distinct(s) /\ s.compared \in BOOLEAN
  BY VectorFields DEF SetOK, VectorOK
<1>2. /\ Len(s.elements) \in Nat /\ DOMAIN s.elements = 1..Len(s.elements)
      /\ \A i \in 1..Len(s.elements) : s.elements[i] \in Objects
  BY <1>1, LenProperties, ElementOfSeq
<1>3. \A i, j \in 1..Len(s.elements) : Alike(s.compared, s.elements[i], s.elements[j]) => i = j
  BY <1>1, <1>2, EqualIs DEF V!Distinct
<1>4. \A o : V!Inside(s, o) <=> \E i \in 1..Len(s.elements) : Alike(s.compared, o, s.elements[i])
  BY <1>2, EqualIs DEF V!Inside
<1> QED
  BY <1>1, <1>2, <1>3, <1>4

\* set_new makes an empty set.
LEMMA NewSet ==
    ASSUME NEW compared \in BOOLEAN
    PROVE  /\ SetOK(V!New(FALSE, compared)) /\ V!New(FALSE, compared).elements = <<>>
           /\ V!New(FALSE, compared).compared = compared
           /\ \A o : ~V!Inside(V!New(FALSE, compared), o)
<1> DEFINE s == V!New(FALSE, compared)
<1>1. VectorOK(s) /\ s.elements = <<>> /\ s.keep = FALSE /\ s.compared = compared
  BY NewVector
<1> HIDE DEF s
<1>2. s.elements \in Seq(Objects) /\ DOMAIN s.elements = {}
  BY <1>1, EmptySeq
<1>3. V!Distinct(s) /\ \A o : ~V!Inside(s, o)
  BY <1>2 DEF V!Distinct, V!Inside
<1> QED
  BY <1>1, <1>2, <1>3 DEF s, SetOK

\* set_add
LEMMA SetAddedIs ==
    ASSUME NEW s, SetOK(s), NEW o \in Objects
    PROVE  LET r == V!SetAdded(s, o) IN
           /\ SetOK(r) /\ r.compared = s.compared
           /\ r.elements = IF V!Inside(s, o) THEN s.elements ELSE Append(s.elements, o)
           /\ \A q : V!Inside(r, q) <=> V!Inside(s, q) \/ Alike(s.compared, q, o)
<1>1. CASE V!Inside(s, o)
  <2>1. V!SetAdded(s, o) = s
    BY <1>1 DEF V!SetAdded
  <2>2. ASSUME NEW q, Alike(s.compared, q, o) PROVE V!Inside(s, q)
    <3>1. PICK i \in 1..Len(s.elements) : Alike(s.compared, o, s.elements[i])
      BY <1>1, SetFields
    <3>2. Alike(s.compared, q, s.elements[i])
      BY <2>2, <3>1, AlikeIs
    <3> QED
      BY <3>2, SetFields
  <2> QED
    BY <1>1, <2>1, <2>2
<1>2. CASE ~V!Inside(s, o)
  <2> DEFINE r == V!Added(s, o)
             c == s.compared
             n == Len(s.elements)
  <2>1. V!SetAdded(s, o) = r
    BY <1>2 DEF V!SetAdded
  <2>2. VectorOK(r) /\ r.elements = Append(s.elements, o) /\ r.keep = FALSE /\ r.compared = c
    BY AddedIs DEF SetOK
  <2> HIDE DEF r
  <2>3. /\ s.elements \in Seq(Objects) /\ n \in Nat
        /\ \A i, j \in 1..n : Alike(c, s.elements[i], s.elements[j]) => i = j
        /\ \A q : V!Inside(s, q) <=> \E i \in 1..n : Alike(c, q, s.elements[i])
    BY SetFields
  <2>4. /\ r.elements \in Seq(Objects) /\ Len(r.elements) = n + 1 /\ DOMAIN r.elements = 1..(n + 1)
        /\ r.elements[n + 1] = o /\ \A i \in 1..n : r.elements[i] = s.elements[i]
    BY <2>2, <2>3, AppendProperties, LenProperties
  <2> HIDE DEF n, c
  <2>5. \A i \in 1..(n + 1) : i = n + 1 \/ i \in 1..n
    BY <2>3
  <2>6. \A i \in 1..n : ~Alike(c, o, s.elements[i]) /\ ~Alike(c, s.elements[i], o)
    BY <1>2, <2>3, AlikeIs
  <2>7. \A i, j \in 1..(n + 1) : Alike(c, r.elements[i], r.elements[j]) => i = j
    <3> SUFFICES ASSUME NEW i \in 1..(n + 1), NEW j \in 1..(n + 1),
                        Alike(c, r.elements[i], r.elements[j])
                 PROVE  i = j
      OBVIOUS
    <3>1. CASE i \in 1..n /\ j \in 1..n
      BY <2>3, <2>4, <3>1
    <3>2. CASE i \in 1..n /\ j = n + 1
      BY <2>4, <2>6, <3>2
    <3>3. CASE i = n + 1 /\ j \in 1..n
      BY <2>4, <2>6, <3>3
    <3>4. CASE i = n + 1 /\ j = n + 1
      BY <3>4
    <3> QED
      BY <2>5, <3>1, <3>2, <3>3, <3>4
  <2>8. V!Distinct(r)
    BY <2>2, <2>4, <2>7, EqualIs DEF V!Distinct
  <2>9. \A q : V!Inside(r, q) <=> \E i \in 1..(n + 1) : Alike(c, q, r.elements[i])
    BY <2>2, <2>4, EqualIs DEF V!Inside
  <2>10. \A q : V!Inside(r, q) <=> V!Inside(s, q) \/ Alike(c, q, o)
    <3> SUFFICES ASSUME NEW q
                 PROVE  (\E i \in 1..(n + 1) : Alike(c, q, r.elements[i]))
                          <=> (\E i \in 1..n : Alike(c, q, s.elements[i])) \/ Alike(c, q, o)
      BY <2>3, <2>9
    <3>1. n + 1 \in 1..(n + 1) /\ \A i \in 1..n : i \in 1..(n + 1)
      BY <2>3
    <3> QED
      BY <2>4, <2>5, <3>1
  <2> QED
    BY <1>2, <2>1, <2>2, <2>4, <2>8, <2>10 DEF c, SetOK
<1> QED
  BY <1>1, <1>2

\* set_remove
LEMMA SetRemovedIs ==
    ASSUME NEW s, SetOK(s), NEW o, V!Inside(s, o)
    PROVE  LET i == V!IndexOf(s, o) + 1 IN
           /\ V!IndexOf(s, o) \in Nat /\ i \in 1..Len(s.elements)
           /\ SetOK(V!Removed(s, V!IndexOf(s, o)))
           /\ \A q \in Objects :
                Occurrences(q, s.elements)
                  = Occurrences(q, V!Removed(s, V!IndexOf(s, o)).elements)
                      + (IF s.elements[i] = q THEN 1 ELSE 0)
<1> DEFINE n == Len(s.elements)
           c == s.compared
           P(i) == /\ V!Equal(s, o, s.elements[i])
                   /\ \A j \in 1..(i - 1) : ~V!Equal(s, o, s.elements[j])
<1>1. n \in Nat /\ DOMAIN s.elements = 1..n /\ s.elements \in Seq(Objects)
  BY SetFields
<1>2. \E i \in DOMAIN s.elements : P(i)
  <2> DEFINE H == {i \in 1..n : V!Equal(s, o, s.elements[i])}
  <2>1. H \in SUBSET Nat /\ H # {}
    BY <1>1 DEF V!Inside
  <2> HIDE DEF n
  <2>2. PICK i \in H : \A j \in H : i <= j
    <3> HIDE DEF H
    <3> QED
      BY <2>1, HasLeast
  <2>3. \A j \in 1..(i - 1) : j \in 1..n /\ ~(i <= j)
    BY <1>1
  <2> QED
    BY <1>1, <2>2, <2>3
<1>3. PICK h \in 1..n : h = V!IndexOf(s, o) + 1 /\ V!IndexOf(s, o) = h - 1
  <2>1. V!IndexOf(s, o) = (CHOOSE i \in DOMAIN s.elements : P(i)) - 1
    BY DEF V!IndexOf
  <2>2. PICK h : h = CHOOSE i \in DOMAIN s.elements : P(i)
    OBVIOUS
  <2>3. h \in DOMAIN s.elements
    <3> HIDE DEF P
    <3> QED
      BY <1>2, <2>2
  <2>4. h \in 1..n /\ h \in Int
    BY <1>1, <2>3
  <2>5. V!IndexOf(s, o) = h - 1
    BY <2>1, <2>2
  <2> QED
    BY <2>4, <2>5
<1> DEFINE r == V!Removed(s, h - 1)
<1>4. /\ VectorOK(r) /\ r.keep = FALSE /\ r.compared = c
      /\ r.elements = Without(s.elements, h)
      /\ \A q \in Objects :
           Occurrences(q, s.elements) = Occurrences(q, r.elements) + (IF s.elements[h] = q THEN 1 ELSE 0)
  <2>1. VectorOK(s) /\ s.keep = FALSE
    BY DEF SetOK
  <2> QED
    BY <2>1, RemovedIs
<1> HIDE DEF r
<1>5. /\ r.elements \in Seq(Objects) /\ Len(r.elements) = n - 1
      /\ \A j \in 1..(n - 1) : r.elements[j] = s.elements[IF j < h THEN j ELSE j + 1]
  <2> DEFINE e == s.elements
             a == SubSeq(e, 1, h - 1)
             b == SubSeq(e, h + 1, n)
  <2>1. \A j \in 1..n : e[j] \in Objects
    BY SetFields
  <2> HIDE DEF n, e
  <2>2. a \in Seq(Objects) /\ Len(a) = h - 1 /\ \A j \in 1..(h - 1) : a[j] = e[j]
    BY <1>1, <2>1, SubSeqProperties
  <2>3. b \in Seq(Objects) /\ Len(b) = n - h /\ \A j \in 1..(n - h) : b[j] = e[h + j]
    BY <1>1, <2>1, SubSeqProperties
  <2>4. r.elements = a \o b
    BY <1>4 DEF Without, n, e
  <2> DEFINE x == a \o b
  <2> HIDE DEF a, b
  <2>5. /\ x \in Seq(Objects) /\ Len(x) = Len(a) + Len(b)
        /\ \A j \in 1..(Len(a) + Len(b)) : x[j] = IF j <= Len(a) THEN a[j] ELSE b[j - Len(a)]
    BY <2>2, <2>3, ConcatProperties
  <2>8. r.elements = x
    BY <2>4
  <2> HIDE DEF x
  <2>6. Len(a) + Len(b) = n - 1
    BY <1>1, <2>2, <2>3
  <2>7. ASSUME NEW j \in 1..(n - 1) PROVE r.elements[j] = e[IF j < h THEN j ELSE j + 1]
    <3>1. CASE j < h
      <4>1. j \in 1..(h - 1) /\ j <= Len(a) /\ j \in 1..(Len(a) + Len(b))
        BY <1>1, <2>2, <2>6, <3>1
      <4>2. x[j] = a[j]
        BY <2>5, <4>1
      <4> QED
        BY <2>2, <2>8, <3>1, <4>1, <4>2
    <3>2. CASE ~(j < h)
      <4>1. j - (h - 1) \in 1..(n - h) /\ h + (j - (h - 1)) = j + 1 /\ ~(j <= h - 1)
        BY <1>1, <3>2
      <4>2. x[j] = b[j - (h - 1)]
        BY <2>2, <2>5, <2>6, <4>1
      <4> QED
        BY <2>3, <2>8, <3>2, <4>1, <4>2
    <3> QED
      BY <3>1, <3>2
  <2> QED
    BY <2>5, <2>6, <2>7, <2>8 DEF e
<1>6. V!Distinct(r)
  <2> SUFFICES ASSUME NEW j \in 1..(n - 1), NEW k \in 1..(n - 1),
                      Alike(c, r.elements[j], r.elements[k])
               PROVE  j = k
    BY <1>1, <1>4, <1>5, EqualIs, LenProperties DEF V!Distinct
  <2> DEFINE at(i) == IF i < h THEN i ELSE i + 1
  <2>1. at(j) \in 1..n /\ at(k) \in 1..n /\ r.elements[j] = s.elements[at(j)] /\ r.elements[k] = s.elements[at(k)]
    BY <1>1, <1>5
  <2>2. at(j) = at(k) => j = k
    OBVIOUS
  <2> HIDE DEF at
  <2>3. at(j) = at(k)
    BY <2>1, SetFields
  <2> QED
    BY <2>2, <2>3
<1>7. SetOK(r)
  BY <1>4, <1>5, <1>6 DEF SetOK
<1> QED
  BY <1>3, <1>4, <1>7 DEF r

GoodSets == {v \in VectorType : SetOK(v)}

\* The elements of x begin with those of s.
Begins(s, x) == /\ Len(s.elements) <= Len(x.elements)
                /\ \A i \in 1..Len(s.elements) : x.elements[i] = s.elements[i]

\* set_add leaves the elements that are there, in their places.
LEMMA BeginsAdded ==
    ASSUME NEW s, SetOK(s), NEW x, SetOK(x), Begins(s, x), NEW o \in Objects
    PROVE  Begins(s, V!SetAdded(x, o))
<1> DEFINE r == V!SetAdded(x, o)
<1>1. r.elements = IF V!Inside(x, o) THEN x.elements ELSE Append(x.elements, o)
  BY SetAddedIs
<1> HIDE DEF r
<1>2. CASE V!Inside(x, o)
  BY <1>1, <1>2 DEF Begins, r
<1>3. CASE ~V!Inside(x, o)
  <2>1. x.elements \in Seq(Objects) /\ Len(x.elements) \in Nat /\ Len(s.elements) \in Nat
    BY SetFields
  <2>2. r.elements = Append(x.elements, o)
    BY <1>1, <1>3
  <2>3. Len(r.elements) = Len(x.elements) + 1 /\ \A i \in 1..Len(x.elements) : r.elements[i] = x.elements[i]
    BY <2>1, <2>2, AppendProperties
  <2>4. Len(s.elements) <= Len(r.elements)
    BY <2>1, <2>3 DEF Begins
  <2>5. ASSUME NEW i \in 1..Len(s.elements) PROVE r.elements[i] = s.elements[i]
    <3>1. i \in 1..Len(x.elements)
      BY <2>1 DEF Begins
    <3> QED
      BY <2>3, <3>1 DEF Begins
  <2> QED
    BY <2>4, <2>5 DEF Begins, r
<1> QED
  BY <1>2, <1>3

\* set_add of the elements of a sequence that are wanted
LEMMA AllAddedIs ==
    ASSUME NEW s, SetOK(s), NEW objects \in Seq(Objects), NEW wanted
    PROVE  LET r == V!AllAdded(s, objects, wanted) IN
           /\ SetOK(r) /\ r.compared = s.compared /\ Begins(s, r)
           /\ \A q : V!Inside(r, q) <=>
                V!Inside(s, q) \/ \E k \in 1..Len(objects) :
                                    objects[k] \in wanted /\ Alike(s.compared, q, objects[k])
<1> DEFINE N == Len(objects)
           One(x, n) == IF objects[n] \in wanted THEN V!SetAdded(x, objects[n]) ELSE x
           Step(f) == [n \in 0..N |-> IF n = 0 THEN s
                                      ELSE IF objects[n] \in wanted THEN V!SetAdded(f[n - 1], objects[n])
                                      ELSE f[n - 1]]
           u == CHOOSE f : f = Step(f)
           G == [n \in 1..N |-> [x \in GoodSets |-> One(x, n)]]
           c == s.compared
<1>1. V!AllAdded(s, objects, wanted) = u[N]
  BY DEF V!AllAdded
<1>2. /\ N \in Nat /\ \A n \in 1..N : objects[n] \in Objects
      /\ s \in GoodSets
  BY LenProperties, ElementOfSeq DEF GoodSets, SetOK, VectorOK
<1> HIDE DEF N
<1>3. \A x \in GoodSets, n \in 1..N : One(x, n) \in GoodSets
  <2> SUFFICES ASSUME NEW x \in GoodSets, NEW o \in Objects PROVE V!SetAdded(x, o) \in GoodSets
    BY <1>2
  <2>1. SetOK(x)
    BY DEF GoodSets
  <2>2. SetOK(V!SetAdded(x, o))
    BY <2>1, SetAddedIs
  <2> QED
    BY <2>2 DEF GoodSets, SetOK, VectorOK
<1>4. G \in [1..N -> [GoodSets -> GoodSets]]
  <2> HIDE DEF One
  <2> QED
    BY <1>3
<1>5. PICK f \in [0..N -> GoodSets] : Iterates(f, s, G, N)
  <2> HIDE DEF G
  <2> QED
    BY <1>2, <1>4, IterationIs
<1>6. f[0] = s /\ \A n \in 1..N : f[n] = One(f[n - 1], n)
  <2>1. \A n \in 1..N : n - 1 \in 0..N
    BY <1>2
  <2> HIDE DEF One
  <2> QED
    BY <1>5, <2>1 DEF Iterates
<1>7. f = Step(f)
  <2>1. f = [n \in 0..N |-> f[n]]
    OBVIOUS
  <2>2. \A n \in 0..N : f[n] = IF n = 0 THEN s ELSE One(f[n - 1], n)
    <3>1. \A n \in 0..N : n = 0 \/ n \in 1..N
      BY <1>2
    <3> HIDE DEF One
    <3> QED
      BY <1>6, <3>1
  <2> QED
    BY <2>1, <2>2
<1>8. u = Step(u)
  BY <1>7
<1> HIDE DEF u, G
<1>9. u[0] = s /\ \A n \in 1..N : u[n] = One(u[n - 1], n)
  <2>1. \A n \in 0..N : u[n] = IF n = 0 THEN s ELSE One(u[n - 1], n)
    BY <1>8
  <2>2. 0 \in 0..N /\ \A n \in 1..N : n \in 0..N /\ n # 0
    BY <1>2
  <2> HIDE DEF One
  <2> QED
    BY <2>1, <2>2
<1> DEFINE From(q, n) == \E k \in 1..n : objects[k] \in wanted /\ Alike(c, q, objects[k])
           Is(x, n) == /\ SetOK(x) /\ x.compared = c /\ Begins(s, x)
                       /\ \A q : V!Inside(x, q) <=> V!Inside(s, q) \/ From(q, n)
           S == {n \in 0..N : Is(u[n], n)}
<1>10. 0 \in S
  <2>1. \A q : ~From(q, 0)
    OBVIOUS
  <2>2. Begins(s, s)
    BY SetFields DEF Begins
  <2> HIDE DEF From
  <2>3. Is(s, 0)
    BY <2>1, <2>2
  <2> HIDE DEF Is
  <2> QED
    BY <1>2, <1>9, <2>3
<1>11. ASSUME NEW n \in 1..N, n - 1 \in S PROVE n \in S
  <2>1. PICK m \in Nat : m = n - 1 /\ n = m + 1
    OBVIOUS
  <2> DEFINE x == u[m]
             o == objects[n]
  <2>2. o \in Objects
    BY <1>2
  <2> HIDE DEF Is
  <2>3. Is(x, m)
    BY <1>11, <2>1
  <2>4. u[n] = IF o \in wanted THEN V!SetAdded(x, o) ELSE x
    BY <1>9, <2>1
  <2>5. \A q : From(q, n) <=> From(q, m) \/ (o \in wanted /\ Alike(c, q, o))
    <3>1. n \in 1..n /\ \A k \in 1..n : k = n \/ k \in 1..m
      BY <2>1
    <3>2. \A k \in 1..m : k \in 1..n
      BY <2>1
    <3> QED
      BY <3>1, <3>2
  <2> HIDE DEF x, o, c, From
  <2>6. SetOK(x) /\ x.compared = c /\ Begins(s, x) /\ \A q : V!Inside(x, q) <=> V!Inside(s, q) \/ From(q, m)
    BY <2>3 DEF Is
  <2>7. CASE o \in wanted
    <3> DEFINE y == V!SetAdded(x, o)
    <3>1. SetOK(y) /\ y.compared = c /\ \A q : V!Inside(y, q) <=> V!Inside(x, q) \/ Alike(c, q, o)
      BY <2>2, <2>6, SetAddedIs
    <3>2. Begins(s, y)
      BY <2>2, <2>6, BeginsAdded
    <3> HIDE DEF y
    <3>3. Is(y, n)
      BY <2>5, <2>6, <2>7, <3>1, <3>2 DEF Is
    <3> QED
      BY <1>2, <2>4, <2>7, <3>3 DEF y
  <2>8. CASE o \notin wanted
    <3>1. Is(x, n)
      BY <2>5, <2>6, <2>8 DEF Is
    <3> QED
      BY <1>2, <2>4, <2>8, <3>1
  <2> QED
    BY <2>7, <2>8
<1> HIDE DEF S, Is
<1>12. 0..N \subseteq S
  BY <1>2, <1>10, <1>11, InductionUpTo
<1>13. Is(u[N], N)
  <2>1. N \in S
    BY <1>2, <1>12
  <2> QED
    BY <2>1 DEF S
<1> QED
  BY <1>1, <1>13 DEF Is, From, N, c

----------------------------------------------------------------------------
(* The operations on sets of one comparison *)

\* set_union, set_dup and set_intersect make sets, with the elements that
\* these operations have on sets; set_union adds behind what is there.
LEMMA OperationsAre ==
    ASSUME NEW s, SetOK(s), NEW t, SetOK(t), s.compared = t.compared
    PROVE  /\ SetOK(V!Union(s, t)) /\ V!Union(s, t).compared = s.compared /\ Begins(s, V!Union(s, t))
           /\ \A q : V!Inside(V!Union(s, t), q) <=> V!Inside(s, q) \/ V!Inside(t, q)
           /\ SetOK(V!Dup(s)) /\ \A q : V!Inside(V!Dup(s), q) <=> V!Inside(s, q)
           /\ SetOK(V!Intersection(s, t))
           /\ \A q : V!Inside(V!Intersection(s, t), q) <=> V!Inside(s, q) /\ V!Inside(t, q)
<1> DEFINE c == s.compared
           new == V!New(FALSE, c)
<1>1. c \in BOOLEAN
  BY SetFields
<1>2. SetOK(new) /\ new.compared = c /\ \A q : ~V!Inside(new, q)
  BY <1>1, NewSet
<1> HIDE DEF new, c
<1>3. ASSUME NEW x, SetOK(x), x.compared = c
      PROVE  /\ x.elements \in Seq(Objects)
             /\ \A k \in 1..Len(x.elements) : x.elements[k] \in V!Members(x)
             /\ \A q : V!Inside(x, q) <=> \E k \in 1..Len(x.elements) : Alike(c, q, x.elements[k])
  <2>1. DOMAIN x.elements = 1..Len(x.elements)
    BY <1>3, SetFields
  <2> QED
    BY <1>3, <2>1, SetFields DEF V!Members
<1>4. /\ SetOK(V!Union(s, t)) /\ V!Union(s, t).compared = c /\ Begins(s, V!Union(s, t))
      /\ \A q : V!Inside(V!Union(s, t), q) <=> V!Inside(s, q) \/ V!Inside(t, q)
  <2> DEFINE r == V!AllAdded(s, t.elements, V!Members(t))
  <2>1. /\ t.elements \in Seq(Objects)
        /\ \A k \in 1..Len(t.elements) : t.elements[k] \in V!Members(t)
        /\ \A q : V!Inside(t, q) <=> \E k \in 1..Len(t.elements) : Alike(c, q, t.elements[k])
    BY <1>3 DEF c
  <2>2. /\ SetOK(r) /\ r.compared = c /\ Begins(s, r)
        /\ \A q : V!Inside(r, q) <=>
             V!Inside(s, q) \/ \E k \in 1..Len(t.elements) :
                                 t.elements[k] \in V!Members(t) /\ Alike(c, q, t.elements[k])
    BY <2>1, AllAddedIs DEF c
  <2>3. V!Union(s, t) = r
    BY DEF V!Union
  <2> HIDE DEF r
  <2> QED
    BY <2>1, <2>2, <2>3
<1>5. SetOK(V!Dup(s)) /\ \A q : V!Inside(V!Dup(s), q) <=> V!Inside(s, q)
  <2> DEFINE r == V!AllAdded(new, s.elements, V!Members(s))
  <2>1. /\ s.elements \in Seq(Objects)
        /\ \A k \in 1..Len(s.elements) : s.elements[k] \in V!Members(s)
        /\ \A q : V!Inside(s, q) <=> \E k \in 1..Len(s.elements) : Alike(c, q, s.elements[k])
    BY <1>3 DEF c
  <2>2. /\ SetOK(r)
        /\ \A q : V!Inside(r, q) <=>
             V!Inside(new, q) \/ \E k \in 1..Len(s.elements) :
                                 s.elements[k] \in V!Members(s) /\ Alike(c, q, s.elements[k])
    BY <1>2, <2>1, AllAddedIs
  <2>3. V!Dup(s) = r
    BY DEF V!Dup, new, c
  <2> HIDE DEF r
  <2> QED
    BY <1>2, <2>1, <2>2, <2>3
<1>6. SetOK(V!Intersection(s, t)) /\ \A q : V!Inside(V!Intersection(s, t), q) <=> V!Inside(s, q) /\ V!Inside(t, q)
  <2> DEFINE big == IF Len(s.elements) > Len(t.elements) THEN s ELSE t
             other == IF big = s THEN t ELSE s
             wanted == {o \in V!Members(big) : V!Inside(other, o)}
             r == V!AllAdded(new, big.elements, wanted)
  <2>1. V!Intersection(s, t) = r
    BY DEF V!Intersection, new, c
  <2>2. (big = s /\ other = t) \/ (big = t /\ other = s)
    OBVIOUS
  <2> HIDE DEF big, other
  <2>3. SetOK(big) /\ SetOK(other) /\ big.compared = c /\ other.compared = c
    BY <2>2 DEF c
  <2>4. /\ big.elements \in Seq(Objects)
        /\ \A k \in 1..Len(big.elements) : big.elements[k] \in V!Members(big)
        /\ \A q : V!Inside(big, q) <=> \E k \in 1..Len(big.elements) : Alike(c, q, big.elements[k])
    BY <1>3, <2>3
  <2>5. \A q : V!Inside(other, q) <=> \E k \in 1..Len(other.elements) : Alike(c, q, other.elements[k])
    BY <1>3, <2>3
  <2>6. /\ SetOK(r)
        /\ \A q : V!Inside(r, q) <=>
             V!Inside(new, q) \/ \E k \in 1..Len(big.elements) :
                                 big.elements[k] \in wanted /\ Alike(c, q, big.elements[k])
    <3> HIDE DEF wanted
    <3> QED
      BY <1>2, <2>4, AllAddedIs
  <2>7. \A k \in 1..Len(big.elements) : big.elements[k] \in wanted <=> V!Inside(other, big.elements[k])
    BY <2>4
  <2> HIDE DEF r, wanted
  \* An element that is like one of the other set is inside it itself.
  <2>8. \A q, k : Alike(c, q, k) => (V!Inside(other, q) <=> V!Inside(other, k))
    BY <2>5, AlikeIs
  <2>9. \A q : V!Inside(r, q) <=> V!Inside(big, q) /\ V!Inside(other, q)
    BY <1>2, <2>4, <2>6, <2>7, <2>8
  <2> QED
    BY <2>1, <2>2, <2>6, <2>9
<1> QED
  BY <1>4, <1>5, <1>6 DEF c

\* The same as SetsAreSets states it.
LEMMA OperationsAreThoseOfSets ==
    ASSUME NEW s, SetOK(s), NEW t, SetOK(t), s.compared = t.compared
    PROVE  V!IsOperation(s, t, Objects)
<1>1. V!Distinct(V!Union(s, t)) /\ V!Distinct(V!Intersection(s, t))
  BY OperationsAre DEF SetOK
<1> DEFINE u == V!Union(s, t)
           i == V!Intersection(s, t)
           d == V!Dup(s)
<1>2. /\ \A q : V!Inside(u, q) <=> V!Inside(s, q) \/ V!Inside(t, q)
      /\ \A q : V!Inside(i, q) <=> V!Inside(s, q) /\ V!Inside(t, q)
      /\ \A q : V!Inside(d, q) <=> V!Inside(s, q)
  BY OperationsAre
<1> HIDE DEF u, i, d
<1> DEFINE Has(r) == {o \in Objects : V!Inside(r, o)}
<1>3. Has(u) = Has(s) \cup Has(t) /\ Has(i) = Has(s) \cap Has(t) /\ Has(d) = Has(s)
  BY <1>2
<1> QED
  BY <1>1, <1>3 DEF V!IsOperation, u, i, d

----------------------------------------------------------------------------
(* How often an object is in the vectors and sets *)

Families == [Vectors \cup Sets -> VectorType \cup {Null}]

VectorPlacesIn(w) == UNION {{v} \X DOMAIN w[v].elements : v \in {x \in Vectors \cup Sets : w[x] # Null}}
Held(w, o) == Occurrences(o, [p \in VectorPlacesIn(w) |-> w[p[1]].elements[p[2]]])

\* The places of an object, written as pairs.
PlacesHeld(w, o) ==
    {p \in (Vectors \cup Sets) \X Nat :
        /\ w[p[1]] # Null /\ p[2] \in 1..Len(w[p[1]].elements)
        /\ w[p[1]].elements[p[2]] = o}

\* The vectors of the model are a family that the lemmas below are about.
LEMMA VectorNames ==
    /\ \A o : InVectors(o) = Held(vectors, o)
    /\ \A o : InVectors(o)' = Held(vectors', o)
    /\ Made = {x \in Vectors \cup Sets : vectors[x] # Null}
    /\ Made' = {x \in Vectors \cup Sets : vectors'[x] # Null}
BY DEF InVectors, Held, VectorPlaces, VectorPlacesIn, Made

\* How often an object is in a family is a number.
LEMMA HeldIs ==
    ASSUME NEW w \in Families, NEW o
    PROVE  IsFiniteSet(PlacesHeld(w, o)) /\ Held(w, o) = Cardinality(PlacesHeld(w, o)) /\ Held(w, o) \in Nat
<1> DEFINE A == {x \in Vectors \cup Sets : w[x] # Null}
           f == [v \in A |-> {v} \X DOMAIN w[v].elements]
           h == [p \in VectorPlacesIn(w) |-> w[p[1]].elements[p[2]]]
<1>1. IsFiniteSet(A)
  BY VectorAssumption, FS_Subset
<1>2. \A v \in A : DOMAIN w[v].elements = 1..Len(w[v].elements) /\ Len(w[v].elements) \in Nat
  <2> SUFFICES ASSUME NEW v \in A
               PROVE  DOMAIN w[v].elements = 1..Len(w[v].elements) /\ Len(w[v].elements) \in Nat
    OBVIOUS
  <2>1. w[v] \in VectorType
    BY DEF Families
  <2> QED
    BY <2>1, VectorFields
<1>3. \A v \in A : IsFiniteSet(f[v])
  <2> SUFFICES ASSUME NEW v \in A PROVE IsFiniteSet({v} \X DOMAIN w[v].elements)
    OBVIOUS
  <2>1. PICK n \in Nat : DOMAIN w[v].elements = 1..n
    BY <1>2
  <2>2. IsFiniteSet(DOMAIN w[v].elements)
    BY <2>1, FS_Interval
  <2>3. IsFiniteSet({v})
    BY FS_Singleton
  <2> QED
    BY <2>2, <2>3, FS_Product
<1>4. VectorPlacesIn(w) = UNION {f[v] : v \in A}
  BY DEF VectorPlacesIn
<1>5. IsFiniteSet(VectorPlacesIn(w))
  <2> HIDE DEF f, A
  <2> QED
    BY <1>1, <1>3, <1>4, FiniteFamily
<1>6. VectorPlacesIn(w) = {p \in (Vectors \cup Sets) \X Nat : w[p[1]] # Null /\ p[2] \in 1..Len(w[p[1]].elements)}
  <2>1. VectorPlacesIn(w) = UNION {{v} \X (1..Len(w[v].elements)) : v \in A}
    BY <1>2 DEF VectorPlacesIn
  <2> QED
    BY <2>1
<1>7. {p \in DOMAIN h : h[p] = o} = PlacesHeld(w, o)
  BY <1>6 DEF PlacesHeld
<1>8. DOMAIN h = VectorPlacesIn(w)
  OBVIOUS
<1>9. Held(w, o) = Occurrences(o, h)
  BY DEF Held
<1> HIDE DEF h
<1>10. IsFiniteSet({p \in DOMAIN h : h[p] = o}) /\ Occurrences(o, h) \in Nat
  BY <1>5, <1>8, OccurrencesAreFinite
<1> QED
  BY <1>7, <1>9, <1>10 DEF Occurrences

\* The places in one vector, and those in the others.
PlacesElsewhere(w, v, o) == {p \in PlacesHeld(w, o) : p[1] # v}

\* It is what one vector has, and what the others have.
LEMMA HeldSplits ==
    ASSUME NEW w \in Families, NEW v \in Vectors \cup Sets, NEW o
    PROVE  /\ Cardinality(PlacesElsewhere(w, v, o)) \in Nat
           /\ w[v] = Null => Held(w, o) = Cardinality(PlacesElsewhere(w, v, o))
           /\ w[v] # Null =>
                /\ Occurrences(o, w[v].elements) \in Nat
                /\ Held(w, o) = Cardinality(PlacesElsewhere(w, v, o)) + Occurrences(o, w[v].elements)
<1> DEFINE rest == PlacesElsewhere(w, v, o)
           here == {p \in PlacesHeld(w, o) : p[1] = v}
<1>1. IsFiniteSet(PlacesHeld(w, o)) /\ Held(w, o) = Cardinality(PlacesHeld(w, o))
  BY HeldIs
<1>2. IsFiniteSet(rest) /\ IsFiniteSet(here) /\ Cardinality(rest) \in Nat
  BY <1>1, FS_Subset, FS_CardinalityType DEF PlacesElsewhere
<1>3. CASE w[v] = Null
  <2>1. rest = PlacesHeld(w, o)
    BY <1>3 DEF PlacesElsewhere, PlacesHeld
  <2> QED
    BY <1>1, <1>2, <1>3, <2>1
<1>4. CASE w[v] # Null
  <2> DEFINE s == w[v].elements
             I == {i \in DOMAIN s : s[i] = o}
             g == [i \in I |-> <<v, i>>]
  <2>1. s \in Seq(Objects \cup {Null}) /\ DOMAIN s = 1..Len(s) /\ Len(s) \in Nat
    BY <1>4, VectorFields DEF Families
  <2>2. IsFiniteSet(I) /\ Occurrences(o, s) \in Nat /\ Occurrences(o, s) = Cardinality(I)
    BY <2>1, OccurrencesInSeq DEF Occurrences
  <2>3. here = {<<v, i>> : i \in I}
    <3>1. here = {p \in {v} \X Nat : p[2] \in 1..Len(s) /\ s[p[2]] = o}
      BY <1>4 DEF PlacesHeld
    <3> QED
      BY <2>1, <3>1
  <2>4. g \in [I -> here] /\ (\A x, y \in I : g[x] = g[y] => x = y) /\ \A t \in here : \E x \in I : g[x] = t
    BY <2>3
  <2> HIDE DEF here, I, g, s
  <2>5. Cardinality(here) = Cardinality(I)
    BY <2>2, <2>4, OneToOne
  <2>6. rest \cap here = {} /\ PlacesHeld(w, o) = rest \cup here
    BY DEF here, PlacesElsewhere
  <2> HIDE DEF rest
  <2>7. Cardinality(rest \cup here) = Cardinality(rest) + Cardinality(here)
    BY <1>2, <2>6, Apart
  <2> QED
    BY <1>1, <1>2, <1>4, <2>2, <2>5, <2>6, <2>7 DEF s, rest
<1> QED
  BY <1>2, <1>3, <1>4

\* Another sequence in place of that of v.
Changed(w, x, v, elements, o) ==
    /\ Held(x, o) \in Nat /\ Held(w, o) \in Nat /\ Occurrences(o, elements) \in Nat
    /\ w[v] = Null => Held(x, o) = Held(w, o) + Occurrences(o, elements)
    /\ w[v] # Null =>
         /\ Occurrences(o, w[v].elements) \in Nat
         /\ Held(x, o) + Occurrences(o, w[v].elements) = Held(w, o) + Occurrences(o, elements)

\* When one vector is made or changed, it changes by what this one has.
LEMMA HeldChanges ==
    ASSUME NEW w \in Families, NEW v \in Vectors \cup Sets, NEW new \in VectorType, NEW o,
           NEW x, x = [w EXCEPT ![v] = new]
    PROVE  x \in Families /\ Changed(w, x, v, new.elements, o)
<1>1. new # Null
  BY VectorFields
<1>2. x \in Families /\ x[v] = new /\ \A u \in (Vectors \cup Sets) \ {v} : x[u] = w[u]
  BY DEF Families
<1>3. PlacesElsewhere(x, v, o) = PlacesElsewhere(w, v, o)
  BY <1>2 DEF PlacesElsewhere, PlacesHeld
<1>4. /\ Cardinality(PlacesElsewhere(x, v, o)) \in Nat /\ Occurrences(o, x[v].elements) \in Nat
      /\ Held(x, o) = Cardinality(PlacesElsewhere(x, v, o)) + Occurrences(o, x[v].elements)
  BY <1>1, <1>2, HeldSplits
<1>5. /\ w[v] = Null => Held(w, o) = Cardinality(PlacesElsewhere(w, v, o))
      /\ w[v] # Null =>
           /\ Occurrences(o, w[v].elements) \in Nat
           /\ Held(w, o) = Cardinality(PlacesElsewhere(w, v, o)) + Occurrences(o, w[v].elements)
  BY HeldSplits
<1>6. Held(x, o) \in Nat /\ Held(w, o) \in Nat
  BY <1>2, HeldIs
<1> QED
  BY <1>2, <1>3, <1>4, <1>5, <1>6 DEF Changed

VecInv ==
    /\ vectors \in Families
    /\ \A v \in Made : VectorOK(vectors[v]) /\ (v \in Sets => SetOK(vectors[v]))

\* The same of the model's step.
LEMMA BecomesKeeps ==
    ASSUME VecInv, NEW v \in Vectors \cup Sets, NEW new, VectorOK(new), v \in Sets => SetOK(new),
           vectors' = [vectors EXCEPT ![v] = new]
    PROVE  /\ VecInv'
           /\ \A o :
                /\ InVectors(o) \in Nat /\ InVectors(o)' \in Nat /\ Occurrences(o, new.elements) \in Nat
                /\ v \notin Made => InVectors(o)' = InVectors(o) + Occurrences(o, new.elements)
                /\ v \in Made =>
                     /\ Occurrences(o, Elements(v)) \in Nat
                     /\ InVectors(o)' + Occurrences(o, Elements(v))
                          = InVectors(o) + Occurrences(o, new.elements)
<1>1. PICK w, x : w = vectors /\ x = vectors' /\ x = [w EXCEPT ![v] = new]
  OBVIOUS
<1>2. w \in Families /\ new \in VectorType /\ new # Null
  BY <1>1, VectorFields DEF VecInv, VectorOK
<1>3. ASSUME NEW o PROVE Changed(w, x, v, new.elements, o)
  <2>1. w \in Families /\ new \in VectorType /\ x = [w EXCEPT ![v] = new]
    BY <1>1, <1>2
  <2> QED
    BY <2>1, HeldChanges
<1>4. x \in Families /\ x[v] = new /\ \A u \in (Vectors \cup Sets) \ {v} : x[u] = w[u]
  BY <1>1, <1>2 DEF Families
<1>5. Made' = Made \cup {v}
  BY <1>1, <1>2, <1>4, VectorNames
<1>6. VecInv'
  <2> SUFFICES ASSUME NEW u \in Made' PROVE VectorOK(x[u]) /\ (u \in Sets => SetOK(x[u]))
    BY <1>1, <1>4 DEF VecInv
  <2>1. CASE u = v
    BY <1>4, <2>1
  <2>2. CASE u # v
    <3>1. u \in Made /\ x[u] = vectors[u]
      BY <1>1, <1>4, <1>5, <2>2, VectorNames
    <3> QED
      BY <3>1 DEF VecInv
  <2> QED
    BY <2>1, <2>2
<1>7. v \in Made <=> w[v] # Null
  BY <1>1, VectorNames
<1>8. \A o : InVectors(o) = Held(w, o) /\ InVectors(o)' = Held(x, o)
  BY <1>1, VectorNames
<1> QED
  BY <1>1, <1>3, <1>6, <1>7, <1>8 DEF Elements, Changed

\* What does not touch the vectors leaves what they have.
LEMMA VectorsStutter ==
    ASSUME VecInv, UNCHANGED vectors
    PROVE  VecInv' /\ \A o : InVectors(o)' = InVectors(o)
<1>1. VecInv'
  BY VectorNames DEF VecInv
<1> QED
  BY <1>1, VectorNames

\* Before any is made they have nothing.
LEMMA VectorsInit ==
    vectors = [v \in Vectors \cup Sets |-> Null] => VecInv /\ \A o : InVectors(o) = 0
<1> SUFFICES ASSUME vectors = [v \in Vectors \cup Sets |-> Null]
             PROVE  VecInv /\ \A o : InVectors(o) = 0
  OBVIOUS
<1>1. vectors \in Families /\ Made = {}
  BY VectorNames DEF Families
<1>2. ASSUME NEW o PROVE InVectors(o) = 0
  <2>1. PICK w : w = vectors
    OBVIOUS
  <2>2. w \in Families /\ PlacesHeld(w, o) = {}
    BY <1>1, <2>1 DEF PlacesHeld
  <2>3. Held(w, o) = 0
    BY <2>2, HeldIs, FS_EmptySet
  <2> QED
    BY <2>1, <2>3, VectorNames
<1> QED
  BY <1>1, <1>2 DEF VecInv

----------------------------------------------------------------------------
(* The counts *)

Counts == [Objects -> Nat]

\* OBJECT_INCREF counts one more of its object.
LEMMA IncreasedIs ==
    ASSUME NEW c \in Counts, NEW o
    PROVE  /\ Increased(c, o) \in Counts
           /\ \A q \in Objects : Increased(c, o)[q] = c[q] + (IF q = o THEN 1 ELSE 0)
<1>1. CASE o \in Objects
  <2>1. Increased(c, o) = [c EXCEPT ![o] = @ + 1]
    BY <1>1 DEF Increased, Counts
  <2> QED
    BY <1>1, <2>1 DEF Counts
<1>2. CASE o \notin Objects
  <2>1. Increased(c, o) = c
    BY <1>2 DEF Increased, Counts
  <2> QED
    BY <1>2, <2>1 DEF Counts
<1> QED
  BY <1>1, <1>2

\* OBJECT_DECREF counts one less of an object that has a reference.
LEMMA DecreasedIs ==
    ASSUME NEW c \in Counts, NEW o, o \in Objects => c[o] > 0
    PROVE  /\ Decreased(c, o) \in Counts
           /\ \A q \in Objects : Decreased(c, o)[q] + (IF q = o THEN 1 ELSE 0) = c[q]
<1>1. CASE o \in Objects
  <2>1. Decreased(c, o) = [c EXCEPT ![o] = @ - 1]
    BY <1>1 DEF Decreased, Counts
  <2> QED
    BY <1>1, <2>1 DEF Counts
<1>2. CASE o \notin Objects
  <2>1. Decreased(c, o) = c
    BY <1>2 DEF Decreased, Counts
  <2> QED
    BY <1>2, <2>1 DEF Counts
<1> QED
  BY <1>1, <1>2

\* A loop of OBJECT_INCREF counts each object as often as it is there.
LEMMA AllIncreasedIs ==
    ASSUME NEW c \in Counts, NEW f, \A q \in Objects : Occurrences(q, f) \in Nat
    PROVE  /\ AllIncreased(c, f) \in Counts
           /\ \A q \in Objects : AllIncreased(c, f)[q] = c[q] + Occurrences(q, f)
BY DEF AllIncreased, Counts

\* A loop of OBJECT_DECREF takes as much off, when the counts allow it.
LEMMA AllDecreasedIs ==
    ASSUME NEW c \in Counts, NEW f,
           \A q \in Objects : Occurrences(q, f) \in Nat /\ Occurrences(q, f) <= c[q]
    PROVE  /\ AllDecreased(c, f) \in Counts
           /\ \A q \in Objects : AllDecreased(c, f)[q] + Occurrences(q, f) = c[q]
<1> DEFINE d == [q \in Objects |-> IF c[q] > Occurrences(q, f) THEN c[q] - Occurrences(q, f) ELSE 0]
<1>1. AllDecreased(c, f) = d
  BY DEF AllDecreased, Counts
<1>2. \A q \in Objects : c[q] \in Nat
  BY DEF Counts
<1>3. \A q \in Objects : d[q] \in Nat /\ d[q] + Occurrences(q, f) = c[q]
  BY <1>2
<1> QED
  BY <1>1, <1>3 DEF Counts

----------------------------------------------------------------------------
(* The inductive invariant *)

Types == refs \in Counts /\ owned \in Counts /\ leaked \in Counts

Shapes == ListInv /\ VecInv /\ MapInv

Inv == Types /\ Shapes /\ CountsExact

\* What an object is counted for.
InList(o) == Occurrences(o, List!Items)
InMap(o) == Occurrences(o, M!Data)

\* What an object is counted for are numbers.
LEMMA Numbers ==
    Shapes => \A o \in Objects : InList(o) \in Nat /\ InVectors(o) \in Nat /\ InMap(o) \in Nat
<1> SUFFICES ASSUME Shapes, NEW o \in Objects
             PROVE  InList(o) \in Nat /\ InVectors(o) \in Nat /\ InMap(o) \in Nat
  OBVIOUS
<1>1. PICK s, w, m : s = List!Items /\ w = vectors /\ m = map
  OBVIOUS
<1>2. s \in Seq(Objects) /\ w \in Families /\ MapShape(m)
  BY <1>1, ItemsAreObjects DEF Shapes, VecInv, MapInv
<1>3. Occurrences(o, s) \in Nat /\ Held(w, o) \in Nat /\ Occurrences(o, DataIn(m)) \in Nat
  BY <1>2, OccurrencesInSeq, HeldIs, MapCounts
<1>4. M!Data = DataIn(m)
  BY <1>1, MapNames
<1> QED
  BY <1>1, <1>3, <1>4, VectorNames DEF InList, InMap

\* So they are after a step.
LEMMA NumbersNext ==
    (Shapes => \A o \in Objects : InList(o) \in Nat /\ InVectors(o) \in Nat /\ InMap(o) \in Nat)'
BY Numbers, PTL

\* The same items hold the same objects.
LEMMA SameList == List!Items' = List!Items => \A o : InList(o)' = InList(o)
<1>1. \A o : Occurrences(o, List!Items)' = Occurrences(o, List!Items')
  OBVIOUS
<1> QED
  BY <1>1 DEF InList

\* Adding at either end adds one of the object to the list.
LEMMA ListAdds ==
    ASSUME Shapes, NEW e \in Objects,
           List!Items' = Append(List!Items, e) \/ List!Items' = <<e>> \o List!Items
    PROVE  \A o : InList(o)' = InList(o) + (IF o = e THEN 1 ELSE 0)
<1>1. PICK s, t : s = List!Items /\ t = List!Items'
  OBVIOUS
<1>2. s \in Seq(Objects) /\ (t = Append(s, e) \/ t = <<e>> \o s)
  BY <1>1, ItemsAreObjects DEF Shapes
<1>3. ASSUME NEW o PROVE Occurrences(o, t) = Occurrences(o, s) + (IF o = e THEN 1 ELSE 0)
  <2>1. CASE t = Append(s, e)
    BY <1>2, <2>1, OccurrencesAppended
  <2>2. CASE t = <<e>> \o s
    <3>1. <<e>> \in Seq(Objects)
      OBVIOUS
    <3>2. Occurrences(o, <<e>> \o s) = Occurrences(o, <<e>>) + Occurrences(o, s)
      BY <1>2, <3>1, OccurrencesOfTwo
    <3>3. Occurrences(o, <<e>>) = IF e = o THEN 1 ELSE 0
      BY OccurrencesOfOne
    <3>4. Occurrences(o, s) \in Nat
      BY <1>2, OccurrencesInSeq
    <3> QED
      BY <2>2, <3>2, <3>3, <3>4
  <2> QED
    BY <1>2, <2>1, <2>2
<1>4. \A o : Occurrences(o, List!Items)' = Occurrences(o, t)
  BY <1>1
<1> QED
  BY <1>1, <1>3, <1>4 DEF InList

\* Taking the first takes one of it.
LEMMA ListTakes ==
    ASSUME Shapes, List!Items # <<>>, List!Items' = Tail(List!Items)
    PROVE  /\ data[head] \in Objects
           /\ \A o : InList(o)' + (IF o = data[head] THEN 1 ELSE 0) = InList(o)
<1>1. PICK s, t, e : s = List!Items /\ t = List!Items' /\ e = data[head]
  OBVIOUS
<1>2. s \in Seq(Objects) /\ s # <<>> /\ t = Tail(s) /\ e = s[1] /\ e \in Objects
  BY <1>1, ItemsAreObjects DEF Shapes
<1>3. t \in Seq(Objects) /\ s = <<e>> \o t
  BY <1>2
<1>4. ASSUME NEW o PROVE Occurrences(o, t) + (IF o = e THEN 1 ELSE 0) = Occurrences(o, s)
  <2>1. <<e>> \in Seq(Objects)
    BY <1>2
  <2>2. Occurrences(o, <<e>> \o t) = Occurrences(o, <<e>>) + Occurrences(o, t)
    BY <1>3, <2>1, OccurrencesOfTwo
  <2>3. Occurrences(o, <<e>>) = IF e = o THEN 1 ELSE 0
    BY OccurrencesOfOne
  <2>4. Occurrences(o, t) \in Nat
    BY <1>3, OccurrencesInSeq
  <2> QED
    BY <1>3, <2>2, <2>3, <2>4
<1>5. \A o : Occurrences(o, List!Items)' = Occurrences(o, t)
  BY <1>1
<1> QED
  BY <1>1, <1>2, <1>4, <1>5 DEF InList

\* Every action that changes references and containers in step keeps the
\* counts exact.
LEMMA Balanced ==
    ASSUME Inv, Types', Shapes',
           \A o \in Objects :
             refs'[o] + (InList(o) + InVectors(o) + InMap(o)) + owned[o] + leaked[o]
               = refs[o] + (InList(o)' + InVectors(o)' + InMap(o)') + owned'[o] + leaked'[o]
    PROVE  Inv'
<1>1. ASSUME NEW o \in Objects PROVE refs'[o] = Places(o)' + owned'[o] + leaked'[o]
  <2>1. /\ InList(o) \in Nat /\ InVectors(o) \in Nat /\ InMap(o) \in Nat
        /\ InList(o)' \in Nat /\ InVectors(o)' \in Nat /\ InMap(o)' \in Nat
    BY Numbers, NumbersNext DEF Inv
  <2>2. /\ refs[o] \in Nat /\ owned[o] \in Nat /\ leaked[o] \in Nat
        /\ refs'[o] \in Nat /\ owned'[o] \in Nat /\ leaked'[o] \in Nat
    BY DEF Inv, Types, Counts
  <2>3. Places(o) = InList(o) + InVectors(o) + InMap(o)
    BY DEF Places, InList, InMap
  <2>4. Places(o)' = InList(o)' + InVectors(o)' + InMap(o)'
    BY DEF Places, InList, InMap
  <2>5. refs[o] = Places(o) + owned[o] + leaked[o]
    BY DEF Inv, CountsExact
  <2>6. refs'[o] + (InList(o) + InVectors(o) + InMap(o)) + owned[o] + leaked[o]
          = refs[o] + (InList(o)' + InVectors(o)' + InMap(o)') + owned'[o] + leaked'[o]
    OBVIOUS
  <2>7. PICK p, q : p = InList(o) + InVectors(o) + InMap(o) /\ q = InList(o)' + InVectors(o)' + InMap(o)'
    OBVIOUS
  <2>8. p \in Nat /\ q \in Nat
    BY <2>1, <2>7
  <2>9. /\ Places(o) = p /\ Places(o)' = q
        /\ refs[o] = p + owned[o] + leaked[o]
        /\ refs'[o] + p + owned[o] + leaked[o] = refs[o] + q + owned'[o] + leaked'[o]
    BY <2>2, <2>3, <2>4, <2>5, <2>6, <2>7, <2>8
  <2>10. refs'[o] = q + owned'[o] + leaked'[o]
    <3>1. PICK r, w, l, s, x, k : /\ r = refs[o] /\ w = owned[o] /\ l = leaked[o]
                                  /\ s = refs'[o] /\ x = owned'[o] /\ k = leaked'[o]
      OBVIOUS
    <3>2. /\ r \in Nat /\ w \in Nat /\ l \in Nat /\ s \in Nat /\ x \in Nat /\ k \in Nat
          /\ r = p + w + l /\ s + p + w + l = r + q + x + k
      BY <2>2, <2>9, <3>1
    <3>3. s = q + x + k
      BY <2>8, <3>2
    <3> QED
      BY <3>1, <3>3
  <2> QED
    BY <2>9, <2>10
<1> QED
  BY <1>1 DEF Inv, CountsExact

\* What a step that is not of the list leaves of it.
LEMMA ListStill ==
    ASSUME Shapes, UNCHANGED list PROVE ListInv' /\ \A o : InList(o)' = InList(o)
BY ListStutters, SameList DEF Shapes

\* The same of the vectors.
LEMMA VectorsStill ==
    ASSUME Shapes, UNCHANGED vectors PROVE VecInv' /\ \A o : InVectors(o)' = InVectors(o)
BY VectorsStutter DEF Shapes

\* The same of the map.
LEMMA MapStill ==
    ASSUME Shapes, UNCHANGED map PROVE MapInv' /\ \A o : InMap(o)' = InMap(o)
<1>1. \A o : Occurrences(o, M!Data)' = Occurrences(o, M!Data)
  BY MapStutters DEF Shapes
<1> QED
  BY <1>1, MapStutters DEF Shapes, InMap

\* The counts of an object are numbers.
LEMMA TypesOf ==
    ASSUME Types, NEW o \in Objects
    PROVE  refs[o] \in Nat /\ owned[o] \in Nat /\ leaked[o] \in Nat
BY DEF Types, Counts

\* What is counted is there.
LEMMA CountedIn ==
    ASSUME Inv, NEW o \in Objects
    PROVE  /\ InList(o) \in Nat /\ InVectors(o) \in Nat /\ InMap(o) \in Nat
           /\ refs[o] \in Nat /\ owned[o] \in Nat /\ leaked[o] \in Nat
           /\ refs[o] = InList(o) + InVectors(o) + InMap(o) + owned[o] + leaked[o]
<1>1. /\ InList(o) \in Nat /\ InVectors(o) \in Nat /\ InMap(o) \in Nat
      /\ refs[o] \in Nat /\ owned[o] \in Nat /\ leaked[o] \in Nat
  BY Numbers, TypesOf DEF Inv
<1>2. refs[o] = Places(o) + owned[o] + leaked[o]
  BY DEF Inv, CountsExact
<1>3. Places(o) = InList(o) + InVectors(o) + InMap(o)
  BY DEF Places, InList, InMap
<1> QED
  BY <1>1, <1>2, <1>3

----------------------------------------------------------------------------
(* One lemma for each action *)

\* At the start there is no object, and nothing is in a container.
LEMMA InitKeeps == Init => Inv
<1> SUFFICES ASSUME Init PROVE Inv
  OBVIOUS
<1>1. Types /\ \A o \in Objects : refs[o] = 0 /\ owned[o] = 0 /\ leaked[o] = 0
  BY DEF Init, Types, Counts
<1>2. ListInv /\ List!Items = <<>>
  BY ListInit DEF Init
<1>3. VecInv /\ \A o : InVectors(o) = 0
  BY VectorsInit DEF Init
<1>4. MapInv /\ \A k \in Keys : GetIn(map, k) = Null
  BY MapInitInv DEF Init
<1>5. ASSUME NEW o \in Objects PROVE Places(o) = 0
  <2>1. Occurrences(o, List!Items) = 0
    BY <1>2, OccurrencesOfNone
  <2>2. Occurrences(o, M!Data) = 0
    <3>1. PICK m : m = map /\ MapShape(m) /\ \A k \in Keys : GetIn(m, k) = Null
      BY <1>4 DEF MapInv
    <3>2. {k \in Keys : GetIn(m, k) = o} = {}
      BY <3>1, MemoryAssumption
    <3>3. Occurrences(o, DataIn(m)) = 0
      BY <3>1, <3>2, MapCounts, FS_EmptySet
    <3>4. M!Data = DataIn(m)
      BY <3>1, MapNames
    <3> QED
      BY <3>3, <3>4
  <2> QED
    BY <1>3, <2>1, <2>2 DEF Places
<1>6. CountsExact
  BY <1>1, <1>5 DEF CountsExact
<1> QED
  BY <1>1, <1>2, <1>3, <1>4, <1>6 DEF Inv, Shapes

\* A new object has the reference of the caller.
LEMMA NewObjectKeeps == ASSUME Inv, NEW e \in Objects, NewObject(e) PROVE Inv'
<1>1. Types /\ Shapes
  BY DEF Inv
<1>2. /\ refs' = Increased(refs, e) /\ owned' = Increased(owned, e) /\ leaked' = leaked
      /\ UNCHANGED list /\ UNCHANGED vectors /\ UNCHANGED map
  BY DEF NewObject
<1>3. /\ Types'
      /\ \A o \in Objects : /\ refs'[o] = refs[o] + (IF o = e THEN 1 ELSE 0)
                            /\ owned'[o] = owned[o] + (IF o = e THEN 1 ELSE 0)
  BY <1>1, <1>2, IncreasedIs DEF Types
<1>4. /\ Shapes'
      /\ \A o : InList(o)' = InList(o) /\ InVectors(o)' = InVectors(o) /\ InMap(o)' = InMap(o)
  BY <1>1, <1>2, ListStill, VectorsStill, MapStill DEF Shapes
<1>5. ASSUME NEW o \in Objects
      PROVE  refs'[o] + (InList(o) + InVectors(o) + InMap(o)) + owned[o] + leaked[o]
               = refs[o] + (InList(o)' + InVectors(o)' + InMap(o)') + owned'[o] + leaked'[o]
  BY <1>2, <1>3, <1>4, CountedIn
<1> QED
  BY <1>3, <1>4, <1>5, Balanced

\* The caller gives one of its own references back, of which the count has
\* at least as many.
LEMMA ReleaseKeeps == ASSUME Inv, NEW e \in Objects, Release(e) PROVE Inv'
<1>1. Types /\ Shapes
  BY DEF Inv
<1>2. /\ refs' = Decreased(refs, e) /\ owned' = Decreased(owned, e) /\ leaked' = leaked
      /\ UNCHANGED list /\ UNCHANGED vectors /\ UNCHANGED map /\ owned[e] > 0
  BY DEF Release
<1>3. /\ Types'
      /\ \A o \in Objects : /\ refs'[o] + (IF o = e THEN 1 ELSE 0) = refs[o]
                            /\ owned'[o] + (IF o = e THEN 1 ELSE 0) = owned[o]
  <2>1. refs[e] > 0
    BY <1>2, CountedIn
  <2>2. refs \in Counts /\ owned \in Counts /\ leaked \in Counts
    BY <1>1 DEF Types
  <2> QED
    BY <1>2, <2>1, <2>2, DecreasedIs DEF Types
<1>4. /\ Shapes'
      /\ \A o : InList(o)' = InList(o) /\ InVectors(o)' = InVectors(o) /\ InMap(o)' = InMap(o)
  BY <1>1, <1>2, ListStill, VectorsStill, MapStill DEF Shapes
<1>5. ASSUME NEW o \in Objects
      PROVE  refs'[o] + (InList(o) + InVectors(o) + InMap(o)) + owned[o] + leaked[o]
               = refs[o] + (InList(o)' + InVectors(o)' + InMap(o)') + owned'[o] + leaked'[o]
  <2>1. refs'[o] \in Nat /\ owned'[o] \in Nat
    BY <1>3 DEF Types, Counts
  <2> QED
    BY <1>2, <1>3, <1>4, <2>1, CountedIn, SMTT(30)
<1> QED
  BY <1>3, <1>4, <1>5, Balanced

\* A node takes one reference of what it holds.
LEMMA ListAddKeeps == ASSUME Inv, NEW e \in Objects, ListAdd(e) PROVE Inv'
<1>1. Types /\ Shapes
  BY DEF Inv
<1>2. /\ UNCHANGED owned /\ UNCHANGED leaked /\ UNCHANGED vectors /\ UNCHANGED map
  BY DEF ListAdd
<1>3. /\ refs' = Increased(refs, e) /\ ListInv'
      /\ List!Items' = Append(List!Items, e) \/ List!Items' = <<e>> \o List!Items
  <2>1. PICK n \in Nodes : List!AppendNode(n, e) \/ List!Prepend(n, e)
    BY DEF ListAdd
  <2>2. CASE List!AppendNode(n, e)
    <3>1. refs' = Increased(refs, e)
      BY <2>2, SameOperators DEF List!AppendNode, List!NewNode
    <3> QED
      BY <1>1, <2>2, <3>1, AppendKeeps DEF Shapes
  <2>3. CASE List!Prepend(n, e)
    <3>1. refs' = Increased(refs, e)
      BY <2>3, SameOperators DEF List!Prepend, List!NewNode
    <3> QED
      BY <1>1, <2>3, <3>1, PrependKeeps DEF Shapes
  <2> QED
    BY <2>1, <2>2, <2>3
<1>4. Types' /\ \A o \in Objects : refs'[o] = refs[o] + (IF o = e THEN 1 ELSE 0)
  BY <1>1, <1>2, <1>3, IncreasedIs DEF Types
<1>5. \A o : InList(o)' = InList(o) + (IF o = e THEN 1 ELSE 0)
  BY <1>1, <1>3, ListAdds
<1>6. Shapes' /\ \A o : InVectors(o)' = InVectors(o) /\ InMap(o)' = InMap(o)
  BY <1>1, <1>2, <1>3, VectorsStill, MapStill DEF Shapes
<1>7. ASSUME NEW o \in Objects
      PROVE  refs'[o] + (InList(o) + InVectors(o) + InMap(o)) + owned[o] + leaked[o]
               = refs[o] + (InList(o)' + InVectors(o)' + InMap(o)') + owned'[o] + leaked'[o]
  BY <1>2, <1>4, <1>5, <1>6, CountedIn
<1> QED
  BY <1>4, <1>6, <1>7, Balanced

\* The reference of the node that is taken goes to the caller: the count
\* stays as it is.
LEMMA ListPopKeeps == ASSUME Inv, ListPop PROVE Inv'
<1>1. Types /\ Shapes
  BY DEF Inv
<1>2. /\ List!Pop /\ owned' = Increased(owned, data[head])
      /\ UNCHANGED leaked /\ UNCHANGED vectors /\ UNCHANGED map
  BY DEF ListPop, Takes
<1>3. ListInv' /\ List!Items # <<>> /\ List!Items' = Tail(List!Items)
  BY <1>1, <1>2, PopKeeps DEF Shapes
<1>4. PICK e : e = data[head]
  OBVIOUS
<1>5. e \in Objects /\ \A o : InList(o)' + (IF o = e THEN 1 ELSE 0) = InList(o)
  BY <1>1, <1>3, <1>4, ListTakes
<1>6. refs' = Decreased(Increased(refs, e), e) /\ owned' = Increased(owned, e)
  BY <1>2, <1>4, SameOperators DEF List!Pop
<1>7. /\ Types'
      /\ \A o \in Objects : refs'[o] = refs[o] /\ owned'[o] = owned[o] + (IF o = e THEN 1 ELSE 0)
  <2>1. PICK c : c = Increased(refs, e)
    OBVIOUS
  <2>2. refs \in Counts /\ owned \in Counts /\ leaked \in Counts
    BY <1>1 DEF Types
  <2>3. c \in Counts /\ \A o \in Objects : c[o] = refs[o] + (IF o = e THEN 1 ELSE 0)
    BY <2>1, <2>2, IncreasedIs
  <2>4. c[e] > 0
    BY <1>1, <1>5, <2>3, TypesOf
  <2>5. refs' \in Counts /\ \A o \in Objects : refs'[o] + (IF o = e THEN 1 ELSE 0) = c[o]
    BY <1>6, <2>1, <2>3, <2>4, DecreasedIs
  <2>6. \A o \in Objects : refs'[o] = refs[o]
    <3> SUFFICES ASSUME NEW o \in Objects PROVE refs'[o] = refs[o]
      OBVIOUS
    <3>1. refs'[o] \in Nat /\ refs[o] \in Nat
      BY <2>2, <2>5 DEF Counts
    <3> QED
      BY <2>3, <2>5, <3>1
  <2>7. owned' \in Counts /\ \A o \in Objects : owned'[o] = owned[o] + (IF o = e THEN 1 ELSE 0)
    BY <1>6, <2>2, IncreasedIs
  <2> QED
    BY <1>2, <2>2, <2>5, <2>6, <2>7 DEF Types
<1>8. Shapes' /\ \A o : InVectors(o)' = InVectors(o) /\ InMap(o)' = InMap(o)
  BY <1>1, <1>2, <1>3, VectorsStill, MapStill DEF Shapes
<1>9. ASSUME NEW o \in Objects
      PROVE  refs'[o] + (InList(o) + InVectors(o) + InMap(o)) + owned[o] + leaked[o]
               = refs[o] + (InList(o)' + InVectors(o)' + InMap(o)') + owned'[o] + leaked'[o]
  <2>1. InList(o)' \in Nat
    BY <1>8, NumbersNext
  <2> QED
    BY <1>2, <1>5, <1>7, <1>8, <2>1, CountedIn
<1> QED
  BY <1>7, <1>8, <1>9, Balanced

\* Each node that is freed gives its reference back.
LEMMA ListRenewKeeps == ASSUME Inv, ListRenew PROVE Inv'
<1>1. Types /\ Shapes
  BY DEF Inv
<1>2. /\ List!Renew /\ UNCHANGED owned /\ UNCHANGED leaked /\ UNCHANGED vectors /\ UNCHANGED map
  BY DEF ListRenew
<1>3. ListInv' /\ List!Items' = <<>>
  BY <1>1, <1>2, RenewKeeps DEF Shapes
<1>4. \A o : InList(o)' = 0
  <2>1. \A o : Occurrences(o, List!Items)' = Occurrences(o, List!Items')
    OBVIOUS
  <2> QED
    BY <1>3, <2>1, OccurrencesOfNone DEF InList
<1>5. Types' /\ \A o \in Objects : refs'[o] + InList(o) = refs[o]
  <2>1. refs' = AllDecreased(refs, List!Items)
    BY <1>2, SameOperators DEF List!Renew
  <2>2. PICK s : s = List!Items
    OBVIOUS
  <2>3. \A o \in Objects : Occurrences(o, s) = InList(o) /\ Occurrences(o, s) \in Nat /\ Occurrences(o, s) <= refs[o]
    <3> SUFFICES ASSUME NEW o \in Objects
                 PROVE  Occurrences(o, s) = InList(o) /\ Occurrences(o, s) \in Nat /\ Occurrences(o, s) <= refs[o]
      OBVIOUS
    <3>1. Occurrences(o, s) = InList(o)
      BY <2>2 DEF InList
    <3> QED
      BY <3>1, CountedIn
  <2>4. refs \in Counts /\ owned \in Counts /\ leaked \in Counts
    BY <1>1 DEF Types
  <2>5. refs' \in Counts /\ \A o \in Objects : refs'[o] + Occurrences(o, s) = refs[o]
    BY <2>1, <2>2, <2>3, <2>4, AllDecreasedIs
  <2> QED
    BY <1>2, <2>3, <2>4, <2>5 DEF Types
<1>6. Shapes' /\ \A o : InVectors(o)' = InVectors(o) /\ InMap(o)' = InMap(o)
  BY <1>1, <1>2, <1>3, VectorsStill, MapStill DEF Shapes
<1>7. ASSUME NEW o \in Objects
      PROVE  refs'[o] + (InList(o) + InVectors(o) + InMap(o)) + owned[o] + leaked[o]
               = refs[o] + (InList(o)' + InVectors(o)' + InMap(o)') + owned'[o] + leaked'[o]
  <2>1. refs'[o] \in Nat
    BY <1>5 DEF Types, Counts
  <2> QED
    BY <1>2, <1>4, <1>5, <1>6, <2>1, CountedIn
<1> QED
  BY <1>5, <1>6, <1>7, Balanced

\* The item takes a reference; what was under its key leaks one. Growth
\* moves items and keeps their objects.
LEMMA MapInsertCounts == ASSUME Inv, NEW k \in Keys, NEW e \in Objects, MapInsert(k, e) PROVE Inv'
<1>1. Types /\ Shapes
  BY DEF Inv
<1>2. /\ M!Insert(k, e) /\ UNCHANGED owned /\ UNCHANGED list /\ UNCHANGED vectors
  BY DEF MapInsert
<1>3. MapInv' /\ M!Get(k)' = e /\ KeyChanged(k)
  BY <1>1, <1>2, MapInsertKeeps DEF Shapes
<1>4. PICK old : old = M!Get(k)
  OBVIOUS
<1>5. refs' = Increased(refs, e) /\ leaked' = Increased(leaked, old)
  BY <1>2, <1>4, SameOperators DEF M!Insert
<1>6. /\ Types'
      /\ \A o \in Objects : /\ refs'[o] = refs[o] + (IF o = e THEN 1 ELSE 0)
                            /\ leaked'[o] = leaked[o] + (IF o = old THEN 1 ELSE 0)
  BY <1>1, <1>2, <1>5, IncreasedIs DEF Types
<1>7. \A o \in Objects : InMap(o)' + (IF o = old THEN 1 ELSE 0) = InMap(o) + (IF o = e THEN 1 ELSE 0)
  BY <1>3, <1>4 DEF KeyChanged, InMap
<1>8. Shapes' /\ \A o : InList(o)' = InList(o) /\ InVectors(o)' = InVectors(o)
  BY <1>1, <1>2, <1>3, ListStill, VectorsStill DEF Shapes
<1>9. ASSUME NEW o \in Objects
      PROVE  refs'[o] + (InList(o) + InVectors(o) + InMap(o)) + owned[o] + leaked[o]
               = refs[o] + (InList(o)' + InVectors(o)' + InMap(o)') + owned'[o] + leaked'[o]
  <2>1. InMap(o)' \in Nat
    BY <1>8, NumbersNext
  <2> QED
    BY <1>2, <1>6, <1>7, <1>8, <2>1, CountedIn
<1> QED
  BY <1>6, <1>8, <1>9, Balanced

\* The reference of the item goes to the caller.
LEMMA MapRemoveCounts == ASSUME Inv, NEW k \in Keys, MapRemove(k) PROVE Inv'
<1>1. Types /\ Shapes
  BY DEF Inv
<1>2. /\ M!Delete(k) /\ owned' = Increased(owned, M!Get(k)) /\ UNCHANGED list /\ UNCHANGED vectors
  BY DEF MapRemove, Takes
<1>3. MapInv' /\ M!Get(k) \in Objects /\ M!Get(k)' = Null /\ KeyChanged(k)
  BY <1>1, <1>2, MapDeleteKeeps DEF Shapes
<1>4. PICK e \in Objects : e = M!Get(k)
  BY <1>3
<1>5. refs' = refs /\ leaked' = leaked /\ owned' = Increased(owned, e)
  BY <1>2, <1>4 DEF M!Delete
<1>6. Types' /\ \A o \in Objects : owned'[o] = owned[o] + (IF o = e THEN 1 ELSE 0)
  BY <1>1, <1>5, IncreasedIs DEF Types
<1>7. \A o \in Objects : InMap(o)' + (IF o = e THEN 1 ELSE 0) = InMap(o) + (IF o = Null THEN 1 ELSE 0)
  BY <1>3, <1>4 DEF KeyChanged, InMap
<1>8. Shapes' /\ \A o : InList(o)' = InList(o) /\ InVectors(o)' = InVectors(o)
  BY <1>1, <1>2, <1>3, ListStill, VectorsStill DEF Shapes
<1>9. ASSUME NEW o \in Objects
      PROVE  refs'[o] + (InList(o) + InVectors(o) + InMap(o)) + owned[o] + leaked[o]
               = refs[o] + (InList(o)' + InVectors(o)' + InMap(o)') + owned'[o] + leaked'[o]
  <2>1. InMap(o)' \in Nat /\ o # Null
    BY <1>8, NumbersNext, MemoryAssumption
  <2> QED
    BY <1>5, <1>6, <1>7, <1>8, <2>1, CountedIn
<1> QED
  BY <1>6, <1>8, <1>9, Balanced

\* Each item that is freed gives its reference back.
LEMMA MapRenewCounts == ASSUME Inv, NEW size \in Sizes, MapRenew(size) PROVE Inv'
<1>1. Types /\ Shapes
  BY DEF Inv
<1>2. M!Renew(size) /\ UNCHANGED owned /\ UNCHANGED list /\ UNCHANGED vectors
  BY DEF MapRenew
<1>3. MapInv' /\ \A o \in Objects : InMap(o)' = 0
  BY <1>2, MapRenewKeeps DEF InMap
<1>4. leaked' = leaked /\ refs' = AllDecreased(refs, M!Data)
  BY <1>2, SameOperators DEF M!Renew
<1>5. Types' /\ \A o \in Objects : refs'[o] + InMap(o) = refs[o]
  <2>1. PICK f : f = M!Data
    OBVIOUS
  <2>2. \A o \in Objects : Occurrences(o, f) = InMap(o) /\ Occurrences(o, f) \in Nat /\ Occurrences(o, f) <= refs[o]
    <3> SUFFICES ASSUME NEW o \in Objects
                 PROVE  Occurrences(o, f) = InMap(o) /\ Occurrences(o, f) \in Nat /\ Occurrences(o, f) <= refs[o]
      OBVIOUS
    <3>1. Occurrences(o, f) = InMap(o)
      BY <2>1 DEF InMap
    <3> QED
      BY <3>1, CountedIn
  <2>3. refs \in Counts /\ owned \in Counts /\ leaked \in Counts
    BY <1>1 DEF Types
  <2>4. refs' \in Counts /\ \A o \in Objects : refs'[o] + Occurrences(o, f) = refs[o]
    BY <1>4, <2>1, <2>2, <2>3, AllDecreasedIs
  <2> QED
    BY <1>2, <1>4, <2>2, <2>3, <2>4 DEF Types
<1>6. Shapes' /\ \A o : InList(o)' = InList(o) /\ InVectors(o)' = InVectors(o)
  BY <1>1, <1>2, <1>3, ListStill, VectorsStill DEF Shapes
<1>7. ASSUME NEW o \in Objects
      PROVE  refs'[o] + (InList(o) + InVectors(o) + InMap(o)) + owned[o] + leaked[o]
               = refs[o] + (InList(o)' + InVectors(o)' + InMap(o)') + owned'[o] + leaked'[o]
  <2>1. refs'[o] \in Nat
    BY <1>5 DEF Types, Counts
  <2> QED
    BY <1>2, <1>3, <1>4, <1>5, <1>6, <2>1, CountedIn
<1> QED
  BY <1>5, <1>6, <1>7, Balanced

----------------------------------------------------------------------------
\* A step that gives a vector other elements, and the objects of those the
\* references to go with them.
LEMMA BecomesCounts ==
    ASSUME Inv, NEW v \in Vectors \cup Sets, NEW new, VectorOK(new), v \in Sets => SetOK(new),
           Becomes(v, new), refs' \in Counts,
           \A o \in Objects :
             refs'[o] + (IF v \in Made THEN Occurrences(o, Elements(v)) ELSE 0)
               = refs[o] + Occurrences(o, new.elements)
    PROVE  Inv'
<1>1. Types /\ Shapes
  BY DEF Inv
<1>2. /\ vectors' = [vectors EXCEPT ![v] = new]
      /\ UNCHANGED owned /\ UNCHANGED leaked /\ UNCHANGED list /\ UNCHANGED map
  BY DEF Becomes
<1>3. /\ VecInv'
      /\ \A o :
           /\ InVectors(o) \in Nat /\ InVectors(o)' \in Nat /\ Occurrences(o, new.elements) \in Nat
           /\ v \notin Made => InVectors(o)' = InVectors(o) + Occurrences(o, new.elements)
           /\ v \in Made =>
                /\ Occurrences(o, Elements(v)) \in Nat
                /\ InVectors(o)' + Occurrences(o, Elements(v))
                     = InVectors(o) + Occurrences(o, new.elements)
  BY <1>1, <1>2, BecomesKeeps DEF Shapes
<1>4. Types'
  BY <1>1, <1>2 DEF Types
<1>5. Shapes' /\ \A o : InList(o)' = InList(o) /\ InMap(o)' = InMap(o)
  BY <1>1, <1>2, <1>3, ListStill, MapStill DEF Shapes
<1>6. ASSUME NEW o \in Objects
      PROVE  refs'[o] + (InList(o) + InVectors(o) + InMap(o)) + owned[o] + leaked[o]
               = refs[o] + (InList(o)' + InVectors(o)' + InMap(o)') + owned'[o] + leaked'[o]
  <2>1. PICK h, hn, x, y : /\ h = InVectors(o) /\ hn = InVectors(o)'
                           /\ x = Occurrences(o, new.elements)
                           /\ y = IF v \in Made THEN Occurrences(o, Elements(v)) ELSE 0
    OBVIOUS
  <2>2. h \in Nat /\ hn \in Nat /\ x \in Nat /\ y \in Nat /\ hn + y = h + x
    BY <1>3, <2>1
  <2>3. refs'[o] + y = refs[o] + x /\ refs'[o] \in Nat
    BY <2>1 DEF Counts
  <2> QED
    BY <1>2, <1>5, <2>1, <2>2, <2>3, CountedIn
<1> QED
  BY <1>4, <1>5, <1>6, Balanced

\* A new vector or set is empty.
LEMMA VectorNewKeeps ==
    ASSUME Inv, NEW v \in Vectors \cup Sets, NEW option \in BOOLEAN, VectorNew(v, option)
    PROVE  Inv'
<1> DEFINE new == IF v \in Sets THEN V!New(FALSE, option) ELSE V!New(option, FALSE)
<1>1. VectorOK(new) /\ new.elements = <<>> /\ (v \in Sets => SetOK(new))
  BY NewVector, NewSet DEF SetOK
<1>2. v \notin Made /\ Becomes(v, new) /\ refs' = refs
  BY DEF VectorNew
<1> HIDE DEF new
<1>3. refs' \in Counts
  BY <1>2 DEF Inv, Types
<1>4. \A o \in Objects : refs[o] + 0 = refs[o] + Occurrences(o, new.elements)
  BY <1>1, OccurrencesOfNone
<1> QED
  BY <1>1, <1>2, <1>3, <1>4, BecomesCounts

\* A vector has no more of an object than the object's count.
LEMMA TheVector ==
    ASSUME Inv, NEW v \in Made
    PROVE  /\ v \in Vectors \cup Sets /\ VectorOK(vectors[v]) /\ (v \in Sets => SetOK(vectors[v]))
           /\ vectors[v].elements \in Seq(Objects \cup {Null})
           /\ \A o : Occurrences(o, vectors[v].elements) \in Nat
           /\ \A o \in Objects : Occurrences(o, vectors[v].elements) <= refs[o]
<1>1. VectorOK(vectors[v]) /\ (v \in Sets => SetOK(vectors[v])) /\ v \in Vectors \cup Sets
  BY VectorNames DEF Inv, Shapes, VecInv
<1>2. PICK w, s : w = vectors /\ s = vectors[v].elements
  OBVIOUS
<1>3. s \in Seq(Objects \cup {Null})
  BY <1>1, <1>2, VectorFields DEF VectorOK
<1>4. \A o : Occurrences(o, s) \in Nat
  BY <1>3, OccurrencesInSeq
<1>5. ASSUME NEW o \in Objects PROVE Occurrences(o, s) <= refs[o]
  <2>1. w \in Families /\ w[v] # Null /\ s = w[v].elements
    BY <1>2, VectorNames DEF Inv, Shapes, VecInv
  <2>2. Cardinality(PlacesElsewhere(w, v, o)) \in Nat /\ Held(w, o) = Cardinality(PlacesElsewhere(w, v, o)) + Occurrences(o, s)
    BY <1>1, <2>1, HeldSplits
  <2>3. Held(w, o) = InVectors(o)
    BY <1>2, VectorNames
  <2> QED
    BY <1>4, <2>2, <2>3, CountedIn
<1> QED
  BY <1>1, <1>2, <1>3, <1>4, <1>5

\* The place of a new element, at the end or in between, takes a reference.
LEMMA VectorAddKeeps ==
    ASSUME Inv, NEW v \in Vectors, NEW e \in Objects, VectorAdd(v, e)
    PROVE  Inv'
<1>1. v \in Made /\ v \notin Sets /\ v \in Vectors \cup Sets /\ refs' = Increased(refs, e)
  BY VectorAssumption DEF VectorAdd
<1>2. PICK old : old = vectors[v] /\ VectorOK(old) /\ old.elements \in Seq(Objects \cup {Null})
  BY <1>1, TheVector
<1>3. \E new : /\ VectorOK(new) /\ Becomes(v, new)
               /\ \A q : Occurrences(q, new.elements)
                           = Occurrences(q, old.elements) + (IF e = q THEN 1 ELSE 0)
  <2>1. CASE Becomes(v, V!Added(old, e))
    <3> DEFINE new == V!Added(old, e)
    <3>1. VectorOK(new) /\ new.elements = Append(old.elements, e)
      BY <1>2, AddedIs
    <3>2. PICK s : s = old.elements /\ s \in Seq(Objects \cup {Null}) /\ e \in Objects \cup {Null}
      BY <1>2
    <3>3. \A q : Occurrences(q, Append(s, e)) = Occurrences(q, s) + (IF e = q THEN 1 ELSE 0)
      BY <3>2, OccurrencesAppended, ZenonT(40)
    <3> HIDE DEF new
    <3> QED
      BY <2>1, <3>1, <3>2, <3>3 DEF new
  <2>2. CASE \E i \in 0..Len(old.elements) : Becomes(v, V!Inserted(old, e, i))
    <3>1. PICK i \in 0..Len(old.elements) : Becomes(v, V!Inserted(old, e, i))
      BY <2>2
    <3> DEFINE new == V!Inserted(old, e, i)
    <3>2. VectorOK(new) /\ \A q : Occurrences(q, new.elements)
                                    = Occurrences(q, old.elements) + (IF e = q THEN 1 ELSE 0)
      BY <1>2, InsertedIs, ZenonT(60)
    <3>3. Becomes(v, new)
      BY <3>1
    <3> HIDE DEF new
    <3> QED
      BY <3>2, <3>3
  <2>3. \/ Becomes(v, V!Added(old, e))
        \/ \E i \in 0..Len(old.elements) : Becomes(v, V!Inserted(old, e, i))
    BY <1>2 DEF VectorAdd, Elements
  <2> QED
    BY <2>1, <2>2, <2>3
<1>4. PICK new : /\ VectorOK(new) /\ Becomes(v, new)
                 /\ \A q : Occurrences(q, new.elements)
                             = Occurrences(q, old.elements) + (IF e = q THEN 1 ELSE 0)
  BY <1>3
<1>5. refs' \in Counts /\ \A o \in Objects : refs'[o] = refs[o] + (IF o = e THEN 1 ELSE 0)
  BY <1>1, IncreasedIs DEF Inv, Types
<1>6. \A o \in Objects : refs'[o] + Occurrences(o, Elements(v)) = refs[o] + Occurrences(o, new.elements)
  <2> SUFFICES ASSUME NEW o \in Objects
               PROVE  refs'[o] + Occurrences(o, Elements(v)) = refs[o] + Occurrences(o, new.elements)
    OBVIOUS
  <2>1. Occurrences(o, old.elements) \in Nat /\ refs[o] \in Nat
    BY <1>1, <1>2, TheVector, CountedIn
  <2>2. Elements(v) = old.elements
    BY <1>2 DEF Elements
  <2> QED
    BY <1>4, <1>5, <2>1, <2>2
<1> QED
  BY <1>1, <1>4, <1>5, <1>6, BecomesCounts

\* A removal gives the reference back, with a gap or without.
LEMMA VectorRemoveKeeps ==
    ASSUME Inv, NEW v \in Vectors, VectorRemove(v)
    PROVE  Inv'
<1>1. v \in Made /\ v \notin Sets /\ v \in Vectors \cup Sets
  BY VectorAssumption DEF VectorRemove
<1>2. PICK old : old = vectors[v] /\ VectorOK(old) /\ old.elements \in Seq(Objects \cup {Null})
  BY <1>1, TheVector
<1>3. PICK i \in 1..Len(old.elements) : /\ refs' = Decreased(refs, old.elements[i])
                                        /\ Becomes(v, V!Removed(old, i - 1))
  <2>1. DOMAIN old.elements = 1..Len(old.elements) /\ Elements(v) = old.elements
    BY <1>2, LenProperties DEF Elements
  <2> QED
    BY <1>2, <2>1 DEF VectorRemove
<1> DEFINE new == V!Removed(old, i - 1)
<1>4. /\ VectorOK(new) /\ Becomes(v, new)
      /\ \A q \in Objects : Occurrences(q, old.elements)
                              = Occurrences(q, new.elements) + (IF old.elements[i] = q THEN 1 ELSE 0)
  BY <1>2, <1>3, RemovedIs
<1> HIDE DEF new
<1>5. PICK e : e = old.elements[i]
  OBVIOUS
<1>6. ASSUME NEW o \in Objects
      PROVE  /\ Occurrences(o, old.elements) \in Nat /\ Occurrences(o, new.elements) \in Nat
             /\ Occurrences(o, old.elements) <= refs[o]
  <2>1. Occurrences(o, old.elements) \in Nat /\ Occurrences(o, old.elements) <= refs[o]
    BY <1>1, <1>2, TheVector
  <2>2. new.elements \in Seq(Objects \cup {Null})
    BY <1>4, VectorFields DEF VectorOK
  <2>3. Occurrences(o, new.elements) \in Nat
    BY <2>2, OccurrencesInSeq
  <2> QED
    BY <2>1, <2>3
<1>7. e \in Objects => refs[e] > 0
  BY <1>4, <1>5, <1>6, CountedIn
<1>8. refs' \in Counts /\ \A o \in Objects : refs'[o] + (IF o = e THEN 1 ELSE 0) = refs[o]
  BY <1>3, <1>5, <1>7, DecreasedIs DEF Inv, Types
<1>9. \A o \in Objects : refs'[o] + Occurrences(o, Elements(v)) = refs[o] + Occurrences(o, new.elements)
  <2> SUFFICES ASSUME NEW o \in Objects
               PROVE  refs'[o] + Occurrences(o, Elements(v)) = refs[o] + Occurrences(o, new.elements)
    OBVIOUS
  <2>1. PICK x, y : x = Occurrences(o, old.elements) /\ y = Occurrences(o, new.elements)
    OBVIOUS
  <2>2. x \in Nat /\ y \in Nat /\ x = y + (IF o = e THEN 1 ELSE 0)
    BY <1>4, <1>5, <1>6, <2>1
  <2>3. refs'[o] + (IF o = e THEN 1 ELSE 0) = refs[o] /\ refs'[o] \in Nat
    BY <1>8 DEF Counts
  <2>4. Occurrences(o, Elements(v)) = x
    BY <1>2, <2>1 DEF Elements
  <2> QED
    BY <2>1, <2>2, <2>3, <2>4
<1> QED
  BY <1>1, <1>4, <1>8, <1>9, BecomesCounts

\* vector_extend takes a reference for each element of the other vector.
LEMMA VectorExtendKeeps ==
    ASSUME Inv, NEW v \in Vectors, NEW w \in Vectors, VectorExtend(v, w)
    PROVE  Inv'
<1>1. v \in Made /\ v \notin Sets /\ v \in Vectors \cup Sets /\ w \in Made
  BY VectorAssumption DEF VectorExtend
<1>2. PICK old, more : /\ old = vectors[v] /\ VectorOK(old) /\ old.elements \in Seq(Objects \cup {Null})
                       /\ more = vectors[w] /\ VectorOK(more) /\ more.elements \in Seq(Objects \cup {Null})
  BY <1>1, TheVector
<1> DEFINE new == V!Extended(old, more)
<1>3. Becomes(v, new) /\ refs' = AllIncreased(refs, more.elements)
  BY <1>2 DEF VectorExtend, Elements
<1>4. VectorOK(new) /\ \A q : Occurrences(q, new.elements) = Occurrences(q, old.elements) + Occurrences(q, more.elements)
  BY <1>2, ExtendedIs
<1> HIDE DEF new
<1>5. \A o : Occurrences(o, more.elements) \in Nat /\ Occurrences(o, old.elements) \in Nat
  BY <1>2, OccurrencesInSeq
<1>6. refs' \in Counts /\ \A o \in Objects : refs'[o] = refs[o] + Occurrences(o, more.elements)
  <2>1. refs \in Counts
    BY DEF Inv, Types
  <2> QED
    BY <1>3, <1>5, <2>1, AllIncreasedIs
<1>7. \A o \in Objects : refs'[o] + Occurrences(o, Elements(v)) = refs[o] + Occurrences(o, new.elements)
  <2> SUFFICES ASSUME NEW o \in Objects
               PROVE  refs'[o] + Occurrences(o, Elements(v)) = refs[o] + Occurrences(o, new.elements)
    OBVIOUS
  <2>1. Elements(v) = old.elements /\ refs[o] \in Nat
    BY <1>2, CountedIn DEF Elements
  <2> QED
    BY <1>4, <1>5, <1>6, <2>1
<1> QED
  BY <1>1, <1>3, <1>4, <1>6, <1>7, BecomesCounts

\* What is counted for elements that come after others.
LEMMA BeginsCounts ==
    ASSUME NEW s, SetOK(s), NEW u, SetOK(u), Begins(s, u), NEW q
    PROVE  LET added == SubSeq(u.elements, Len(s.elements) + 1, Len(u.elements)) IN
           /\ Occurrences(q, added) \in Nat /\ Occurrences(q, s.elements) \in Nat
           /\ Occurrences(q, u.elements) = Occurrences(q, s.elements) + Occurrences(q, added)
<1>1. PICK e, f, m, n : /\ e = s.elements /\ f = u.elements /\ m = Len(s.elements) /\ n = Len(u.elements)
  OBVIOUS
<1>2. /\ e \in Seq(Objects) /\ f \in Seq(Objects) /\ m = Len(e) /\ n = Len(f)
      /\ m \in Nat /\ n \in Nat /\ m <= n
      /\ (\A i \in 1..m : f[i] = e[i]) /\ \A i \in 1..n : f[i] \in Objects
  BY <1>1, SetFields DEF Begins
<1> DEFINE a == SubSeq(f, 1, m)
           b == SubSeq(f, m + 1, n)
<1>3. a \in Seq(Objects) /\ b \in Seq(Objects) /\ Len(a) = m /\ \A i \in 1..m : a[i] = f[i]
  BY <1>2, SubSeqProperties
<1>4. a = e
  <2> HIDE DEF a
  <2> QED
    BY <1>2, <1>3, SeqEqual
<1>5. a \o b = f
  <2>1. 1 \in 1..(Len(f) + 1) /\ m \in (1 - 1)..Len(f) /\ n \in m..Len(f)
    BY <1>2
  <2>2. a \o b = SubSeq(f, 1, n)
    BY <1>2, <2>1, ConcatAdjacentSubSeq
  <2> QED
    BY <1>2, <2>2, SubSeqFull
<1> HIDE DEF a, b
<1>6. Occurrences(q, f) = Occurrences(q, a) + Occurrences(q, b)
  BY <1>3, <1>5, OccurrencesOfTwo
<1>7. Occurrences(q, a) \in Nat /\ Occurrences(q, b) \in Nat
  BY <1>3, OccurrencesInSeq
<1> QED
  BY <1>1, <1>4, <1>6, <1>7 DEF b

\* set_add takes a reference only for what it adds.
LEMMA SetAddKeeps ==
    ASSUME Inv, NEW s \in Sets, NEW e \in Objects, SetAdd(s, e)
    PROVE  Inv'
<1>1. s \in Made /\ s \in Vectors \cup Sets
  BY DEF SetAdd
<1>2. PICK old : old = vectors[s] /\ SetOK(old)
  BY <1>1, TheVector
<1> DEFINE new == V!SetAdded(old, e)
<1>3. Becomes(s, new) /\ refs' = (IF V!Inside(old, e) THEN refs ELSE Increased(refs, e))
  BY <1>2 DEF SetAdd
<1>4. SetOK(new) /\ new.elements = IF V!Inside(old, e) THEN old.elements ELSE Append(old.elements, e)
  BY <1>2, SetAddedIs
<1>5. VectorOK(new) /\ old.elements \in Seq(Objects)
  BY <1>2, <1>4 DEF SetOK
<1> HIDE DEF new
<1>6. ASSUME NEW o \in Objects
      PROVE  /\ Occurrences(o, old.elements) \in Nat
             /\ Occurrences(o, new.elements)
                  = Occurrences(o, old.elements) + (IF V!Inside(old, e) THEN 0 ELSE IF o = e THEN 1 ELSE 0)
  <2>1. PICK a : a = old.elements /\ a \in Seq(Objects)
    BY <1>5
  <2>2. Occurrences(o, a) \in Nat /\ Occurrences(o, Append(a, e)) = Occurrences(o, a) + (IF e = o THEN 1 ELSE 0)
    BY <2>1, OccurrencesInSeq, OccurrencesAppended, ZenonT(40)
  <2> QED
    BY <1>4, <2>1, <2>2
<1>7. /\ refs' \in Counts
      /\ \A o \in Objects : refs'[o] = refs[o] + (IF V!Inside(old, e) THEN 0 ELSE IF o = e THEN 1 ELSE 0)
  <2>1. refs \in Counts /\ \A o \in Objects : refs[o] \in Nat
    BY DEF Inv, Types, Counts
  <2> QED
    BY <1>3, <2>1, IncreasedIs
<1>8. \A o \in Objects : refs'[o] + Occurrences(o, Elements(s)) = refs[o] + Occurrences(o, new.elements)
  <2> SUFFICES ASSUME NEW o \in Objects
               PROVE  refs'[o] + Occurrences(o, Elements(s)) = refs[o] + Occurrences(o, new.elements)
    OBVIOUS
  <2>1. Elements(s) = old.elements /\ refs[o] \in Nat
    BY <1>2, CountedIn DEF Elements
  <2> QED
    BY <1>6, <1>7, <2>1
<1> QED
  BY <1>1, <1>3, <1>4, <1>5, <1>7, <1>8, BecomesCounts

\* set_remove gives back the reference of the element it takes out, which
\* may be another object than the one it was called with.
LEMMA SetRemoveKeeps ==
    ASSUME Inv, NEW s \in Sets, NEW q \in Objects, SetRemove(s, q)
    PROVE  Inv'
<1>1. s \in Made /\ s \in Vectors \cup Sets
  BY DEF SetRemove
<1>2. PICK old : old = vectors[s] /\ SetOK(old) /\ V!Inside(old, q)
  BY <1>1, TheVector DEF SetRemove
<1>3. PICK at : at = V!IndexOf(old, q)
  OBVIOUS
<1> DEFINE new == V!Removed(old, at)
           e == old.elements[at + 1]
<1>4. /\ at + 1 \in 1..Len(old.elements) /\ SetOK(new)
      /\ \A o \in Objects : Occurrences(o, old.elements)
                              = Occurrences(o, new.elements) + (IF e = o THEN 1 ELSE 0)
  BY <1>2, <1>3, SetRemovedIs
<1>5. Becomes(s, new) /\ refs' = Decreased(refs, e)
  BY <1>2, <1>3 DEF SetRemove, Elements
<1> HIDE DEF new, e
<1>6. VectorOK(new) /\ new.elements \in Seq(Objects) /\ old.elements \in Seq(Objects)
  BY <1>2, <1>4 DEF SetOK
<1>7. \A o \in Objects : /\ Occurrences(o, old.elements) \in Nat /\ Occurrences(o, new.elements) \in Nat
                         /\ Occurrences(o, old.elements) <= refs[o]
  BY <1>1, <1>2, <1>6, TheVector, OccurrencesInSeq
<1>8. e \in Objects => refs[e] > 0
  BY <1>4, <1>7, CountedIn, SMTT(30)
<1>9. refs' \in Counts /\ \A o \in Objects : refs'[o] + (IF o = e THEN 1 ELSE 0) = refs[o]
  BY <1>5, <1>8, DecreasedIs DEF Inv, Types
<1>10. \A o \in Objects : refs'[o] + Occurrences(o, Elements(s)) = refs[o] + Occurrences(o, new.elements)
  <2> SUFFICES ASSUME NEW o \in Objects
               PROVE  refs'[o] + Occurrences(o, Elements(s)) = refs[o] + Occurrences(o, new.elements)
    OBVIOUS
  <2>1. PICK x, y : x = Occurrences(o, old.elements) /\ y = Occurrences(o, new.elements)
    OBVIOUS
  <2>2. x \in Nat /\ y \in Nat /\ x = y + (IF o = e THEN 1 ELSE 0)
    BY <1>4, <1>7, <2>1
  <2>3. refs'[o] + (IF o = e THEN 1 ELSE 0) = refs[o] /\ refs'[o] \in Nat
    BY <1>9 DEF Counts
  <2>4. Occurrences(o, Elements(s)) = x
    BY <1>2, <2>1 DEF Elements
  <2> QED
    BY <2>1, <2>2, <2>3, <2>4
<1> QED
  BY <1>1, <1>4, <1>5, <1>6, <1>9, <1>10, BecomesCounts

\* set_union takes a reference for each element it adds.
LEMMA SetUnionKeeps ==
    ASSUME Inv, NEW s \in Sets, NEW t \in Sets, SetUnion(s, t)
    PROVE  Inv'
<1>1. s \in Made /\ t \in Made /\ s \in Vectors \cup Sets /\ vectors[s].compared = vectors[t].compared
  BY DEF SetUnion, Comparable
<1>2. PICK old, other : /\ old = vectors[s] /\ SetOK(old) /\ other = vectors[t] /\ SetOK(other)
                        /\ old.compared = other.compared
  BY <1>1, TheVector
<1> DEFINE new == V!Union(old, other)
           added == SubSeq(new.elements, Len(old.elements) + 1, Len(new.elements))
<1>3. Becomes(s, new) /\ refs' = AllIncreased(refs, added)
  BY <1>2 DEF SetUnion, Elements
<1>4. SetOK(new) /\ Begins(old, new)
  BY <1>2, OperationsAre
<1> HIDE DEF new
<1>5. \A o : /\ Occurrences(o, added) \in Nat /\ Occurrences(o, old.elements) \in Nat
             /\ Occurrences(o, new.elements) = Occurrences(o, old.elements) + Occurrences(o, added)
  BY <1>2, <1>4, BeginsCounts
<1> HIDE DEF added
<1>6. refs' \in Counts /\ \A o \in Objects : refs'[o] = refs[o] + Occurrences(o, added)
  <2>1. refs \in Counts
    BY DEF Inv, Types
  <2> QED
    BY <1>3, <1>5, <2>1, AllIncreasedIs
<1>7. \A o \in Objects : refs'[o] + Occurrences(o, Elements(s)) = refs[o] + Occurrences(o, new.elements)
  <2> SUFFICES ASSUME NEW o \in Objects
               PROVE  refs'[o] + Occurrences(o, Elements(s)) = refs[o] + Occurrences(o, new.elements)
    OBVIOUS
  <2>1. Elements(s) = old.elements /\ refs[o] \in Nat
    BY <1>2, CountedIn DEF Elements
  <2> QED
    BY <1>5, <1>6, <2>1
<1>8. VectorOK(new)
  BY <1>4 DEF SetOK
<1> QED
  BY <1>1, <1>3, <1>4, <1>6, <1>7, <1>8, BecomesCounts

\* set_dup and set_intersect take one for each element of the new set.
LEMMA SetDeriveKeeps ==
    ASSUME Inv, NEW r \in Sets, NEW s \in Sets, NEW t \in Sets, SetDerive(r, s, t)
    PROVE  Inv'
<1>1. /\ r \notin Made /\ r \in Vectors \cup Sets /\ s \in Made /\ t \in Made
      /\ vectors[s].compared = vectors[t].compared
  BY DEF SetDerive, Comparable
<1>2. PICK one, other : /\ one = vectors[s] /\ SetOK(one) /\ other = vectors[t] /\ SetOK(other)
                        /\ one.compared = other.compared
  BY <1>1, TheVector
<1>3. PICK new \in {V!Dup(one), V!Intersection(one, other)} :
        Becomes(r, new) /\ refs' = AllIncreased(refs, new.elements)
  BY <1>2 DEF SetDerive
<1>4. SetOK(new)
  BY <1>2, <1>3, OperationsAre
<1>5. VectorOK(new) /\ new.elements \in Seq(Objects)
  BY <1>4 DEF SetOK
<1>6. \A o : Occurrences(o, new.elements) \in Nat
  BY <1>5, OccurrencesInSeq
<1>7. refs' \in Counts /\ \A o \in Objects : refs'[o] + 0 = refs[o] + Occurrences(o, new.elements)
  <2>1. refs \in Counts
    BY DEF Inv, Types
  <2>2. refs' \in Counts /\ \A o \in Objects : refs'[o] = refs[o] + Occurrences(o, new.elements)
    BY <1>3, <1>6, <2>1, AllIncreasedIs
  <2>3. \A o \in Objects : refs'[o] \in Nat
    BY <2>2 DEF Counts
  <2> QED
    BY <2>2, <2>3
<1> QED
  BY <1>1, <1>3, <1>4, <1>5, <1>7, BecomesCounts

----------------------------------------------------------------------------
(* The theorems *)

\* Every step is one of these actions or touches nothing.
LEMMA StepKeeps == Inv /\ [Next]_vars => Inv'
<1> SUFFICES ASSUME Inv, [Next]_vars PROVE Inv'
  OBVIOUS
<1>1. CASE \E o \in Objects :
             \/ NewObject(o) \/ Release(o) \/ ListAdd(o)
             \/ \E v \in Vectors : VectorAdd(v, o)
             \/ \E s \in Sets : SetAdd(s, o) \/ SetRemove(s, o)
             \/ \E k \in Keys : MapInsert(k, o)
  <2>1. PICK o \in Objects :
             \/ NewObject(o) \/ Release(o) \/ ListAdd(o)
             \/ \E v \in Vectors : VectorAdd(v, o)
             \/ \E s \in Sets : SetAdd(s, o) \/ SetRemove(s, o)
             \/ \E k \in Keys : MapInsert(k, o)
    BY <1>1
  <2>2. CASE NewObject(o)
    BY <2>2, NewObjectKeeps
  <2>3. CASE Release(o)
    BY <2>3, ReleaseKeeps
  <2>4. CASE ListAdd(o)
    BY <2>4, ListAddKeeps
  <2>5. CASE \E v \in Vectors : VectorAdd(v, o)
    BY <2>5, VectorAddKeeps
  <2>6. CASE \E s \in Sets : SetAdd(s, o) \/ SetRemove(s, o)
    BY <2>6, SetAddKeeps, SetRemoveKeeps
  <2>7. CASE \E k \in Keys : MapInsert(k, o)
    BY <2>7, MapInsertCounts
  <2> QED
    BY <2>1, <2>2, <2>3, <2>4, <2>5, <2>6, <2>7
<1>2. CASE ListPop
  BY <1>2, ListPopKeeps
<1>3. CASE ListRenew
  BY <1>3, ListRenewKeeps
<1>4. CASE \E v \in Vectors \cup Sets, option \in BOOLEAN : VectorNew(v, option)
  BY <1>4, VectorNewKeeps
<1>5. CASE \E v, w \in Vectors : VectorRemove(v) \/ VectorExtend(v, w)
  BY <1>5, VectorRemoveKeeps, VectorExtendKeeps
<1>6. CASE \E r, s, t \in Sets : SetUnion(s, t) \/ SetDerive(r, s, t)
  BY <1>6, SetUnionKeeps, SetDeriveKeeps
<1>7. CASE \E k \in Keys : MapRemove(k)
  BY <1>7, MapRemoveCounts
<1>8. CASE \E size \in Sizes : MapRenew(size)
  BY <1>8, MapRenewCounts
<1>9. CASE UNCHANGED vars
  <2>1. /\ UNCHANGED refs /\ UNCHANGED owned /\ UNCHANGED leaked
        /\ UNCHANGED list /\ UNCHANGED vectors /\ UNCHANGED map
    BY <1>9 DEF vars
  <2>2. Types'
    BY <2>1 DEF Inv, Types
  <2>3. Shapes' /\ \A o : InList(o)' = InList(o) /\ InVectors(o)' = InVectors(o) /\ InMap(o)' = InMap(o)
    BY <2>1, ListStill, VectorsStill, MapStill DEF Inv, Shapes
  <2> QED
    BY <2>1, <2>2, <2>3, Balanced
<1> QED
  BY <1>1, <1>2, <1>3, <1>4, <1>5, <1>6, <1>7, <1>8, <1>9 DEF Next

\* Each container keeps its shape and every count is exact, in every state
\* that calls of the containers lead to.
THEOREM InvHolds == Spec => []Inv
BY InitKeeps, StepKeeps, PTL DEF Spec

\* The count of an object is the number of places of lists, vectors, sets
\* and maps that it is in, of the caller's references and of those that
\* map_insert leaks, whatever is called: nothing in a container was freed
\* (OBJECT_INCREF and OBJECT_DECREF of linked_vector.c, vector.c, set.c and
\* map.c).
THEOREM CountsAreExact == Spec => []CountsExact
<1>1. Inv => CountsExact
  BY DEF Inv
<1> QED
  BY InvHolds, <1>1, PTL

\* No vector outgrows its memory, each element of a set is different to the
\* set's comparison, and set_union, set_dup and set_intersect are the
\* operations of sets (vector.c, set.c).
THEOREM SetsStaySets == Spec => []SetsAreSets
<1>1. ASSUME Inv PROVE SetsAreSets
  <2> SUFFICES ASSUME NEW s \in Made
               PROVE  /\ V!Fits(vectors[s])
                      /\ s \in Sets => V!Distinct(vectors[s])
                      /\ \A t \in Sets : Comparable(s, t) => V!IsOperation(vectors[s], vectors[t], Objects)
    BY DEF SetsAreSets
  <2>1. VectorOK(vectors[s]) /\ (s \in Sets => SetOK(vectors[s]))
    BY <1>1, TheVector
  <2>2. V!Fits(vectors[s]) /\ (s \in Sets => V!Distinct(vectors[s]))
    BY <2>1 DEF VectorOK, SetOK
  <2>3. ASSUME NEW t \in Sets, Comparable(s, t) PROVE V!IsOperation(vectors[s], vectors[t], Objects)
    <3>1. s \in Sets /\ t \in Made /\ vectors[s].compared = vectors[t].compared
      BY <2>3 DEF Comparable
    <3>2. PICK a, b : a = vectors[s] /\ b = vectors[t]
      OBVIOUS
    <3>3. SetOK(a) /\ SetOK(b) /\ a.compared = b.compared
      BY <1>1, <2>1, <3>1, <3>2, TheVector
    <3>4. V!IsOperation(a, b, Objects)
      BY <3>3, OperationsAreThoseOfSets
    <3> QED
      BY <3>2, <3>4
  <2> QED
    BY <2>2, <2>3
<1> QED
  BY InvHolds, <1>1, PTL

\* What a step does to the list.
LEMMA ListSteps ==
    ASSUME [Next]_vars
    PROVE  \/ \E n \in Nodes, o \in Objects : List!AppendNode(n, o) \/ List!Prepend(n, o)
           \/ List!Pop \/ List!Renew \/ UNCHANGED list
<1>1. CASE \E o \in Objects : ListAdd(o)
  BY <1>1 DEF ListAdd
<1>2. CASE ListPop
  BY <1>2 DEF ListPop
<1>3. CASE ListRenew
  BY <1>3 DEF ListRenew
<1>4. CASE UNCHANGED vars
  BY <1>4 DEF vars
<1>5. CASE \E o \in Objects : NewObject(o) \/ Release(o)
  BY <1>5 DEF NewObject, Release
<1>6. CASE \E o \in Objects : \E v \in Vectors : VectorAdd(v, o)
  BY <1>6 DEF VectorAdd, Becomes
<1>7. CASE \E o \in Objects : \E s \in Sets : SetAdd(s, o) \/ SetRemove(s, o)
  BY <1>7 DEF SetAdd, SetRemove, Becomes
<1>8. CASE \E o \in Objects : \E k \in Keys : MapInsert(k, o)
  BY <1>8 DEF MapInsert
<1>9. CASE \E v \in Vectors \cup Sets, option \in BOOLEAN : VectorNew(v, option)
  BY <1>9 DEF VectorNew, Becomes
<1>10. CASE \E v, w \in Vectors : VectorRemove(v) \/ VectorExtend(v, w)
  BY <1>10 DEF VectorRemove, VectorExtend, Becomes
<1>11. CASE \E r, s, t \in Sets : SetUnion(s, t) \/ SetDerive(r, s, t)
  BY <1>11 DEF SetUnion, SetDerive, Becomes
<1>12. CASE \E k \in Keys : MapRemove(k)
  BY <1>12 DEF MapRemove
<1>13. CASE \E size \in Sizes : MapRenew(size)
  BY <1>13 DEF MapRenew
<1> QED
  BY <1>1, <1>2, <1>3, <1>4, <1>5, <1>6, <1>7, <1>8, <1>9, <1>10, <1>11, <1>12, <1>13 DEF Next

\* Every step is one of a deque or leaves its items.
LEMMA DequeSteps ==
    ASSUME Inv, [Next]_vars PROVE [List!IsDeque!Next]_(List!Items)
<1>1. ListInv
  BY DEF Inv, Shapes
<1>2. ASSUME NEW n \in Nodes, NEW o \in Objects, List!AppendNode(n, o) \/ List!Prepend(n, o)
      PROVE  List!IsDeque!Next
  <2>1. List!Items' = Append(List!Items, o) \/ List!Items' = <<o>> \o List!Items
    BY <1>1, <1>2, AppendKeeps, PrependKeeps
  <2> QED
    BY <2>1 DEF List!IsDeque!Next
<1>3. ASSUME List!Pop PROVE List!IsDeque!Next
  <2>1. List!Items # <<>> /\ List!Items' = Tail(List!Items)
    BY <1>1, <1>3, PopKeeps
  <2> QED
    BY <2>1 DEF List!IsDeque!Next
<1>4. ASSUME List!Renew PROVE List!IsDeque!Next
  <2>1. List!Items' = <<>>
    BY <1>1, <1>4, RenewKeeps
  <2> QED
    BY <2>1 DEF List!IsDeque!Next
<1>5. ASSUME UNCHANGED list PROVE List!Items' = List!Items
  BY <1>1, <1>5, ListStutters
<1> QED
  BY <1>2, <1>3, <1>4, <1>5, ListSteps

\* queue.c and stack.c over linked_vector.c are a deque: what is added at
\* either end stays in order until it is taken from the front, although
\* freed nodes are allocated again and pop leaves tail behind; a queue set
\* holds nothing twice.
THEOREM ListIsADeque == Spec => ListIsDeque
<1>1. Init => List!IsDeque!Init
  BY ListInit DEF Init, List!IsDeque!Init
<1>2. Inv /\ [Next]_vars => [List!IsDeque!Next]_(List!Items)
  BY DequeSteps
<1>3. Inv => List!NoneTwice
  BY DEF Inv, Shapes, ListInv
<1>4. Spec => List!IsDeque!Spec
  BY InvHolds, <1>1, <1>2, PTL DEF Spec, List!IsDeque!Spec
<1>5. Spec => [][List!NoneTwice']_vars
  BY InvHolds, <1>3, PTL
<1> QED
  BY <1>4, <1>5, PTL DEF ListIsDeque

\* What a step does to the map.
LEMMA MapSteps ==
    ASSUME [Next]_vars
    PROVE  \/ \E k \in Keys, o \in Objects : M!Insert(k, o)
           \/ \E k \in Keys : M!Delete(k)
           \/ \E size \in Sizes : M!Renew(size)
           \/ UNCHANGED map
<1>1. CASE \E o \in Objects : \E k \in Keys : MapInsert(k, o)
  BY <1>1 DEF MapInsert
<1>2. CASE \E k \in Keys : MapRemove(k)
  BY <1>2 DEF MapRemove
<1>3. CASE \E size \in Sizes : MapRenew(size)
  BY <1>3 DEF MapRenew
<1>4. CASE UNCHANGED vars
  BY <1>4 DEF vars
<1>5. CASE \E o \in Objects : NewObject(o) \/ Release(o) \/ ListAdd(o)
  BY <1>5 DEF NewObject, Release, ListAdd
<1>6. CASE ListPop \/ ListRenew
  BY <1>6 DEF ListPop, ListRenew
<1>7. CASE \E o \in Objects : \E v \in Vectors : VectorAdd(v, o)
  BY <1>7 DEF VectorAdd, Becomes
<1>8. CASE \E o \in Objects : \E s \in Sets : SetAdd(s, o) \/ SetRemove(s, o)
  BY <1>8 DEF SetAdd, SetRemove, Becomes
<1>9. CASE \E v \in Vectors \cup Sets, option \in BOOLEAN : VectorNew(v, option)
  BY <1>9 DEF VectorNew, Becomes
<1>10. CASE \E v, w \in Vectors : VectorRemove(v) \/ VectorExtend(v, w)
  BY <1>10 DEF VectorRemove, VectorExtend, Becomes
<1>11. CASE \E r, s, t \in Sets : SetUnion(s, t) \/ SetDerive(r, s, t)
  BY <1>11 DEF SetUnion, SetDerive, Becomes
<1> QED
  BY <1>1, <1>2, <1>3, <1>4, <1>5, <1>6, <1>7, <1>8, <1>9, <1>10, <1>11 DEF Next

\* map_insert and map_remove change what one key leads to.
LEMMA KeysChangeOneByOne == Inv /\ [Next]_vars => M!OneKeyAtATime
<1> SUFFICES ASSUME Inv, [Next]_vars
             PROVE  (\E k \in Keys : \A j \in Keys \ {k} : M!Get(j)' = M!Get(j)) \/ map'.n = 0
  BY DEF M!OneKeyAtATime
<1>1. MapInv
  BY DEF Inv, Shapes
<1>2. ASSUME NEW k \in Keys, KeyChanged(k) PROVE \E i \in Keys : \A j \in Keys \ {i} : M!Get(j)' = M!Get(j)
  BY <1>2 DEF KeyChanged
<1>3. CASE \E k \in Keys, o \in Objects : M!Insert(k, o)
  BY <1>1, <1>2, <1>3, MapInsertKeeps
<1>4. CASE \E k \in Keys : M!Delete(k)
  BY <1>1, <1>2, <1>4, MapDeleteKeeps
<1>5. CASE \E size \in Sizes : M!Renew(size)
  BY <1>5, MapRenewKeeps
<1>6. CASE UNCHANGED map
  <2>1. \A j : M!Get(j)' = M!Get(j)
    BY <1>1, <1>6, MapStutters
  <2>2. Keys = {} => map'.n = 0
    BY <1>1, <1>6 DEF MapInv
  <2> QED
    BY <2>1, <2>2
<1> QED
  BY <1>3, <1>4, <1>5, <1>6, MapSteps

\* Every item of a map is found under its key, map_all_keys finds each key
\* once although n is no count of the items, and a step changes what one key
\* leads to, or frees the map (map.c).
THEOREM MapsKeepTheirKeys == Spec => MapKeepsKeys
<1>1. Inv => M!KeysFound
  BY KeysAreFound DEF Inv, Shapes
<1>2. Inv /\ [Next]_vars => M!OneKeyAtATime
  BY KeysChangeOneByOne
<1> QED
  BY InvHolds, <1>1, <1>2, PTL DEF Spec, MapKeepsKeys
=============================================================================
