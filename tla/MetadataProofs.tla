--------------------------- MODULE MetadataProofs ---------------------------
(***************************************************************************)
(* Theorems about EbuildMetadata and the lists of RequiredUse it reads: an *)
(* Ebuild is initialized when, and only when, it has all that its file     *)
(* says, and REQUIRED_USE is kept, for any files, flags and nesting.       *)
(*                                                                         *)
(* What the code does by recursion or in a loop is a recursive function;   *)
(* RecursionExists shows of all of them that there is one.  The inductive  *)
(* invariant, MetadataInv, says of an Ebuild whose file was read and can   *)
(* be used that it is the record of the whole file, Whole, of one whose    *)
(* file was not read that it is blank, and of one whose file cannot be     *)
(* used that it is not initialized, whatever else it has.                  *)
(***************************************************************************)
EXTENDS EbuildMetadata, LeastNumber, FiniteSetTheorems, SequenceTheorems

----------------------------------------------------------------------------
(* Recursions *)

\* The recursions of RequiredUse and EbuildMetadata, by name and arguments:
\* what each has for n when it has before for n - 1.
Value(r, n, before) ==
    IF r.of = "Level"
    THEN IF n = 0 THEN {}
         ELSE {term \in [op : Operators, name : Names, body : Seq(before)] :
                  IsFlag(term) \/ term.body # <<>>}
    ELSE IF r.of = "NodesAt"
    THEN [term \in Level[n] |->
            IF term.op = "group" THEN Linked(before, term.body)
            ELSE <<[term EXCEPT !.body = Linked(before, term.body)]>>]
    ELSE IF r.of = "Counted"
    THEN [node \in Level[n] |->
            Counts(node, r.state, Number(before, node.body), Len(node.body))]
    ELSE IF r.of = "Holding"
    THEN [term \in Level[n] |->
            Holds(term, r.state, Number(before, term.body), Len(term.body))]
    ELSE IF r.of = "Within"
    THEN [term \in Level[n] |->
            {term} \cup UNION {before[term.body[i]] : i \in DOMAIN term.body}]
    ELSE IF n = 0 THEN r.first
    ELSE IF r.of = "KeywordsOf"
    THEN [a \in Arches |-> IF r.items[n].arch \in {a, "*"} THEN r.items[n].keyword
                           ELSE before[a]]
    ELSE IF r.of = "IUseOf"
    THEN Over([k \in {r.items[n].name} |-> r.items[n].on], before)
    ELSE ReadLine(before, r.items[n])

\* A recursion that does not look below 0 has a function.
LEMMA RecursionExists ==
    ASSUME NEW r, NEW N \in Nat, \A x, y : Value(r, 0, x) = Value(r, 0, y)
    PROVE  \E f : f = [n \in 0..N |-> Value(r, n, f[n - 1])]
<1> DEFINE S == {n \in 0..N : \E f : f = [i \in 0..n |-> Value(r, i, f[i - 1])]}
<1>1. 0 \in S
  <2> DEFINE first == Value(r, 0, {})
             f == [i \in 0..0 |-> first]
             h == [i \in 0..0 |-> Value(r, i, f[i - 1])]
  <2>1. \A x : Value(r, 0, x) = first
    OBVIOUS
  <2>2. 0 \in 0..N
    OBVIOUS
  <2> HIDE DEF first
  <2>3. \A i \in 0..0 : f[i] = first /\ Value(r, i, f[i - 1]) = first
    BY <2>1
  <2>4. f = h
    BY <2>3
  <2> HIDE DEF f
  <2> QED
    BY <2>2, <2>4
<1>2. ASSUME NEW n \in 1..N, n - 1 \in S PROVE n \in S
  <2>1. PICK m \in Nat : m = n - 1 /\ n = m + 1 /\ n \in 0..N
    OBVIOUS
  <2>2. PICK f : f = [i \in 0..m |-> Value(r, i, f[i - 1])]
    BY <1>2, <2>1
  <2> DEFINE last == Value(r, n, f[m])
             g == [i \in 0..n |-> IF i = n THEN last ELSE f[i]]
             h == [i \in 0..n |-> Value(r, i, g[i - 1])]
  <2>3. \A i \in 0..m : f[i] = Value(r, i, f[i - 1])
    BY <2>2
  <2>4. g[n] = last /\ \A i \in 0..m : g[i] = f[i]
    BY <2>1
  <2>5. ASSUME NEW i \in 0..n PROVE g[i] = Value(r, i, g[i - 1])
    <3>1. CASE i = n
      <4>1. m \in 0..m /\ n - 1 = m
        BY <2>1
      <4> HIDE DEF g
      <4> QED
        BY <2>4, <3>1, <4>1
    <3>2. CASE i = 0
      <4>1. 0 \in 0..m
        BY <2>1
      <4>2. f[0] = Value(r, 0, f[0 - 1])
        BY <2>3, <4>1
      <4> HIDE DEF g
      <4> QED
        BY <2>4, <3>2, <4>1, <4>2
    <3>3. CASE i # n /\ i # 0
      <4>1. i \in 0..m /\ i - 1 \in 0..m
        BY <2>1, <3>3
      <4> HIDE DEF g
      <4> QED
        BY <2>3, <2>4, <4>1
    <3> QED
      BY <3>1, <3>2, <3>3
  <2>6. g = h
    BY <2>5
  <2> HIDE DEF g
  <2> QED
    BY <2>1, <2>6
<1> HIDE DEF S
<1>3. 0..N \subseteq S
  BY <1>1, <1>2, InductionUpTo
<1>4. N \in S
  BY <1>3
<1> QED
  BY <1>4 DEF S

\* The numbers of levels.
LEMMA LevelNumbers ==
    /\ Depth \in Nat /\ Depth \in 0..Depth /\ 0 \in 0..Depth
    /\ \A n \in 1..Depth : n \in 0..Depth /\ n # 0 /\ n - 1 \in 0..Depth
BY DepthAssumption

\* Level does what it is defined to.
LEMMA LevelIs ==
    /\ Level[0] = {}
    /\ \A n \in 1..Depth :
         Level[n] = {term \in [op : Operators, name : Names, body : Seq(Level[n - 1])] :
                        IsFlag(term) \/ term.body # <<>>}
<1> DEFINE r == [of |-> "Level"]
<1>1. \A x, y : Value(r, 0, x) = Value(r, 0, y)
  BY DEF Value
<1>2. PICK f : f = [n \in 0..Depth |-> Value(r, n, f[n - 1])]
  BY <1>1, RecursionExists, DepthAssumption
<1>3. Level = CHOOSE g : g = [n \in 0..Depth |-> Value(r, n, g[n - 1])]
  BY DEF Level, Value
<1>4. Level = [n \in 0..Depth |-> Value(r, n, Level[n - 1])]
  BY <1>2, <1>3
<1>5. \A n \in 0..Depth : Level[n] = Value(r, n, Level[n - 1])
  BY <1>4
<1> QED
  BY <1>5, LevelNumbers DEF Value

\* NodesAt does what it is defined to: the terms of a body are linked
\* before the term, as the parser reduces them.
LEMMA NodesAtIs ==
    \A n \in 1..Depth :
        NodesAt[n] = [term \in Level[n] |->
            IF term.op = "group" THEN Linked(NodesAt[n - 1], term.body)
            ELSE <<[term EXCEPT !.body = Linked(NodesAt[n - 1], term.body)]>>]
<1> DEFINE r == [of |-> "NodesAt"]
           F == NodesAt
<1>1. \A x, y : Value(r, 0, x) = Value(r, 0, y)
  BY LevelIs DEF Value
<1>2. PICK f : f = [n \in 0..Depth |-> Value(r, n, f[n - 1])]
  BY <1>1, RecursionExists, DepthAssumption
<1>3. F = CHOOSE g : g = [n \in 0..Depth |-> Value(r, n, g[n - 1])]
  BY DEF NodesAt, Value
<1> HIDE DEF F
<1>4. F = [n \in 0..Depth |-> Value(r, n, F[n - 1])]
  BY <1>2, <1>3
<1>5. \A n \in 1..Depth : F[n] = Value(r, n, F[n - 1])
  BY <1>4, LevelNumbers
<1> QED
  BY <1>5 DEF Value, F

\* Within does what it is defined to.
LEMMA WithinIs ==
    \A n \in 1..Depth :
        Within[n] = [term \in Level[n] |->
            {term} \cup UNION {Within[n - 1][term.body[i]] : i \in DOMAIN term.body}]
<1> DEFINE r == [of |-> "Within"]
           F == Within
<1>1. \A x, y : Value(r, 0, x) = Value(r, 0, y)
  BY LevelIs DEF Value
<1>2. PICK f : f = [n \in 0..Depth |-> Value(r, n, f[n - 1])]
  BY <1>1, RecursionExists, DepthAssumption
<1>3. F = CHOOSE g : g = [n \in 0..Depth |-> Value(r, n, g[n - 1])]
  BY Zenon DEF Within, Value
<1> HIDE DEF F
<1>4. F = [n \in 0..Depth |-> Value(r, n, F[n - 1])]
  BY <1>2, <1>3
<1>5. \A n \in 1..Depth : F[n] = Value(r, n, F[n - 1])
  BY <1>4, LevelNumbers
<1> QED
  BY <1>5 DEF Value, F

\* The recursion of Counted, and that of Holding.
CountedAt(state) == CHOOSE at : at =
    [n \in 0..Depth |->
        [node \in Level[n] |->
            Counts(node, state, Number(at[n - 1], node.body), Len(node.body))]]

HoldingAt(state) == CHOOSE at : at =
    [n \in 0..Depth |->
        [term \in Level[n] |->
            Holds(term, state, Number(at[n - 1], term.body), Len(term.body))]]

\* Counted does what it is defined to: evaluate_required_use asks the
\* objects of depend first.
LEMMA CountedAtIs ==
    ASSUME NEW state
    PROVE  Counted(state) = CountedAt(state)[Depth] /\ \A n \in 1..Depth :
        CountedAt(state)[n] = [node \in Level[n] |->
            Counts(node, state, Number(CountedAt(state)[n - 1], node.body), Len(node.body))]
<1> DEFINE r == [of |-> "Counted", state |-> state]
           F == CountedAt(state)
<1>1. \A x, y : Value(r, 0, x) = Value(r, 0, y)
  BY LevelIs DEF Value
<1>2. PICK f : f = [n \in 0..Depth |-> Value(r, n, f[n - 1])]
  BY <1>1, RecursionExists, DepthAssumption
<1>3. F = CHOOSE g : g = [n \in 0..Depth |-> Value(r, n, g[n - 1])]
  BY DEF CountedAt, Value
<1> HIDE DEF F
<1>4. F = [n \in 0..Depth |-> Value(r, n, F[n - 1])]
  BY <1>2, <1>3
<1>5. \A n \in 1..Depth : F[n] = Value(r, n, F[n - 1])
  BY <1>4, LevelNumbers
<1>6. Counted(state) = CountedAt(state)[Depth]
  BY Zenon DEF Counted, CountedAt
<1> QED
  BY <1>5, <1>6 DEF Value, F

\* Holding does what it is defined to.
LEMMA HoldingAtIs ==
    ASSUME NEW state
    PROVE  Holding(state) = HoldingAt(state)[Depth] /\ \A n \in 1..Depth :
        HoldingAt(state)[n] = [term \in Level[n] |->
            Holds(term, state, Number(HoldingAt(state)[n - 1], term.body), Len(term.body))]
<1> DEFINE r == [of |-> "Holding", state |-> state]
           F == HoldingAt(state)
<1>1. \A x, y : Value(r, 0, x) = Value(r, 0, y)
  BY LevelIs DEF Value
<1>2. PICK f : f = [n \in 0..Depth |-> Value(r, n, f[n - 1])]
  BY <1>1, RecursionExists, DepthAssumption
<1>3. F = CHOOSE g : g = [n \in 0..Depth |-> Value(r, n, g[n - 1])]
  BY DEF HoldingAt, Value
<1> HIDE DEF F
<1>4. F = [n \in 0..Depth |-> Value(r, n, F[n - 1])]
  BY <1>2, <1>3
<1>5. \A n \in 1..Depth : F[n] = Value(r, n, F[n - 1])
  BY <1>4, LevelNumbers
<1>6. Holding(state) = HoldingAt(state)[Depth]
  BY Zenon DEF Holding, HoldingAt
<1> QED
  BY <1>5, <1>6 DEF Value, F

----------------------------------------------------------------------------
(* Terms *)

\* A term of a level has a body of terms of the level below.
LEMMA TermParts ==
    ASSUME NEW n \in 1..Depth, NEW t \in Level[n]
    PROVE  /\ t.op \in Operators /\ t.body \in Seq(Level[n - 1])
           /\ t = [op |-> t.op, name |-> t.name, body |-> t.body]
           /\ IsFlag(t) \/ t.body # <<>>
           /\ Len(t.body) \in Nat /\ DOMAIN t.body = 1..Len(t.body)
           /\ \A i \in 1..Len(t.body) : t.body[i] \in Level[n - 1]
<1>1. t \in {term \in [op : Operators, name : Names, body : Seq(Level[n - 1])] :
                 IsFlag(term) \/ term.body # <<>>}
  BY LevelIs
<1>2. t.op \in Operators /\ t.body \in Seq(Level[n - 1]) /\ (IsFlag(t) \/ t.body # <<>>)
  BY <1>1
<1>3. t = [op |-> t.op, name |-> t.name, body |-> t.body]
  BY <1>1
<1> QED
  BY <1>2, <1>3, LenProperties, ElementOfSeq

\* A term of a level is one of the next.
LEMMA LevelGrows ==
    \A n \in 1..Depth : Level[n - 1] \subseteq Level[n]
<1> DEFINE S == {n \in 0..Depth : n # 0 => Level[n - 1] \subseteq Level[n]}
<1>1. 0 \in S
  BY LevelNumbers
<1>2. ASSUME NEW n \in 1..Depth, n - 1 \in S PROVE n \in S
  <2>1. CASE n - 1 = 0
    BY <2>1, LevelIs, LevelNumbers
  <2>2. CASE n - 1 # 0
    <3>1. PICK m \in 1..Depth : m = n - 1
      BY <2>2, DepthAssumption
    <3>2. Level[m - 1] \subseteq Level[m]
      BY <1>2, <3>1, <2>2
    <3>3. Seq(Level[m - 1]) \subseteq Seq(Level[m])
      BY <3>2
    <3>4. Level[m] = {term \in [op : Operators, name : Names, body : Seq(Level[m - 1])] :
                         IsFlag(term) \/ term.body # <<>>}
      BY LevelIs
    <3>5. Level[n] = {term \in [op : Operators, name : Names, body : Seq(Level[m])] :
                         IsFlag(term) \/ term.body # <<>>}
      BY LevelIs, <3>1
    <3>6. Level[m] \subseteq Level[n]
      BY <3>3, <3>4, <3>5
    <3> QED
      BY <3>1, <3>6, LevelNumbers
  <2> QED
    BY <2>1, <2>2
<1> HIDE DEF S
<1>3. 0..Depth \subseteq S
  BY <1>1, <1>2, InductionUpTo, DepthAssumption
<1> QED
  BY <1>3, LevelNumbers DEF S

\* What is within a term does not depend on the level it is looked at.
LEMMA WithinGrows ==
    \A n \in 1..Depth : \A t \in Level[n - 1] : Within[n - 1][t] = Within[n][t]
<1> DEFINE S == {n \in 0..Depth :
                    n # 0 => \A t \in Level[n - 1] : Within[n - 1][t] = Within[n][t]}
<1>1. 0 \in S
  BY LevelNumbers
<1>2. ASSUME NEW n \in 1..Depth, n - 1 \in S PROVE n \in S
  <2>1. CASE n - 1 = 0
    BY <2>1, LevelIs, LevelNumbers
  <2>2. CASE n - 1 # 0
    <3>1. PICK m \in 1..Depth : m = n - 1
      BY <2>2, DepthAssumption
    <3>2. \A t \in Level[m - 1] : Within[m - 1][t] = Within[m][t]
      BY <1>2, <3>1, <2>2
    <3>3. ASSUME NEW t \in Level[m] PROVE Within[m][t] = Within[n][t]
      <4>1. t \in Level[n]
        BY LevelGrows, <3>1
      <4>2. Within[m][t] = {t} \cup UNION {Within[m - 1][t.body[i]] : i \in DOMAIN t.body}
        BY WithinIs
      <4>3. Within[n][t] = {t} \cup UNION {Within[m][t.body[i]] : i \in DOMAIN t.body}
        <5>1. Within[n][t] = {t} \cup UNION {Within[n - 1][t.body[i]] : i \in DOMAIN t.body}
          BY WithinIs, <4>1
        <5> QED
          BY <5>1, <3>1
      <4>4. \A i \in DOMAIN t.body : t.body[i] \in Level[m - 1]
        BY TermParts
      <4>5. {Within[m - 1][t.body[i]] : i \in DOMAIN t.body} = {Within[m][t.body[i]] : i \in DOMAIN t.body}
        BY <3>2, <4>4
      <4> QED
        BY <4>2, <4>3, <4>5
    <3> QED
      BY <3>1, <3>3, LevelNumbers
  <2> QED
    BY <2>1, <2>2
<1> HIDE DEF S
<1>3. 0..Depth \subseteq S
  BY <1>1, <1>2, InductionUpTo, DepthAssumption
<1> QED
  BY <1>3, LevelNumbers DEF S

\* A term and what is within it, at the level of texts.
LEMMA TopLevel ==
    \A n \in 0..Depth : \A t \in Level[n] :
        t \in Level[Depth] /\ Within[n][t] = Within[Depth][t]
<1> DEFINE S == {m \in 0..Depth : \A n \in 0..m : \A t \in Level[n] :
                    t \in Level[m] /\ Within[n][t] = Within[m][t]}
<1>1. 0 \in S
  BY LevelNumbers
<1>2. ASSUME NEW m \in 1..Depth, m - 1 \in S PROVE m \in S
  <2>1. PICK k \in 0..Depth : k = m - 1
    BY LevelNumbers
  <2>2. ASSUME NEW n \in 0..m, NEW t \in Level[n]
        PROVE  t \in Level[m] /\ Within[n][t] = Within[m][t]
    <3>1. CASE n = m
      BY <3>1
    <3>2. CASE n # m
      <4>1. n \in 0..k
        BY <3>2, <2>1
      <4>2. t \in Level[k] /\ Within[n][t] = Within[k][t]
        BY <1>2, <2>1, <4>1
      <4> QED
        BY <4>2, <2>1, LevelGrows, WithinGrows
    <3> QED
      BY <3>1, <3>2
  <2> QED
    BY <2>2, LevelNumbers
<1> HIDE DEF S
<1>3. 0..Depth \subseteq S
  BY <1>1, <1>2, InductionUpTo, DepthAssumption
<1>4. Depth \in S
  BY <1>3, LevelNumbers
<1> QED
  BY <1>4 DEF S

\* What is within a term is the term, and the terms of its body.
LEMMA TermsWithin ==
    ASSUME NEW n \in 1..Depth, NEW t \in Level[n]
    PROVE  /\ Within[Depth][t] = {t} \cup Terms(t.body)
           /\ \A i \in 1..Len(t.body) : Within[Depth][t.body[i]] \subseteq Terms(t.body)
<1>1. Within[n][t] = {t} \cup UNION {Within[n - 1][t.body[i]] : i \in DOMAIN t.body}
  BY WithinIs
<1>2. Within[n][t] = Within[Depth][t]
  BY TopLevel, LevelNumbers
<1>3. \A i \in DOMAIN t.body : Within[n - 1][t.body[i]] = Within[Depth][t.body[i]]
  BY TopLevel, LevelNumbers, TermParts
<1>4. {Within[n - 1][t.body[i]] : i \in DOMAIN t.body} = {Within[Depth][t.body[i]] : i \in DOMAIN t.body}
  BY <1>3
<1>5. DOMAIN t.body = 1..Len(t.body)
  BY TermParts
<1> QED
  BY <1>1, <1>2, <1>4, <1>5 DEF Terms

----------------------------------------------------------------------------
(* What counts, and what holds *)

\* Number counts up to the length of the text.
LEMMA NumberIs ==
    ASSUME NEW true, NEW text, Len(text) \in Nat, DOMAIN text = 1..Len(text)
    PROVE  /\ Number(true, text) \in Nat
           /\ Number(true, text) = Len(text) <=> \A i \in DOMAIN text : true[text[i]]
           /\ Number(true, text) >= 1 <=> \E i \in DOMAIN text : true[text[i]]
<1> DEFINE n == Len(text)
           R == {i \in DOMAIN text : true[text[i]]}
<1>1. IsFiniteSet(1..n) /\ Cardinality(1..n) = n
  <2>1. n \in Nat
    OBVIOUS
  <2> HIDE DEF n
  <2>2. IsFiniteSet(1..n) /\ Cardinality(1..n) = IF 1 > n THEN 0 ELSE n - 1 + 1
    BY <2>1, FS_Interval
  <2> QED
    BY <2>1, <2>2
<1>2. R \subseteq 1..n
  OBVIOUS
<1>3. IsFiniteSet(R) /\ Cardinality(R) \in Nat
  BY <1>1, <1>2, FS_Subset, FS_CardinalityType
<1>4. Cardinality(R) = n => R = 1..n
  BY <1>1, <1>2, FS_Subset
<1>5. R = 1..n => Cardinality(R) = n
  BY <1>1
<1>6. Cardinality(R) = 0 <=> R = {}
  BY <1>3, FS_EmptySet
<1>7. R = 1..n <=> \A i \in DOMAIN text : true[text[i]]
  BY Zenon
<1>8. R = {} <=> ~(\E i \in DOMAIN text : true[text[i]])
  BY Zenon
<1> HIDE DEF R
<1>9. Number(true, text) = Cardinality(R)
  BY Zenon DEF Number, R
<1>10. Cardinality(R) >= 1 <=> R # {}
  BY <1>3, <1>6
<1> QED
  BY <1>3, <1>4, <1>5, <1>7, <1>8, <1>9, <1>10

\* Truths that agree on a text are of as many of its terms.
LEMMA SameNumber ==
    ASSUME NEW f, NEW g, NEW text, \A i \in DOMAIN text : f[text[i]] <=> g[text[i]]
    PROVE  Number(f, text) = Number(g, text)
<1>1. {i \in DOMAIN text : f[text[i]]} = {i \in DOMAIN text : g[text[i]]}
  OBVIOUS
<1> QED
  BY <1>1 DEF Number

\* Terms that are one object each are linked as they are written.
LEMMA LinkedAsWritten ==
    ASSUME NEW S, NEW text \in Seq(S), NEW nodes,
           \A i \in 1..Len(text) : nodes[text[i]] = <<text[i]>>
    PROVE  Linked(nodes, text) = text
<1>1. CASE text = <<>>
  BY <1>1 DEF Linked
<1>2. CASE text # <<>>
  <2> DEFINE n == Len(text) - 1
  <2>1. n \in Nat /\ Len(text) = n + 1 /\ Len(text) \in 1..Len(text) /\ Len(text) - 1 = n
    <3>1. Len(text) \in Nat /\ Len(text) # 0
      BY <1>2, LenProperties, EmptySeq
    <3> QED
      BY <3>1
  <2> HIDE DEF n
  <2>2. text \in [1..Len(text) -> S]
    BY ElementOfSeq
  <2> DEFINE firsts == [i \in 1..n |-> nodes[text[i]][1]]
             last == <<text[n + 1]>>
  <2>3. \A i \in 1..n : firsts[i] = text[i] /\ text[i] \in S
    <3> SUFFICES ASSUME NEW i \in 1..n PROVE nodes[text[i]][1] = text[i] /\ text[i] \in S
      OBVIOUS
    <3>1. i \in 1..Len(text)
      BY <2>1
    <3>2. nodes[text[i]] = <<text[i]>>
      BY <3>1
    <3> QED
      BY <2>2, <3>1, <3>2
  <2>4. firsts \in Seq(S) /\ Len(firsts) = n
    BY <2>1, <2>3
  <2>5. last \in Seq(S) /\ Len(last) = 1 /\ last[1] = text[n + 1]
    BY <2>1, <2>2
  <2>6. Linked(nodes, text) = firsts \o last
    <3>1. nodes[text[Len(text)]] = last
      BY <2>1
    <3>2. Len(text) - 1 = n
      BY <2>1
    <3> QED
      BY <1>2, <3>1, <3>2 DEF Linked
  <2> HIDE DEF firsts, last
  <2>7. /\ firsts \o last \in Seq(S) /\ Len(firsts \o last) = n + 1
        /\ \A i \in 1..n + 1 : (firsts \o last)[i] = IF i <= n THEN firsts[i] ELSE last[i - n]
    <3>1. /\ firsts \o last \in Seq(S) /\ Len(firsts \o last) = Len(firsts) + Len(last)
          /\ \A i \in 1..Len(firsts) + Len(last) : (firsts \o last)[i] =
                IF i <= Len(firsts) THEN firsts[i] ELSE last[i - Len(firsts)]
      BY <2>4, <2>5, ConcatProperties
    <3> QED
      BY <2>4, <2>5, <3>1
  <2>8. \A i \in 1..Len(firsts \o last) : (firsts \o last)[i] = text[i]
    <3> SUFFICES ASSUME NEW i \in 1..n + 1 PROVE (firsts \o last)[i] = text[i]
      BY <2>7
    <3>1. CASE i <= n
      <4>1. i \in 1..n
        BY <3>1
      <4> QED
        BY <2>3, <2>7, <3>1, <4>1
    <3>2. CASE ~(i <= n)
      <4>1. i = n + 1 /\ i - n = 1
        BY <2>1, <3>2
      <4> QED
        BY <2>5, <2>7, <3>2, <4>1
    <3> QED
      BY <3>1, <3>2
  <2>9. firsts \o last = text
    BY <2>1, <2>7, <2>8, SeqEqual
  <2> QED
    BY <2>6, <2>9
<1> QED
  BY <1>1, <1>2

\* A term with no groups is one object, the term itself.
NoGroups(t) == \A u \in Within[Depth][t] : u.op # "group"

\* No groups within a term are none within the terms of its body.
LEMMA BodyWithoutGroups ==
    ASSUME NEW n \in 1..Depth, NEW t \in Level[n], NoGroups(t)
    PROVE  t.op # "group" /\ \A i \in 1..Len(t.body) : NoGroups(t.body[i])
BY TermsWithin DEF NoGroups

\* required_use_single makes one object of a term without groups.
LEMMA NodeIsTerm ==
    \A n \in 1..Depth : \A t \in Level[n] : NoGroups(t) => NodesAt[n][t] = <<t>>
<1> DEFINE S == {n \in 0..Depth : \A t \in Level[n] : NoGroups(t) => NodesAt[n][t] = <<t>>}
<1>1. 0 \in S
  BY LevelNumbers, LevelIs
<1>2. ASSUME NEW n \in 1..Depth, n - 1 \in S PROVE n \in S
  <2>1. ASSUME NEW t \in Level[n], NoGroups(t) PROVE NodesAt[n][t] = <<t>>
    <3>1. t.op # "group" /\ \A i \in 1..Len(t.body) : NoGroups(t.body[i])
      BY <2>1, BodyWithoutGroups
    <3>2. \A i \in 1..Len(t.body) : NodesAt[n - 1][t.body[i]] = <<t.body[i]>>
      BY <1>2, <3>1, TermParts
    <3>3. Linked(NodesAt[n - 1], t.body) = t.body
      BY <3>2, TermParts, LinkedAsWritten
    <3>4. NodesAt[n][t] = <<[t EXCEPT !.body = Linked(NodesAt[n - 1], t.body)]>>
      BY <3>1, NodesAtIs
    <3>5. [t EXCEPT !.body = t.body] = t
      BY TermParts
    <3> QED
      BY <3>3, <3>4, <3>5
  <2> QED
    BY <2>1, LevelNumbers
<1> HIDE DEF S
<1>3. 0..Depth \subseteq S
  BY <1>1, <1>2, InductionUpTo, DepthAssumption
<1> QED
  BY <1>3, LevelNumbers DEF S

\* The places of a text hold terms of the highest level, if there are any.
LEMMA TextParts ==
    ASSUME NEW text \in Texts
    PROVE  /\ Len(text) \in Nat /\ DOMAIN text = 1..Len(text)
           /\ \A i \in 1..Len(text) : text[i] \in Level[Depth] /\ Depth \in 1..Depth
<1>1. Len(text) \in Nat /\ DOMAIN text = 1..Len(text) /\ \A i \in 1..Len(text) : text[i] \in Level[Depth]
  BY LenProperties, ElementOfSeq DEF Texts
<1>2. Depth \in 1..Depth \/ Depth = 0
  BY DepthAssumption
<1> QED
  BY <1>1, <1>2, LevelIs

\* A text with no groups is what it is parsed to be.
LEMMA ParsedIsText ==
    ASSUME NEW text \in Texts, ~HasGroups(text)
    PROVE  Parsed(text) = text
<1>1. \A i \in 1..Len(text) : NodesAt[Depth][text[i]] = <<text[i]>>
  <2> SUFFICES ASSUME NEW i \in 1..Len(text) PROVE NodesAt[Depth][text[i]] = <<text[i]>>
    OBVIOUS
  <2>1. text[i] \in Level[Depth] /\ Depth \in 1..Depth /\ i \in DOMAIN text
    BY TextParts
  <2>2. NoGroups(text[i])
    BY <2>1 DEF NoGroups, HasGroups, Terms
  <2> QED
    BY <2>1, <2>2, NodeIsTerm
<1>2. text \in Seq(Level[Depth])
  BY DEF Texts
<1> QED
  BY <1>1, <1>2, LinkedAsWritten DEF Parsed

\* Without conditions, what counts is what holds.
NoConditions(t) == \A u \in Within[Depth][t] : ~IsCondition(u)

\* evaluate_required_use counts the objects of such terms that hold.
LEMMA CountsAsHolds ==
    ASSUME NEW state
    PROVE  \A n \in 1..Depth : \A t \in Level[n] : NoGroups(t) /\ NoConditions(t) =>
               (CountedAt(state)[n][t] <=> HoldingAt(state)[n][t])
<1> DEFINE C == CountedAt(state)
           H == HoldingAt(state)
           S == {n \in 0..Depth : \A t \in Level[n] :
                    NoGroups(t) /\ NoConditions(t) => (C[n][t] <=> H[n][t])}
<1> HIDE DEF C, H
<1>1. 0 \in S
  BY LevelNumbers, LevelIs
<1>2. ASSUME NEW n \in 1..Depth, n - 1 \in S PROVE n \in S
  <2>1. ASSUME NEW t \in Level[n], NoGroups(t), NoConditions(t) PROVE C[n][t] <=> H[n][t]
    <3> DEFINE k == Number(C[n - 1], t.body)
               l == Number(H[n - 1], t.body)
    <3>1. t.op # "group" /\ \A i \in 1..Len(t.body) : NoGroups(t.body[i])
      BY <2>1, BodyWithoutGroups
    <3>2. ~IsCondition(t) /\ \A i \in 1..Len(t.body) : NoConditions(t.body[i])
      BY <2>1, TermsWithin DEF NoConditions
    <3>3. \A i \in DOMAIN t.body : C[n - 1][t.body[i]] <=> H[n - 1][t.body[i]]
      BY <1>2, <3>1, <3>2, TermParts
    <3>4. k = l
      BY <3>3, SameNumber
    <3>5. t.body = <<>> => k = Len(t.body)
      <4> SUFFICES ASSUME t.body = <<>> PROVE k = Len(t.body)
        OBVIOUS
      <4>1. Len(t.body) \in Nat /\ DOMAIN t.body = 1..Len(t.body) /\ Len(t.body) = 0
        BY TermParts
      <4>2. \A i \in DOMAIN t.body : C[n - 1][t.body[i]]
        BY <4>1
      <4> QED
        BY <4>1, <4>2, NumberIs
    <3>6. C[n][t] <=> Counts(t, state, k, Len(t.body))
      <4>1. C[n] = [node \in Level[n] |->
                Counts(node, state, Number(C[n - 1], node.body), Len(node.body))]
        BY CountedAtIs DEF C
      <4>2. C[n][t] = Counts(t, state, Number(C[n - 1], t.body), Len(t.body))
        BY <4>1, Zenon
      <4> QED
        BY <4>2, Zenon
    <3>7. H[n][t] <=> Holds(t, state, l, Len(t.body))
      <4>1. H[n] = [node \in Level[n] |->
                Holds(node, state, Number(H[n - 1], node.body), Len(node.body))]
        BY HoldingAtIs DEF H
      <4>2. H[n][t] = Holds(t, state, Number(H[n - 1], t.body), Len(t.body))
        BY <4>1, Zenon
      <4> QED
        BY <4>2, Zenon
    <3> HIDE DEF k, l
    <3>8. Counts(t, state, k, Len(t.body)) <=> Holds(t, state, k, Len(t.body))
      BY <3>1, <3>2, <3>5 DEF Counts, Holds, IsCondition, IsFlag
    <3> QED
      BY <3>4, <3>6, <3>7, <3>8
  <2> QED
    BY <2>1, LevelNumbers
<1> HIDE DEF S
<1>3. 0..Depth \subseteq S
  BY <1>1, <1>2, InductionUpTo, DepthAssumption
<1>4. \A n \in 1..Depth : n \in S
  BY <1>3, LevelNumbers
<1> QED
  BY <1>4 DEF S, C, H

\* A term that counts holds, if conditions are not counted.
NoCountedConditions(t) ==
    \A u \in Within[Depth][t] : u.op \in {"one", "most"} => ~HasConditions(u.body)

\* evaluate_required_use counts no object of such a term that does not
\* hold: a condition that is off is the only difference.
LEMMA CountsOnlyIfHolds ==
    ASSUME NEW state
    PROVE  \A n \in 1..Depth : \A t \in Level[n] : NoGroups(t) /\ NoCountedConditions(t) =>
               (CountedAt(state)[n][t] => HoldingAt(state)[n][t])
<1> DEFINE C == CountedAt(state)
           H == HoldingAt(state)
           S == {n \in 0..Depth : \A t \in Level[n] :
                    NoGroups(t) /\ NoCountedConditions(t) => (C[n][t] => H[n][t])}
<1> HIDE DEF C, H
<1>1. 0 \in S
  BY LevelNumbers, LevelIs
<1>2. ASSUME NEW n \in 1..Depth, n - 1 \in S PROVE n \in S
  <2>1. ASSUME NEW t \in Level[n], NoGroups(t), NoCountedConditions(t), C[n][t] PROVE H[n][t]
    <3> DEFINE k == Number(C[n - 1], t.body)
               l == Number(H[n - 1], t.body)
               m == Len(t.body)
    <3>1. t.op # "group" /\ \A i \in 1..Len(t.body) : NoGroups(t.body[i])
      BY <2>1, BodyWithoutGroups
    <3>2. \A i \in 1..Len(t.body) : NoCountedConditions(t.body[i])
      BY <2>1, TermsWithin DEF NoCountedConditions
    <3>3. \A i \in DOMAIN t.body : C[n - 1][t.body[i]] => H[n - 1][t.body[i]]
      BY <1>2, <3>1, <3>2, TermParts
    <3>4. m \in Nat /\ DOMAIN t.body = 1..m
      BY TermParts
    <3>5. /\ k = m <=> \A i \in DOMAIN t.body : C[n - 1][t.body[i]]
          /\ k >= 1 <=> \E i \in DOMAIN t.body : C[n - 1][t.body[i]]
      BY <3>4, NumberIs
    <3>6. /\ l = m <=> \A i \in DOMAIN t.body : H[n - 1][t.body[i]]
          /\ l >= 1 <=> \E i \in DOMAIN t.body : H[n - 1][t.body[i]]
      BY <3>4, NumberIs
    <3>7. (k = m => l = m) /\ (k >= 1 => l >= 1)
      BY <3>3, <3>5, <3>6
    <3>8. t.op \in {"one", "most"} => k = l
      <4> SUFFICES ASSUME t.op \in {"one", "most"} PROVE k = l
        OBVIOUS
      <4>1. ~HasConditions(t.body)
        BY <2>1, TermsWithin DEF NoCountedConditions
      <4>2. \A i \in 1..m : NoConditions(t.body[i])
        BY <4>1, TermsWithin DEF NoConditions, HasConditions
      <4>3. \A i \in DOMAIN t.body : C[n - 1][t.body[i]] <=> H[n - 1][t.body[i]]
        <5> SUFFICES ASSUME NEW i \in 1..m PROVE C[n - 1][t.body[i]] <=> H[n - 1][t.body[i]]
          BY <3>4
        <5>1. t.body[i] \in Level[n - 1] /\ n - 1 \in 1..Depth
          <6>1. t.body[i] \in Level[n - 1]
            BY TermParts
          <6>2. n - 1 # 0
            BY <6>1, LevelIs
          <6> QED
            BY <6>1, <6>2, DepthAssumption
        <5> QED
          BY <3>1, <4>2, <5>1, CountsAsHolds DEF C, H
      <4> QED
        BY <4>3, SameNumber
    <3>9. Counts(t, state, k, m)
      <4>1. C[n] = [node \in Level[n] |->
                Counts(node, state, Number(C[n - 1], node.body), Len(node.body))]
        BY CountedAtIs DEF C
      <4>2. C[n][t] = Counts(t, state, Number(C[n - 1], t.body), Len(t.body))
        BY <4>1, Zenon
      <4> QED
        BY <2>1, <4>2, Zenon
    <3>10. H[n][t] <=> Holds(t, state, l, m)
      <4>1. H[n] = [node \in Level[n] |->
                Holds(node, state, Number(H[n - 1], node.body), Len(node.body))]
        BY HoldingAtIs DEF H
      <4>2. H[n][t] = Holds(t, state, Number(H[n - 1], t.body), Len(t.body))
        BY <4>1, Zenon
      <4> QED
        BY <4>2, Zenon
    <3>11. t.body = <<>> <=> m = 0
      BY TermParts, EmptySeq
    <3> HIDE DEF k, l, m
    <3>12. Holds(t, state, l, m)
      BY <3>1, <3>7, <3>8, <3>9, <3>11 DEF Counts, Holds, IsFlag
    <3> QED
      BY <3>10, <3>12
  <2> QED
    BY <2>1, LevelNumbers
<1> HIDE DEF S
<1>3. 0..Depth \subseteq S
  BY <1>1, <1>2, InductionUpTo, DepthAssumption
<1>4. \A n \in 1..Depth : n \in S
  BY <1>3, LevelNumbers
<1> QED
  BY <1>4 DEF S, C, H

\* What RequiredUseKept says of a text, for any state of the flags.
LEMMA TextKept ==
    ASSUME NEW text \in Texts, NEW state, ~HasGroups(text)
    PROVE  /\ ~CountsConditions(text) => (Accepted(Parsed(text), state) => Means(text, state))
           /\ ~HasConditions(text) => (Means(text, state) => Accepted(Parsed(text), state))
<1> DEFINE C == Counted(state)
           H == Holding(state)
<1>1. Parsed(text) = text
  BY ParsedIsText
<1>2. Len(text) \in Nat /\ DOMAIN text = 1..Len(text)
  BY TextParts
<1>3. Accepted(Parsed(text), state) <=> \A i \in DOMAIN text : C[text[i]]
  BY <1>1, <1>2, NumberIs DEF Accepted
<1>4. Means(text, state) <=> \A i \in DOMAIN text : H[text[i]]
  BY <1>2, NumberIs DEF Means
<1>5. C = CountedAt(state)[Depth] /\ H = HoldingAt(state)[Depth]
  BY CountedAtIs, HoldingAtIs
<1>6. \A i \in DOMAIN text : text[i] \in Level[Depth] /\ Depth \in 1..Depth /\ NoGroups(text[i])
  BY <1>2, TextParts DEF NoGroups, HasGroups, Terms
<1> HIDE DEF C, H
<1>7. ASSUME ~CountsConditions(text), NEW i \in DOMAIN text, C[text[i]] PROVE H[text[i]]
  <2>1. NoCountedConditions(text[i])
    BY <1>7 DEF NoCountedConditions, CountsConditions, Terms
  <2> QED
    BY <1>5, <1>6, <1>7, <2>1, CountsOnlyIfHolds
<1>8. ASSUME ~HasConditions(text), NEW i \in DOMAIN text PROVE C[text[i]] <=> H[text[i]]
  <2>1. NoConditions(text[i])
    BY <1>8 DEF NoConditions, HasConditions, Terms
  <2> QED
    BY <1>5, <1>6, <2>1, CountsAsHolds
<1> QED
  BY <1>3, <1>4, <1>7, <1>8

----------------------------------------------------------------------------
(* Tokens of a line *)

\* The last of some places is the highest.
LEMMA LastIs ==
    ASSUME NEW S \in SUBSET Nat, NEW i \in S, \A j \in S : j <= i
    PROVE  Last(S) = i
<1>1. \A k \in S : (\A j \in S : j <= k) => k = i
  OBVIOUS
<1>2. Last(S) \in S /\ \A j \in S : j <= Last(S)
  BY Zenon DEF Last
<1> QED
  BY <1>1, <1>2

\* The next place is the last.
LEMMA LastGrows ==
    ASSUME NEW n \in Nat, NEW S \in SUBSET (1..n)
    PROVE  Last(S \cup {n + 1}) = n + 1
<1>1. S \cup {n + 1} \in SUBSET Nat /\ n + 1 \in S \cup {n + 1}
  OBVIOUS
<1>2. \A j \in S \cup {n + 1} : j <= n + 1
  OBVIOUS
<1> QED
  BY <1>1, <1>2, LastIs

\* The tokens up to n for an architecture, or for a flag.
ForArch(tokens, a, n) == {i \in 1..n : tokens[i].arch \in {a, "*"}}
ForFlag(tokens, k, n) == {i \in 1..n : tokens[i].name = k}

KeywordsAfter(tokens, old, n) ==
    [a \in Arches |-> IF ForArch(tokens, a, n) = {} THEN old[a]
                      ELSE tokens[Last(ForArch(tokens, a, n))].keyword]

IUseAfter(tokens, old, n) ==
    [k \in {tokens[i].name : i \in 1..n} \cup DOMAIN old |->
        IF ForFlag(tokens, k, n) = {} THEN old[k] ELSE tokens[Last(ForFlag(tokens, k, n))].on]

\* KEYWORDS: an architecture has the keyword of its last token.
LEMMA KeywordsOfIs ==
    ASSUME NEW tokens, Len(tokens) \in Nat, NEW old, old = [a \in Arches |-> old[a]]
    PROVE  KeywordsOf(tokens, old) = KeywordsAfter(tokens, old, Len(tokens))
<1> DEFINE N == Len(tokens)
           r == [of |-> "KeywordsOf", items |-> tokens, first |-> old]
           F == CHOOSE upTo : upTo = [n \in 0..N |->
                    IF n = 0 THEN old
                    ELSE [a \in Arches |-> IF tokens[n].arch \in {a, "*"} THEN tokens[n].keyword
                                           ELSE upTo[n - 1][a]]]
<1>1. \A x, y : Value(r, 0, x) = Value(r, 0, y)
  BY DEF Value
<1>2. PICK f : f = [n \in 0..N |-> Value(r, n, f[n - 1])]
  BY <1>1, RecursionExists
<1>3. F = CHOOSE g : g = [n \in 0..N |-> Value(r, n, g[n - 1])]
  BY DEF Value
<1>4. KeywordsOf(tokens, old) = F[N]
  BY Zenon DEF KeywordsOf
<1> HIDE DEF F
<1>5. F = [n \in 0..N |-> Value(r, n, F[n - 1])]
  BY <1>2, <1>3
<1>6. F[0] = old
  <2>1. F[0] = Value(r, 0, F[0 - 1])
    BY <1>5
  <2> QED
    BY <2>1 DEF Value
<1>7. \A n \in 1..N : F[n] = [a \in Arches |->
          IF tokens[n].arch \in {a, "*"} THEN tokens[n].keyword ELSE F[n - 1][a]]
  <2>1. \A n \in 1..N : F[n] = Value(r, n, F[n - 1]) /\ n # 0
    BY <1>5
  <2> QED
    BY <2>1 DEF Value
<1> DEFINE S == {n \in 0..N : F[n] = KeywordsAfter(tokens, old, n)}
<1>8. 0 \in S
  <2>1. \A a : ForArch(tokens, a, 0) = {}
    BY DEF ForArch
  <2>2. KeywordsAfter(tokens, old, 0) = [a \in Arches |-> old[a]]
    BY <2>1 DEF KeywordsAfter
  <2> QED
    BY <1>6, <2>2
<1>9. ASSUME NEW n \in 1..N, n - 1 \in S PROVE n \in S
  <2>1. PICK m \in Nat : m = n - 1 /\ n = m + 1 /\ n \in 0..N
    OBVIOUS
  <2>2. F[m] = KeywordsAfter(tokens, old, m)
    BY <1>9, <2>1
  <2>3. F[n] = [a \in Arches |->
            IF tokens[n].arch \in {a, "*"} THEN tokens[n].keyword ELSE F[m][a]]
    BY <1>7, <2>1
  <2>4. ASSUME NEW a \in Arches
        PROVE  F[n][a] = IF ForArch(tokens, a, n) = {} THEN old[a]
                         ELSE tokens[Last(ForArch(tokens, a, n))].keyword
    <3>1. ForArch(tokens, a, m) \in SUBSET (1..m)
      BY DEF ForArch
    <3>2. CASE tokens[n].arch \in {a, "*"}
      <4>1. ForArch(tokens, a, n) = ForArch(tokens, a, m) \cup {n}
        BY <2>1, <3>2 DEF ForArch
      <4>2. Last(ForArch(tokens, a, n)) = n
        BY <2>1, <3>1, <4>1, LastGrows
      <4> QED
        BY <2>3, <3>2, <4>1, <4>2
    <3>3. CASE ~(tokens[n].arch \in {a, "*"})
      <4>1. ForArch(tokens, a, n) = ForArch(tokens, a, m)
        BY <2>1, <3>3 DEF ForArch
      <4> QED
        BY <2>2, <2>3, <3>3, <4>1 DEF KeywordsAfter
    <3> QED
      BY <3>2, <3>3
  <2>5. F[n] = KeywordsAfter(tokens, old, n)
    BY <2>3, <2>4 DEF KeywordsAfter
  <2> QED
    BY <2>1, <2>5
<1> HIDE DEF S
<1>10. 0..N \subseteq S
  BY <1>8, <1>9, InductionUpTo
<1>11. N \in S
  BY <1>10
<1> QED
  BY <1>4, <1>11 DEF S

\* IUSE: a flag has the state of its last token.
LEMMA IUseOfIs ==
    ASSUME NEW tokens, Len(tokens) \in Nat, NEW old, old = [k \in DOMAIN old |-> old[k]]
    PROVE  IUseOf(tokens, old) = IUseAfter(tokens, old, Len(tokens))
<1> DEFINE N == Len(tokens)
           r == [of |-> "IUseOf", items |-> tokens, first |-> old]
           P(n, before) == IF n = 0 THEN old
                           ELSE Over([k \in {tokens[n].name} |-> tokens[n].on], before)
           F == CHOOSE upTo : upTo = [n \in 0..N |-> P(n, upTo[n - 1])]
<1>1. \A x, y : Value(r, 0, x) = Value(r, 0, y)
  BY DEF Value
<1>2. PICK f : f = [n \in 0..N |-> Value(r, n, f[n - 1])]
  BY <1>1, RecursionExists
<1>3. \A n, before : Value(r, n, before) = P(n, before)
  BY DEF Value
<1>4. IUseOf(tokens, old) = F[N]
  BY Zenon DEF IUseOf
<1> HIDE DEF P
<1>5. F = [n \in 0..N |-> P(n, F[n - 1])]
  <2>1. f = [n \in 0..N |-> P(n, f[n - 1])]
    BY <1>2, <1>3
  <2> QED
    BY <2>1
<1> HIDE DEF F
<1>6. F[0] = old
  <2>1. F[0] = P(0, F[0 - 1])
    BY <1>5
  <2> QED
    BY <2>1 DEF P
<1>7. \A n \in 1..N : F[n] = Over([k \in {tokens[n].name} |-> tokens[n].on], F[n - 1])
  <2>1. \A n \in 1..N : F[n] = P(n, F[n - 1]) /\ n # 0
    BY <1>5
  <2> QED
    BY <2>1 DEF P
<1> DEFINE S == {n \in 0..N : F[n] = IUseAfter(tokens, old, n)}
<1>8. 0 \in S
  <2>1. \A k : ForFlag(tokens, k, 0) = {}
    BY DEF ForFlag
  <2>2. {tokens[i].name : i \in 1..0} \cup DOMAIN old = DOMAIN old
    <3>1. 1..0 = {}
      OBVIOUS
    <3> QED
      BY <3>1
  <2>3. IUseAfter(tokens, old, 0) = [k \in DOMAIN old |-> old[k]]
    BY <2>1, <2>2 DEF IUseAfter
  <2> QED
    BY <1>6, <2>3
<1>9. ASSUME NEW n \in 1..N, n - 1 \in S PROVE n \in S
  <2>1. PICK m \in Nat : m = n - 1 /\ n = m + 1 /\ n \in 0..N
    OBVIOUS
  <2> DEFINE name == tokens[n].name
             item == [k \in {name} |-> tokens[n].on]
             before == {tokens[i].name : i \in 1..m} \cup DOMAIN old
             D == {tokens[i].name : i \in 1..n} \cup DOMAIN old
  <2>2. F[m] = IUseAfter(tokens, old, m) /\ DOMAIN F[m] = before
    BY <1>9, <2>1 DEF IUseAfter
  <2>3. D = {name} \cup before
    <3>1. 1..n = 1..m \cup {n}
      BY <2>1
    <3> QED
      BY <3>1
  <2>4. F[n] = [k \in D |-> IF k \in {name} THEN item[k] ELSE F[m][k]]
    <3>1. DOMAIN item = {name} /\ F[n] = Over(item, F[m])
      BY <1>7, <2>1
    <3> HIDE DEF item, before, D
    <3> QED
      BY <2>2, <2>3, <3>1 DEF Over
  <2>5. ASSUME NEW k \in D
        PROVE  F[n][k] = IF ForFlag(tokens, k, n) = {} THEN old[k]
                         ELSE tokens[Last(ForFlag(tokens, k, n))].on
    <3>1. ForFlag(tokens, k, m) \in SUBSET (1..m)
      BY DEF ForFlag
    <3>2. CASE k = name
      <4>1. ForFlag(tokens, k, n) = ForFlag(tokens, k, m) \cup {n}
        BY <2>1, <3>2 DEF ForFlag
      <4>2. Last(ForFlag(tokens, k, n)) = n
        BY <2>1, <3>1, <4>1, LastGrows
      <4> QED
        BY <2>4, <3>2, <4>1, <4>2
    <3>3. CASE k # name
      <4>1. ForFlag(tokens, k, n) = ForFlag(tokens, k, m)
        BY <2>1, <3>3 DEF ForFlag
      <4>2. k \in before /\ F[n][k] = F[m][k]
        BY <2>3, <2>4, <3>3
      <4>3. F[m][k] = IF ForFlag(tokens, k, m) = {} THEN old[k]
                      ELSE tokens[Last(ForFlag(tokens, k, m))].on
        BY <2>2, <4>2 DEF IUseAfter
      <4> QED
        BY <4>1, <4>2, <4>3
    <3> QED
      BY <3>2, <3>3
  <2>6. F[n] = IUseAfter(tokens, old, n)
    <3> HIDE DEF item, before
    <3>1. F[n] = [k \in D |-> F[n][k]]
      BY <2>4
    <3> HIDE DEF D
    <3>2. F[n] = [k \in D |-> IF ForFlag(tokens, k, n) = {} THEN old[k]
                              ELSE tokens[Last(ForFlag(tokens, k, n))].on]
      BY <2>5, <3>1
    <3> QED
      BY <3>2 DEF IUseAfter, D
  <2> QED
    BY <2>1, <2>6
<1> HIDE DEF S
<1>10. 0..N \subseteq S
  BY <1>8, <1>9, InductionUpTo
<1>11. N \in S
  BY <1>10
<1> QED
  BY <1>4, <1>11 DEF S

----------------------------------------------------------------------------
(* Reading *)

\* A reading of lines goes line by line.
LEMMA ReadLinesIs ==
    ASSUME NEW lines, Len(lines) \in Nat, lines = file, NEW begin
    PROVE  \E R : /\ R[0] = begin /\ ReadLines(begin) = R[Len(lines)]
                  /\ \A n \in 1..Len(lines) : R[n] = ReadLine(R[n - 1], lines[n])
<1> DEFINE N == Len(lines)
           r == [of |-> "ReadLines", items |-> lines, first |-> begin]
           P(n, before) == IF n = 0 THEN begin ELSE ReadLine(before, lines[n])
           F == CHOOSE upTo : upTo = [n \in 0..N |-> P(n, upTo[n - 1])]
<1>1. \A x, y : Value(r, 0, x) = Value(r, 0, y)
  BY DEF Value
<1>2. PICK f : f = [n \in 0..N |-> Value(r, n, f[n - 1])]
  BY <1>1, RecursionExists
<1>3. \A n, before : Value(r, n, before) = P(n, before)
  BY DEF Value
<1>4. ReadLines(begin) = F[N]
  BY Zenon DEF ReadLines
<1> HIDE DEF P
<1>5. F = [n \in 0..N |-> P(n, F[n - 1])]
  <2>1. f = [n \in 0..N |-> P(n, f[n - 1])]
    BY <1>2, <1>3
  <2> QED
    BY <2>1
<1> HIDE DEF F
<1>6. F[0] = begin
  <2>1. F[0] = P(0, F[0 - 1])
    BY <1>5
  <2> QED
    BY <2>1 DEF P
<1>7. \A n \in 1..N : F[n] = ReadLine(F[n - 1], lines[n])
  <2>1. \A n \in 1..N : F[n] = P(n, F[n - 1]) /\ n # 0
    BY <1>5
  <2> QED
    BY <2>1 DEF P
<1> QED
  BY <1>4, <1>6, <1>7

\* The fields of a metadata record and of a reading.
IsMeta(m) ==
    /\ m = [depend |-> m.depend, slot |-> m.slot, subSlot |-> m.subSlot,
            required |-> m.required, keywords |-> m.keywords, iuse |-> m.iuse,
            initialized |-> m.initialized]
    /\ m.depend = [d \in Dependencies |-> m.depend[d]]
    /\ m.initialized \in BOOLEAN

IsReading(r) ==
    /\ r = [meta |-> r.meta, error |-> r.error, left |-> r.left]
    /\ IsMeta(r.meta) /\ r.left \in BOOLEAN

\* What a line does to a reading that goes on.
DependRead(r, line, s) ==
    /\ s.left = r.left
    /\ r.meta.depend[line.key] # Null => s.meta.depend = r.meta.depend /\ s.error = 1
    /\ r.meta.depend[line.key] = Null =>
         IF line.value = Bad THEN s.meta.depend = r.meta.depend /\ s.error = 2
         ELSE s.meta.depend = [r.meta.depend EXCEPT ![line.key] = line.value] /\ s.error = r.error

SlotRead(r, line, s) ==
    /\ s.meta.slot = line.value[1]
    /\ s.meta.subSlot = IF Len(line.value) > 1 THEN line.value[2] ELSE r.meta.subSlot

RequiredRead(r, line, s) ==
    IF line.value = Bad THEN s.error = 3 /\ s.left
    ELSE s.meta.required = Parsed(line.value) /\ s.error = r.error /\ s.left = r.left

\* A line of DEPEND, RDEPEND, PDEPEND or BDEPEND, with its three outcomes,
\* leaves the other fields alone.
LEMMA DependLine ==
    ASSUME NEW r, IsReading(r), NEW line, ~r.left, line.key \in Dependencies, NEW s, s = ReadLine(r, line)
    PROVE  /\ IsReading(s) /\ DependRead(r, line, s)
           /\ s.meta.slot = r.meta.slot /\ s.meta.subSlot = r.meta.subSlot
           /\ s.meta.required = r.meta.required /\ s.meta.keywords = r.meta.keywords
           /\ s.meta.iuse = r.meta.iuse /\ s.meta.initialized = r.meta.initialized
<1>1. s = ReadDepend(r, line)
  BY DEF ReadLine
<1>2. CASE r.meta.depend[line.key] # Null
  <2>1. s = [r EXCEPT !.error = 1]
    BY <1>1, <1>2 DEF ReadDepend
  <2> QED
    BY <1>2, <2>1 DEF IsReading, DependRead
<1>3. CASE r.meta.depend[line.key] = Null /\ line.value = Bad
  <2>1. s = [r EXCEPT !.error = 2]
    BY <1>1, <1>3 DEF ReadDepend
  <2> QED
    BY <1>3, <2>1 DEF IsReading, DependRead
<1>4. CASE r.meta.depend[line.key] = Null /\ line.value # Bad
  <2> DEFINE d == [r.meta.depend EXCEPT ![line.key] = line.value]
             m == [r.meta EXCEPT !.depend = d]
  <2>1. s = [r EXCEPT !.meta = m]
    BY <1>1, <1>4 DEF ReadDepend
  <2>2. d = [e \in Dependencies |-> d[e]]
    <3>1. r.meta.depend = [e \in Dependencies |-> r.meta.depend[e]]
      BY DEF IsReading, IsMeta
    <3> QED
      BY <3>1
  <2> HIDE DEF d
  <2>3. /\ IsMeta(m) /\ m.depend = d /\ m.slot = r.meta.slot /\ m.subSlot = r.meta.subSlot
        /\ m.required = r.meta.required /\ m.keywords = r.meta.keywords
        /\ m.iuse = r.meta.iuse /\ m.initialized = r.meta.initialized
    BY <2>2 DEF IsReading, IsMeta
  <2> HIDE DEF m
  <2>4. s.meta = m /\ s.error = r.error /\ s.left = r.left /\ IsReading(s)
    BY <2>1, <2>3 DEF IsReading
  <2>5. DependRead(r, line, s)
    BY <1>4, <2>3, <2>4 DEF DependRead, d
  <2> QED
    BY <2>3, <2>4, <2>5
<1> QED
  BY <1>2, <1>3, <1>4

\* So does a line of SLOT.
LEMMA SlotLine ==
    ASSUME NEW r, IsReading(r), NEW line, ~r.left, line.key \notin Dependencies, line.key = "SLOT",
           NEW s, s = ReadLine(r, line)
    PROVE  /\ IsReading(s) /\ SlotRead(r, line, s) /\ s.left = r.left /\ s.error = r.error
           /\ s.meta.depend = r.meta.depend
           /\ s.meta.required = r.meta.required /\ s.meta.keywords = r.meta.keywords
           /\ s.meta.iuse = r.meta.iuse /\ s.meta.initialized = r.meta.initialized
<1> DEFINE first == line.value[1]
           second == IF Len(line.value) > 1 THEN line.value[2] ELSE r.meta.subSlot
           k == [r.meta EXCEPT !.slot = first]
           m == [k EXCEPT !.subSlot = second]
<1>1. s = [r EXCEPT !.meta = m]
  BY DEF ReadLine, ReadSlot, IsReading, IsMeta
<1> HIDE DEF first, second
<1>2. /\ IsMeta(k) /\ k.depend = r.meta.depend /\ k.slot = first
      /\ k.required = r.meta.required /\ k.keywords = r.meta.keywords
      /\ k.iuse = r.meta.iuse /\ k.initialized = r.meta.initialized
  BY DEF IsReading, IsMeta
<1> HIDE DEF k
<1>3. /\ IsMeta(m) /\ m.depend = k.depend /\ m.slot = k.slot /\ m.subSlot = second
      /\ m.required = k.required /\ m.keywords = k.keywords
      /\ m.iuse = k.iuse /\ m.initialized = k.initialized
  BY <1>2 DEF IsMeta
<1> HIDE DEF m
<1>4. s.meta = m /\ s.error = r.error /\ s.left = r.left /\ IsReading(s)
  BY <1>1, <1>3 DEF IsReading
<1> QED
  BY <1>2, <1>3, <1>4 DEF SlotRead, first, second

\* So does a line of REQUIRED_USE, which alone can end the loop.
LEMMA RequiredLine ==
    ASSUME NEW r, IsReading(r), NEW line, ~r.left, line.key \notin Dependencies,
           line.key = "REQUIRED_USE", NEW s, s = ReadLine(r, line)
    PROVE  /\ IsReading(s) /\ RequiredRead(r, line, s)
           /\ s.meta.depend = r.meta.depend
           /\ s.meta.slot = r.meta.slot /\ s.meta.subSlot = r.meta.subSlot
           /\ s.meta.keywords = r.meta.keywords
           /\ s.meta.iuse = r.meta.iuse /\ s.meta.initialized = r.meta.initialized
<1> DEFINE list == IF line.value = Bad THEN <<>> ELSE Parsed(line.value)
           m == [r.meta EXCEPT !.required = list]
<1>1. s = IF line.value = Bad THEN [r EXCEPT !.meta = m, !.error = 3, !.left = TRUE]
          ELSE [r EXCEPT !.meta = m]
  BY DEF ReadLine, ReadRequiredUse, IsReading, IsMeta
<1>2. line.value # Bad => list = Parsed(line.value)
  OBVIOUS
<1> HIDE DEF list
<1>3. /\ IsMeta(m) /\ m.depend = r.meta.depend
      /\ m.slot = r.meta.slot /\ m.subSlot = r.meta.subSlot
      /\ m.required = list /\ m.keywords = r.meta.keywords
      /\ m.iuse = r.meta.iuse /\ m.initialized = r.meta.initialized
  BY DEF IsReading, IsMeta
<1> HIDE DEF m
<1>4. /\ s.meta = m /\ IsReading(s)
      /\ IF line.value = Bad THEN s.error = 3 /\ s.left ELSE s.error = r.error /\ s.left = r.left
  BY <1>1, <1>3 DEF IsReading
<1> QED
  BY <1>2, <1>3, <1>4 DEF RequiredRead

\* So does a line of KEYWORDS.
LEMMA KeywordsLine ==
    ASSUME NEW r, IsReading(r), NEW line, ~r.left, line.key \notin Dependencies,
           line.key = "KEYWORDS", NEW s, s = ReadLine(r, line)
    PROVE  /\ IsReading(s) /\ s.meta.keywords = KeywordsOf(line.value, r.meta.keywords)
           /\ s.left = r.left /\ s.error = r.error
           /\ s.meta.depend = r.meta.depend
           /\ s.meta.slot = r.meta.slot /\ s.meta.subSlot = r.meta.subSlot
           /\ s.meta.required = r.meta.required
           /\ s.meta.iuse = r.meta.iuse /\ s.meta.initialized = r.meta.initialized
<1> DEFINE m == [r.meta EXCEPT !.keywords = KeywordsOf(line.value, r.meta.keywords)]
<1>1. s = [r EXCEPT !.meta = m]
  BY DEF ReadLine, IsReading, IsMeta
<1>2. /\ IsMeta(m) /\ m.depend = r.meta.depend
      /\ m.slot = r.meta.slot /\ m.subSlot = r.meta.subSlot
      /\ m.required = r.meta.required /\ m.keywords = KeywordsOf(line.value, r.meta.keywords)
      /\ m.iuse = r.meta.iuse /\ m.initialized = r.meta.initialized
  BY DEF IsReading, IsMeta
<1> HIDE DEF m
<1>3. s.meta = m /\ s.error = r.error /\ s.left = r.left /\ IsReading(s)
  BY <1>1, <1>2 DEF IsReading
<1> QED
  BY <1>2, <1>3

\* So does a line of IUSE.
LEMMA IUseLine ==
    ASSUME NEW r, IsReading(r), NEW line, ~r.left, line.key \notin Dependencies,
           line.key = "IUSE", NEW s, s = ReadLine(r, line)
    PROVE  /\ IsReading(s) /\ s.meta.iuse = IUseOf(line.value, r.meta.iuse)
           /\ s.left = r.left /\ s.error = r.error
           /\ s.meta.depend = r.meta.depend
           /\ s.meta.slot = r.meta.slot /\ s.meta.subSlot = r.meta.subSlot
           /\ s.meta.required = r.meta.required
           /\ s.meta.keywords = r.meta.keywords /\ s.meta.initialized = r.meta.initialized
<1> DEFINE m == [r.meta EXCEPT !.iuse = IUseOf(line.value, r.meta.iuse)]
<1>1. s = [r EXCEPT !.meta = m]
  BY DEF ReadLine, IsReading, IsMeta
<1>2. /\ IsMeta(m) /\ m.depend = r.meta.depend
      /\ m.slot = r.meta.slot /\ m.subSlot = r.meta.subSlot
      /\ m.required = r.meta.required /\ m.keywords = r.meta.keywords
      /\ m.iuse = IUseOf(line.value, r.meta.iuse) /\ m.initialized = r.meta.initialized
  BY DEF IsReading, IsMeta
<1> HIDE DEF m
<1>3. s.meta = m /\ s.error = r.error /\ s.left = r.left /\ IsReading(s)
  BY <1>1, <1>2 DEF IsReading
<1> QED
  BY <1>2, <1>3

\* A line changes what its key stands for, and nothing else.
LineEffect(r, line, s) ==
    /\ line.key \in Dependencies => DependRead(r, line, s)
    /\ line.key = "SLOT" => SlotRead(r, line, s)
    /\ line.key = "REQUIRED_USE" => RequiredRead(r, line, s)
    /\ line.key = "KEYWORDS" => s.meta.keywords = KeywordsOf(line.value, r.meta.keywords)
    /\ line.key = "IUSE" => s.meta.iuse = IUseOf(line.value, r.meta.iuse)
    /\ line.key \notin Dependencies => s.meta.depend = r.meta.depend
    /\ line.key # "SLOT" => s.meta.slot = r.meta.slot /\ s.meta.subSlot = r.meta.subSlot
    /\ line.key # "REQUIRED_USE" => s.meta.required = r.meta.required
    /\ line.key # "KEYWORDS" => s.meta.keywords = r.meta.keywords
    /\ line.key # "IUSE" => s.meta.iuse = r.meta.iuse
    /\ line.key \notin Dependencies \cup {"REQUIRED_USE"} =>
         s.error = r.error /\ s.left = r.left

\* ebuild_metadata_init leaves a reading that was given up as it is, and
\* changes one that goes on as the key of the line says.
LEMMA LineRead ==
    ASSUME NEW r, IsReading(r), NEW line, NEW s, s = ReadLine(r, line)
    PROVE  /\ IsReading(s) /\ s.meta.initialized = r.meta.initialized
           /\ IF r.left THEN s = r ELSE LineEffect(r, line, s)
<1>1. \A k \in {"SLOT", "REQUIRED_USE", "KEYWORDS", "IUSE"} : k \notin Dependencies
  BY KeysAssumption
<1>2. CASE r.left
  BY <1>2 DEF ReadLine
<1>3. CASE ~r.left /\ line.key \in Dependencies
  BY <1>1, <1>3, DependLine DEF LineEffect
<1>4. CASE ~r.left /\ line.key = "SLOT"
  BY <1>1, <1>4, SlotLine DEF LineEffect
<1>5. CASE ~r.left /\ line.key = "REQUIRED_USE"
  BY <1>1, <1>5, RequiredLine DEF LineEffect
<1>6. CASE ~r.left /\ line.key = "KEYWORDS"
  BY <1>1, <1>6, KeywordsLine DEF LineEffect
<1>7. CASE ~r.left /\ line.key = "IUSE"
  BY <1>1, <1>7, IUseLine DEF LineEffect
<1>8. CASE /\ ~r.left /\ line.key \notin Dependencies
           /\ line.key \notin {"SLOT", "REQUIRED_USE", "KEYWORDS", "IUSE"}
  <2>1. s = r
    BY <1>8 DEF ReadLine
  <2> QED
    BY <1>8, <2>1 DEF LineEffect
<1> QED
  BY <1>2, <1>3, <1>4, <1>5, <1>6, <1>7, <1>8

\* A value changes at one place at most.
SameBut(v, P, N) == \A n \in 1..N : n \notin P => v[n] = v[n - 1]

MadeAt(v, P, N) ==
    /\ P = {} => v[N] = v[0]
    /\ \A k \in P : v[k - 1] = v[0] /\ v[N] = v[k]

\* Before that place it is what it was at first, and in the end what the
\* place made of it.
LEMMA OneChange ==
    ASSUME NEW N \in Nat, NEW P \in SUBSET (1..N), \A i, j \in P : i = j,
           NEW v, SameBut(v, P, N)
    PROVE  MadeAt(v, P, N)
<1> USE DEF SameBut
<1> DEFINE S == {n \in 0..N : (\A k \in P : n < k) => v[n] = v[0]}
<1>1. 0 \in S
  OBVIOUS
<1>2. ASSUME NEW n \in 1..N, n - 1 \in S PROVE n \in S
  <2> SUFFICES ASSUME \A k \in P : n < k PROVE v[n] = v[0]
    OBVIOUS
  <2>1. n \notin P /\ \A k \in P : n - 1 < k
    OBVIOUS
  <2> QED
    BY <1>2, <2>1
<1> HIDE DEF S
<1>3. 0..N \subseteq S
  BY <1>1, <1>2, InductionUpTo
<1>4. P = {} => v[N] = v[0]
  <2>1. N \in S
    BY <1>3
  <2> QED
    BY <2>1 DEF S
<1>5. ASSUME NEW k \in P PROVE v[k - 1] = v[0] /\ v[N] = v[k]
  <2>1. k - 1 \in S /\ k \in 1..N /\ \A j \in P : k - 1 < j
    BY <1>3
  <2>2. v[k - 1] = v[0]
    BY <2>1 DEF S
  <2> DEFINE T == {n \in 0..N : n >= k => v[n] = v[k]}
  <2>3. 0 \in T
    BY <2>1
  <2>4. ASSUME NEW n \in 1..N, n - 1 \in T PROVE n \in T
    <3> SUFFICES ASSUME n >= k PROVE v[n] = v[k]
      OBVIOUS
    <3>1. CASE n = k
      BY <3>1
    <3>2. CASE n # k
      <4>1. n \notin P /\ n - 1 >= k
        BY <2>1, <3>2
      <4> QED
        BY <2>4, <4>1
    <3> QED
      BY <3>1, <3>2
  <2> HIDE DEF T
  <2>5. 0..N \subseteq T
    BY <2>3, <2>4, InductionUpTo
  <2>6. v[N] = v[k]
    BY <2>1, <2>5 DEF T
  <2> QED
    BY <2>2, <2>6
<1> QED
  BY <1>4, <1>5 DEF MadeAt

\* R is the reading of lines, after each of them, from one that goes on.
IsReadingOf(R, lines) ==
    /\ IsReading(R[0]) /\ ~R[0].left
    /\ \A n \in 1..Len(lines) : R[n] = ReadLine(R[n - 1], lines[n])

\* The lines can all be used.
Usable(lines, n) ==
    /\ \A i \in 1..n : lines[i].value # Bad
    /\ \A i, j \in 1..n : lines[i].key = lines[j].key /\ lines[i].key \in Dependencies => i = j

\* The lines of a file of the cache.
LEMMA LinesAre ==
    ASSUME NEW lines \in Files
    PROVE  /\ Len(lines) \in Nat /\ DOMAIN lines = 1..Len(lines)
           /\ \A i, j \in 1..Len(lines) :
                lines[i].key = lines[j].key => i = j \/ lines[i].key \in Dependencies
           /\ \A i \in 1..Len(lines) :
                /\ lines[i].key \in Dependencies => lines[i].value # Null
                /\ lines[i].key = "SLOT" => lines[i].value \in Seq(STRING) \ {<<>>}
                /\ lines[i].key = "REQUIRED_USE" => lines[i].value \in Texts \cup {Bad}
                /\ lines[i].key = "KEYWORDS" => lines[i].value \in Seq([arch : STRING, keyword : STRING])
                /\ lines[i].key = "IUSE" => lines[i].value \in Seq([name : Names, on : BOOLEAN])
                /\ lines[i].value = Bad => lines[i].key \in Dependencies \cup {"REQUIRED_USE"}
BY FilesAreCaches

\* A reading without an error is of lines that can all be used.
LEMMA ErrorOfReading ==
    ASSUME NEW lines \in Files, NEW R, IsReadingOf(R, lines)
    PROVE  /\ IsReading(R[Len(lines)])
           /\ R[Len(lines)].meta.initialized = R[0].meta.initialized
           /\ R[Len(lines)].error = 0 => Usable(lines, Len(lines))
<1> DEFINE N == Len(lines)
           Good(n) == /\ ~R[n].left /\ Usable(lines, n)
                      /\ \A i \in 1..n : lines[i].key \in Dependencies =>
                            R[n].meta.depend[lines[i].key] # Null
           S == {n \in 0..N : /\ IsReading(R[n])
                              /\ R[n].meta.initialized = R[0].meta.initialized
                              /\ R[n].error = 0 => Good(n)}
<1>1. N \in Nat
  BY LinesAre
<1>2. 0 \in S
  <2>1. Good(0)
    BY DEF IsReadingOf, Usable
  <2> QED
    BY <1>1, <2>1 DEF IsReadingOf
<1>3. ASSUME NEW n \in 1..N, n - 1 \in S PROVE n \in S
  <2>1. PICK m \in Nat : m = n - 1 /\ n = m + 1 /\ n \in 0..N
    BY <1>1
  <2>0. PICK line : line = lines[n]
    OBVIOUS
  <2>2. PICK r : r = R[m]
    OBVIOUS
  <2>3. PICK s : s = R[n]
    OBVIOUS
  <2>4. s = ReadLine(r, line)
    BY <2>0, <2>1, <2>2, <2>3 DEF IsReadingOf
  <2>5. IsReading(r) /\ r.meta.initialized = R[0].meta.initialized /\ (r.error = 0 => Good(m))
    BY <1>3, <2>1, <2>2
  <2> HIDE DEF Good
  <2>6. /\ IsReading(s) /\ s.meta.initialized = R[0].meta.initialized
        /\ ~r.left => LineEffect(r, line, s)
    BY <2>4, <2>5, LineRead
  <2>7. ASSUME s.error = 0 PROVE Good(n)
    <3>1. CASE r.left
      <4>1. s = r
        BY <2>4, <2>5, <3>1, LineRead
      <4> QED
        BY <2>2, <2>5, <2>7, <3>1, <4>1 DEF Good
    <3>2. CASE ~r.left /\ line.key \in Dependencies
      <4>1. DependRead(r, line, s)
        BY <2>6, <3>2 DEF LineEffect
      <4>2. /\ r.meta.depend[line.key] = Null /\ line.value # Bad /\ r.error = 0 /\ ~s.left
            /\ s.meta.depend = [r.meta.depend EXCEPT ![line.key] = line.value]
        BY <2>7, <3>2, <4>1 DEF DependRead
      <4>3. Good(m)
        BY <2>5, <4>2
      <4>4. \A i \in 1..m : lines[i].key \in Dependencies => lines[i].key # line.key
        BY <2>2, <4>2, <4>3 DEF Good
      <4>5. r.meta.depend = [d \in Dependencies |-> r.meta.depend[d]]
        BY <2>5 DEF IsReading, IsMeta
      <4>6. \A d \in Dependencies : s.meta.depend[d] = IF d = line.key THEN line.value
                                                       ELSE r.meta.depend[d]
        BY <4>2, <4>5
      <4>7. line.value # Null
        BY <2>0, <3>2, LinesAre
      <4>8. \A i \in 1..n : i \in 1..m \/ i = n
        BY <2>1
      <4>9. Usable(lines, n)
        BY <2>0, <3>2, <4>2, <4>3, <4>4, <4>8 DEF Usable, Good
      <4>10. \A i \in 1..n : lines[i].key \in Dependencies => s.meta.depend[lines[i].key] # Null
        BY <2>0, <2>2, <4>3, <4>6, <4>7, <4>8 DEF Good
      <4> QED
        BY <2>3, <4>2, <4>9, <4>10 DEF Good
    <3>3. CASE ~r.left /\ line.key \notin Dependencies
      <4>1. s.meta.depend = r.meta.depend
        BY <2>6, <3>3 DEF LineEffect
      <4>2. line.value # Bad /\ s.error = r.error /\ s.left = r.left
        <5>1. CASE line.key = "REQUIRED_USE"
          <6>1. RequiredRead(r, line, s)
            BY <2>6, <3>3, <5>1 DEF LineEffect
          <6> QED
            BY <2>7, <6>1 DEF RequiredRead
        <5>2. CASE line.key # "REQUIRED_USE"
          <6>1. s.error = r.error /\ s.left = r.left
            BY <2>6, <3>3, <5>2 DEF LineEffect
          <6> QED
            BY <2>0, <3>3, <5>2, <6>1, LinesAre
        <5> QED
          BY <5>1, <5>2
      <4>3. Good(m)
        BY <2>5, <2>7, <4>2
      <4>4. \A i \in 1..n : i \in 1..m \/ i = n
        BY <2>1
      <4>5. Usable(lines, n)
        BY <2>0, <3>3, <4>2, <4>3, <4>4 DEF Usable, Good
      <4> QED
        BY <2>0, <2>2, <2>3, <3>3, <4>1, <4>2, <4>3, <4>4, <4>5 DEF Good
    <3> QED
      BY <3>1, <3>2, <3>3
  <2> QED
    BY <2>1, <2>3, <2>6, <2>7
<1> HIDE DEF S
<1>4. 0..N \subseteq S
  BY <1>1, <1>2, <1>3, InductionUpTo
<1>5. N \in S
  BY <1>1, <1>4
<1> QED
  BY <1>5 DEF S

\* A reading of lines that can all be used goes on to the last.
LEMMA UsableSteps ==
    ASSUME NEW lines \in Files, NEW R, IsReadingOf(R, lines), Usable(lines, Len(lines))
    PROVE  /\ \A n \in 0..Len(lines) : IsReading(R[n]) /\ ~R[n].left
           /\ \A n \in 1..Len(lines) : LineEffect(R[n - 1], lines[n], R[n])
           /\ R[Len(lines)].meta.initialized = R[0].meta.initialized
<1> DEFINE N == Len(lines)
           S == {n \in 0..N : /\ IsReading(R[n]) /\ ~R[n].left
                              /\ R[n].meta.initialized = R[0].meta.initialized
                              /\ n # 0 => LineEffect(R[n - 1], lines[n], R[n])}
<1>1. N \in Nat
  BY LinesAre
<1>2. 0 \in S
  BY <1>1 DEF IsReadingOf
<1>3. ASSUME NEW n \in 1..N, n - 1 \in S PROVE n \in S
  <2>1. PICK m \in Nat : m = n - 1 /\ n = m + 1 /\ n \in 0..N
    BY <1>1
  <2>2. PICK line : line = lines[n]
    OBVIOUS
  <2>3. PICK r : r = R[m]
    OBVIOUS
  <2>4. PICK s : s = R[n]
    OBVIOUS
  <2>5. s = ReadLine(r, line)
    BY <2>1, <2>2, <2>3, <2>4 DEF IsReadingOf
  <2>6. IsReading(r) /\ ~r.left /\ r.meta.initialized = R[0].meta.initialized
    BY <1>3, <2>1, <2>3
  <2>7. IsReading(s) /\ s.meta.initialized = r.meta.initialized /\ LineEffect(r, line, s)
    BY <2>5, <2>6, LineRead
  <2>8. ~s.left
    <3>1. CASE line.key \in Dependencies
      BY <2>6, <2>7, <3>1 DEF LineEffect, DependRead
    <3>2. CASE line.key = "REQUIRED_USE"
      <4>1. line.value # Bad
        BY <2>2 DEF Usable
      <4> QED
        BY <2>6, <2>7, <3>2, <4>1 DEF LineEffect, RequiredRead
    <3>3. CASE line.key \notin Dependencies \cup {"REQUIRED_USE"}
      BY <2>6, <2>7, <3>3 DEF LineEffect
    <3> QED
      BY <3>1, <3>2, <3>3
  <2> QED
    BY <2>1, <2>2, <2>3, <2>4, <2>6, <2>7, <2>8
<1> HIDE DEF S
<1>4. 0..N \subseteq S
  BY <1>1, <1>2, <1>3, InductionUpTo
<1>5. \A n \in 0..N : n \in S
  BY <1>4
<1>6. N \in 0..N /\ \A n \in 1..N : n \in 0..N /\ n # 0
  BY <1>1
<1> QED
  BY <1>5, <1>6 DEF S

\* The places of a key.
At(lines, key) == {i \in 1..Len(lines) : lines[i].key = key}

\* No key is there twice in a file that can be used.
LEMMA AtOnce ==
    ASSUME NEW lines \in Files, Usable(lines, Len(lines)), NEW key
    PROVE  At(lines, key) \in SUBSET (1..Len(lines)) /\ \A i, j \in At(lines, key) : i = j
<1>1. \A i, j \in At(lines, key) : i = j
  BY LinesAre DEF At, Usable
<1> QED
  BY <1>1 DEF At

\* The slots are those of the line of SLOT, or as they were.
LEMMA SlotOf ==
    ASSUME NEW lines \in Files, NEW R, IsReadingOf(R, lines), Usable(lines, Len(lines)),
           NEW B, B = R[0].meta, NEW E, E = R[Len(lines)].meta
    PROVE  /\ At(lines, "SLOT") = {} => E.slot = B.slot /\ E.subSlot = B.subSlot
           /\ \A k \in At(lines, "SLOT") :
                /\ E.slot = lines[k].value[1]
                /\ E.subSlot = IF Len(lines[k].value) > 1 THEN lines[k].value[2] ELSE B.subSlot
<1> DEFINE N == Len(lines)
           P == At(lines, "SLOT")
           v == [n \in 0..N |-> R[n].meta.slot]
           w == [n \in 0..N |-> R[n].meta.subSlot]
<1>1. N \in Nat /\ 0 \in 0..N /\ N \in 0..N /\ \A n \in 1..N : n \in 0..N /\ n - 1 \in 0..N
  BY LinesAre
<1>2. P \in SUBSET (1..N) /\ \A i, j \in P : i = j
  BY AtOnce
<1>3. \A n \in 1..N : LineEffect(R[n - 1], lines[n], R[n])
  BY UsableSteps
<1>4. ASSUME NEW n \in 1..N, n \notin P PROVE v[n] = v[n - 1] /\ w[n] = w[n - 1]
  <2>1. lines[n].key # "SLOT"
    BY <1>4 DEF At
  <2> QED
    BY <1>1, <1>3, <2>1 DEF LineEffect
<1>5. ASSUME NEW k \in P
      PROVE  /\ v[k] = lines[k].value[1]
             /\ w[k] = IF Len(lines[k].value) > 1 THEN lines[k].value[2] ELSE w[k - 1]
  <2>1. lines[k].key = "SLOT" /\ k \in 1..N
    BY <1>2 DEF At
  <2>2. SlotRead(R[k - 1], lines[k], R[k])
    BY <1>3, <2>1 DEF LineEffect
  <2> QED
    BY <1>1, <2>1, <2>2 DEF SlotRead
<1>6. v[0] = B.slot /\ w[0] = B.subSlot /\ v[N] = E.slot /\ w[N] = E.subSlot
  BY <1>1
<1> HIDE DEF P, v, w, N
<1>7. MadeAt(v, P, N)
  <2>1. SameBut(v, P, N)
    BY <1>4 DEF SameBut
  <2> QED
    BY <1>1, <1>2, <2>1, OneChange
<1>8. MadeAt(w, P, N)
  <2>1. SameBut(w, P, N)
    BY <1>4 DEF SameBut
  <2> QED
    BY <1>1, <1>2, <2>1, OneChange
<1> QED
  BY <1>5, <1>6, <1>7, <1>8 DEF P, MadeAt

\* REQUIRED_USE is parsed, or as it was.
LEMMA RequiredOf ==
    ASSUME NEW lines \in Files, NEW R, IsReadingOf(R, lines), Usable(lines, Len(lines)),
           NEW B, B = R[0].meta, NEW E, E = R[Len(lines)].meta
    PROVE  /\ At(lines, "REQUIRED_USE") = {} => E.required = B.required
           /\ \A k \in At(lines, "REQUIRED_USE") : E.required = Parsed(lines[k].value)
<1> DEFINE N == Len(lines)
           P == At(lines, "REQUIRED_USE")
           v == [n \in 0..N |-> R[n].meta.required]
<1>1. N \in Nat /\ 0 \in 0..N /\ N \in 0..N /\ \A n \in 1..N : n \in 0..N /\ n - 1 \in 0..N
  BY LinesAre
<1>2. P \in SUBSET (1..N) /\ \A i, j \in P : i = j
  BY AtOnce
<1>3. \A n \in 1..N : LineEffect(R[n - 1], lines[n], R[n])
  BY UsableSteps
<1>4. ASSUME NEW n \in 1..N, n \notin P PROVE v[n] = v[n - 1]
  <2>1. lines[n].key # "REQUIRED_USE"
    BY <1>4 DEF At
  <2> QED
    BY <1>1, <1>3, <2>1 DEF LineEffect
<1>5. ASSUME NEW k \in P PROVE v[k] = Parsed(lines[k].value)
  <2>1. lines[k].key = "REQUIRED_USE" /\ k \in 1..N
    BY <1>2 DEF At
  <2>2. lines[k].value # Bad
    BY <2>1 DEF Usable
  <2>3. RequiredRead(R[k - 1], lines[k], R[k])
    BY <1>3, <2>1 DEF LineEffect
  <2> QED
    BY <1>1, <2>1, <2>2, <2>3 DEF RequiredRead
<1>6. v[0] = B.required /\ v[N] = E.required
  BY <1>1
<1> HIDE DEF P, v, N
<1>7. SameBut(v, P, N)
  BY <1>4 DEF SameBut
<1>8. MadeAt(v, P, N)
  BY <1>1, <1>2, <1>7, OneChange
<1> QED
  BY <1>5, <1>6, <1>8 DEF P, MadeAt

\* KEYWORDS changes the keywords there were, or nothing does.
LEMMA KeywordsRead ==
    ASSUME NEW lines \in Files, NEW R, IsReadingOf(R, lines), Usable(lines, Len(lines)),
           NEW B, B = R[0].meta, NEW E, E = R[Len(lines)].meta
    PROVE  /\ At(lines, "KEYWORDS") = {} => E.keywords = B.keywords
           /\ \A k \in At(lines, "KEYWORDS") : E.keywords = KeywordsOf(lines[k].value, B.keywords)
<1> DEFINE N == Len(lines)
           P == At(lines, "KEYWORDS")
           v == [n \in 0..N |-> R[n].meta.keywords]
<1>1. N \in Nat /\ 0 \in 0..N /\ N \in 0..N /\ \A n \in 1..N : n \in 0..N /\ n - 1 \in 0..N
  BY LinesAre
<1>2. P \in SUBSET (1..N) /\ \A i, j \in P : i = j
  BY AtOnce
<1>3. \A n \in 1..N : LineEffect(R[n - 1], lines[n], R[n])
  BY UsableSteps
<1>4. ASSUME NEW n \in 1..N, n \notin P PROVE v[n] = v[n - 1]
  <2>1. lines[n].key # "KEYWORDS"
    BY <1>4 DEF At
  <2> QED
    BY <1>1, <1>3, <2>1 DEF LineEffect
<1>5. ASSUME NEW k \in P PROVE v[k] = KeywordsOf(lines[k].value, v[k - 1])
  <2>1. lines[k].key = "KEYWORDS" /\ k \in 1..N
    BY <1>2 DEF At
  <2> QED
    BY <1>1, <1>3, <2>1 DEF LineEffect
<1>6. v[0] = B.keywords /\ v[N] = E.keywords
  BY <1>1
<1> HIDE DEF P, v, N
<1>7. SameBut(v, P, N)
  BY <1>4 DEF SameBut
<1>8. MadeAt(v, P, N)
  BY <1>1, <1>2, <1>7, OneChange
<1> QED
  BY <1>5, <1>6, <1>8 DEF P, MadeAt

\* IUSE is added to the flags there were, or nothing is.
LEMMA IUseRead ==
    ASSUME NEW lines \in Files, NEW R, IsReadingOf(R, lines), Usable(lines, Len(lines)),
           NEW B, B = R[0].meta, NEW E, E = R[Len(lines)].meta
    PROVE  /\ At(lines, "IUSE") = {} => E.iuse = B.iuse
           /\ \A k \in At(lines, "IUSE") : E.iuse = IUseOf(lines[k].value, B.iuse)
<1> DEFINE N == Len(lines)
           P == At(lines, "IUSE")
           v == [n \in 0..N |-> R[n].meta.iuse]
<1>1. N \in Nat /\ 0 \in 0..N /\ N \in 0..N /\ \A n \in 1..N : n \in 0..N /\ n - 1 \in 0..N
  BY LinesAre
<1>2. P \in SUBSET (1..N) /\ \A i, j \in P : i = j
  BY AtOnce
<1>3. \A n \in 1..N : LineEffect(R[n - 1], lines[n], R[n])
  BY UsableSteps
<1>4. ASSUME NEW n \in 1..N, n \notin P PROVE v[n] = v[n - 1]
  <2>1. lines[n].key # "IUSE"
    BY <1>4 DEF At
  <2> QED
    BY <1>1, <1>3, <2>1 DEF LineEffect
<1>5. ASSUME NEW k \in P PROVE v[k] = IUseOf(lines[k].value, v[k - 1])
  <2>1. lines[k].key = "IUSE" /\ k \in 1..N
    BY <1>2 DEF At
  <2> QED
    BY <1>1, <1>3, <2>1 DEF LineEffect
<1>6. v[0] = B.iuse /\ v[N] = E.iuse
  BY <1>1
<1> HIDE DEF P, v, N
<1>7. SameBut(v, P, N)
  BY <1>4 DEF SameBut
<1>8. MadeAt(v, P, N)
  BY <1>1, <1>2, <1>7, OneChange
<1> QED
  BY <1>5, <1>6, <1>8 DEF P, MadeAt

\* A dependency is that of its line, unless it was there before.
LEMMA DependOf ==
    ASSUME NEW lines \in Files, NEW R, IsReadingOf(R, lines), Usable(lines, Len(lines)),
           NEW B, B = R[0].meta, NEW E, E = R[Len(lines)].meta, NEW d \in Dependencies
    PROVE  /\ At(lines, d) = {} => E.depend[d] = B.depend[d]
           /\ \A k \in At(lines, d) :
                /\ E.depend[d] = IF B.depend[d] = Null THEN lines[k].value ELSE B.depend[d]
                /\ R[k - 1].meta.depend[d] = B.depend[d]
<1> DEFINE N == Len(lines)
           P == At(lines, d)
           v == [n \in 0..N |-> R[n].meta.depend[d]]
<1>1. N \in Nat /\ 0 \in 0..N /\ N \in 0..N /\ \A n \in 1..N : n \in 0..N /\ n - 1 \in 0..N
  BY LinesAre
<1>2. P \in SUBSET (1..N) /\ \A i, j \in P : i = j
  BY AtOnce
<1>3. \A n \in 1..N : LineEffect(R[n - 1], lines[n], R[n]) /\ IsReading(R[n - 1])
  BY <1>1, UsableSteps
<1>4. \A n \in 1..N : lines[n].value # Bad
  BY DEF Usable
<1>5. ASSUME NEW n \in 1..N
      PROVE  v[n] = IF n \in P /\ v[n - 1] = Null THEN lines[n].value ELSE v[n - 1]
  <2>1. PICK r : r = R[n - 1]
    OBVIOUS
  <2>2. PICK s : s = R[n]
    OBVIOUS
  <2>3. PICK line : line = lines[n]
    OBVIOUS
  <2>4. v[n] = s.meta.depend[d] /\ v[n - 1] = r.meta.depend[d]
    BY <1>1, <2>1, <2>2
  <2>5. LineEffect(r, line, s) /\ line.value # Bad /\ (n \in P <=> line.key = d)
    BY <1>3, <1>4, <2>1, <2>2, <2>3 DEF At
  <2>6. r.meta.depend = [e \in Dependencies |-> r.meta.depend[e]]
    BY <1>3, <2>1 DEF IsReading, IsMeta
  <2>7. CASE line.key \in Dependencies
    <3>1. /\ r.meta.depend[line.key] # Null => s.meta.depend = r.meta.depend
          /\ r.meta.depend[line.key] = Null =>
               s.meta.depend = [r.meta.depend EXCEPT ![line.key] = line.value]
      BY <2>5, <2>7 DEF LineEffect, DependRead
    <3>2. r.meta.depend[line.key] = Null =>
            s.meta.depend[d] = IF d = line.key THEN line.value ELSE r.meta.depend[d]
      BY <2>6, <3>1
    <3> QED
      BY <2>3, <2>4, <2>5, <3>1, <3>2
  <2>8. CASE line.key \notin Dependencies
    <3>1. s.meta.depend = r.meta.depend
      BY <2>5, <2>8 DEF LineEffect
    <3> QED
      BY <2>4, <2>5, <2>8, <3>1
  <2> QED
    BY <2>7, <2>8
<1>6. v[0] = B.depend[d] /\ v[N] = E.depend[d] /\ \A k \in 1..N : v[k - 1] = R[k - 1].meta.depend[d]
  BY <1>1
<1> HIDE DEF P, v, N
<1>7. SameBut(v, P, N)
  BY <1>5 DEF SameBut
<1>8. MadeAt(v, P, N)
  BY <1>1, <1>2, <1>7, OneChange
<1> QED
  BY <1>2, <1>5, <1>6, <1>8 DEF P, MadeAt

\* A reading of an ebuild that has no dependencies yet does not fail.
LEMMA NoErrorOf ==
    ASSUME NEW lines \in Files, NEW R, IsReadingOf(R, lines), Usable(lines, Len(lines)),
           \A d \in Dependencies : R[0].meta.depend[d] = Null
    PROVE  R[Len(lines)].error = R[0].error
<1> DEFINE N == Len(lines)
           v == [n \in 0..N |-> R[n].error]
<1>1. N \in Nat /\ 0 \in 0..N /\ N \in 0..N /\ \A n \in 1..N : n \in 0..N /\ n - 1 \in 0..N
  BY LinesAre
<1>2. \A n \in 1..N : LineEffect(R[n - 1], lines[n], R[n]) /\ lines[n].value # Bad
  BY UsableSteps DEF Usable
<1>3. ASSUME NEW n \in 1..N PROVE v[n] = v[n - 1]
  <2>1. CASE lines[n].key \in Dependencies
    <3>1. n \in At(lines, lines[n].key)
      BY DEF At
    <3>2. R[n - 1].meta.depend[lines[n].key] = Null
      BY <2>1, <3>1, DependOf
    <3>3. DependRead(R[n - 1], lines[n], R[n])
      BY <1>2, <2>1 DEF LineEffect
    <3> QED
      BY <1>1, <1>2, <3>2, <3>3 DEF DependRead
  <2>2. CASE lines[n].key = "REQUIRED_USE"
    <3>1. RequiredRead(R[n - 1], lines[n], R[n])
      BY <1>2, <2>2 DEF LineEffect
    <3> QED
      BY <1>1, <1>2, <3>1 DEF RequiredRead
  <2>3. CASE lines[n].key \notin Dependencies \cup {"REQUIRED_USE"}
    BY <1>1, <1>2, <2>3 DEF LineEffect
  <2> QED
    BY <2>1, <2>2, <2>3
<1>4. v[0] = R[0].error /\ v[N] = R[N].error
  BY <1>1
<1> HIDE DEF v, N
<1> DEFINE P == {}
<1>5. P \in SUBSET (1..N) /\ \A i, j \in P : i = j
  OBVIOUS
<1>6. SameBut(v, P, N)
  BY <1>3 DEF SameBut
<1> HIDE DEF P
<1>7. MadeAt(v, P, N)
  BY <1>1, <1>5, <1>6, OneChange
<1> QED
  BY <1>4, <1>7 DEF P, MadeAt, N

----------------------------------------------------------------------------
(* The whole of a file *)

ValueIn(lines, key, default) ==
    IF At(lines, key) = {} THEN default ELSE lines[CHOOSE i \in At(lines, key) : TRUE].value

None == [a \in Arches |-> "none"]

Whole(lines) ==
    LET slot == ValueIn(lines, "SLOT", <<Null>>)
        keywords == ValueIn(lines, "KEYWORDS", <<>>)
        iuse == ValueIn(lines, "IUSE", <<>>)
    IN
    [depend |-> [d \in Dependencies |-> ValueIn(lines, d, Null)],
     slot |-> slot[1], subSlot |-> IF Len(slot) > 1 THEN slot[2] ELSE Null,
     required |-> Parsed(ValueIn(lines, "REQUIRED_USE", <<>>)),
     keywords |-> KeywordsAfter(keywords, None, Len(keywords)),
     iuse |-> IUseAfter(iuse, <<>>, Len(iuse)),
     initialized |-> TRUE]

Blank(m) ==
    /\ IsMeta(m) /\ \A d \in Dependencies : m.depend[d] = Null
    /\ m.slot = Null /\ m.subSlot = Null /\ m.required = <<>> /\ m.iuse = <<>>
    /\ ~m.initialized

\* The value of a key that is there, and of one that is not.
LEMMA ValueAt ==
    ASSUME NEW lines \in Files, Usable(lines, Len(lines)), NEW key, NEW default
    PROVE  /\ At(lines, key) = {} => ValueIn(lines, key, default) = default
           /\ \A k \in At(lines, key) : ValueIn(lines, key, default) = lines[k].value
<1>1. At(lines, key) = {} => ValueIn(lines, key, default) = default
  BY DEF ValueIn
<1>2. ASSUME NEW k \in At(lines, key) PROVE ValueIn(lines, key, default) = lines[k].value
  <2>1. (CHOOSE i \in At(lines, key) : TRUE) \in At(lines, key)
    BY Zenon
  <2>2. (CHOOSE i \in At(lines, key) : TRUE) = k
    BY <2>1, AtOnce
  <2> QED
    BY <2>2 DEF ValueIn
<1> QED
  BY <1>1, <1>2

\* The flags of a file, read over what was read of it before.
LEMMA IUseTwice ==
    ASSUME NEW tokens, NEW n \in Nat
    PROVE  LET once == IUseAfter(tokens, <<>>, n)
           IN  /\ once = [k \in DOMAIN once |-> once[k]]
               /\ IUseAfter(tokens, once, n) = once
<1> DEFINE once == IUseAfter(tokens, <<>>, n)
           D == {tokens[i].name : i \in 1..n}
           E == D \cup DOMAIN <<>>
<1>1. DOMAIN <<>> = {}
  OBVIOUS
<1>2. E = D
  BY <1>1
<1> HIDE DEF E
<1>3. once = [k \in E |-> IF ForFlag(tokens, k, n) = {} THEN <<>>[k]
                          ELSE tokens[Last(ForFlag(tokens, k, n))].on]
  BY DEF IUseAfter, E
<1>4. once = [k \in D |-> IF ForFlag(tokens, k, n) = {} THEN <<>>[k]
                          ELSE tokens[Last(ForFlag(tokens, k, n))].on]
  BY <1>2, <1>3
<1> HIDE DEF once
<1>5. DOMAIN once = D /\ once = [k \in D |-> once[k]]
  BY <1>4
<1>6. D \cup DOMAIN once = D
  BY <1>5
<1>7. \A k \in D : ForFlag(tokens, k, n) # {}
  BY DEF ForFlag
<1> HIDE DEF D
<1>8. IUseAfter(tokens, once, n) =
        [k \in D |-> IF ForFlag(tokens, k, n) = {} THEN once[k]
                     ELSE tokens[Last(ForFlag(tokens, k, n))].on]
  BY <1>6, Zenon DEF IUseAfter, D
<1>9. IUseAfter(tokens, once, n) = once
  BY <1>4, <1>7, <1>8
<1> QED
  BY <1>5, <1>9 DEF once

\* Records of the same fields are the same.
LEMMA SameMeta ==
    ASSUME NEW m, NEW k, IsMeta(m), IsMeta(k), m.depend = k.depend, m.slot = k.slot,
           m.subSlot = k.subSlot, m.required = k.required, m.keywords = k.keywords,
           m.iuse = k.iuse, m.initialized = k.initialized
    PROVE  m = k
BY DEF IsMeta

\* The record of a whole ebuild is one of initialized metadata.
LEMMA WholeIsMeta ==
    ASSUME NEW lines
    PROVE  IsMeta(Whole(lines)) /\ Whole(lines).initialized
BY DEF IsMeta, Whole

\* A reading of a blank ebuild, or of a whole one, makes it whole.
LEMMA ReadingIsWhole ==
    ASSUME NEW lines \in Files, NEW R, IsReadingOf(R, lines), Usable(lines, Len(lines)),
           NEW B, B = R[0].meta, NEW E, E = R[Len(lines)].meta,
           B.keywords = None, NEW W, W = Whole(lines),
           \/ Blank(B)
           \/ /\ B.depend = W.depend /\ B.slot = W.slot /\ B.subSlot = W.subSlot
              /\ B.required = W.required /\ B.iuse = W.iuse
    PROVE  /\ E.depend = W.depend /\ E.slot = W.slot /\ E.subSlot = W.subSlot
           /\ E.required = W.required /\ E.keywords = W.keywords /\ E.iuse = W.iuse
<1>1. IsMeta(E)
  <2>1. Len(lines) \in 0..Len(lines)
    BY LinesAre
  <2>2. IsReading(R[Len(lines)])
    BY <2>1, UsableSteps
  <2> QED
    BY <2>2 DEF IsReading
<1>2. E.depend = W.depend
  <2>1. W.depend = [d \in Dependencies |-> ValueIn(lines, d, Null)]
    BY DEF Whole
  <2>2. ASSUME NEW d \in Dependencies PROVE E.depend[d] = ValueIn(lines, d, Null)
    <3>1. B.depend[d] = Null \/ B.depend[d] = ValueIn(lines, d, Null)
      BY <2>1 DEF Blank
    <3>2. CASE At(lines, d) = {}
      BY <3>1, <3>2, DependOf, ValueAt
    <3>3. CASE At(lines, d) # {}
      <4>1. PICK k : k \in At(lines, d)
        BY <3>3
      <4>2. ValueIn(lines, d, Null) = lines[k].value
        BY <4>1, ValueAt
      <4>3. E.depend[d] = IF B.depend[d] = Null THEN lines[k].value ELSE B.depend[d]
        BY <4>1, DependOf
      <4> QED
        BY <3>1, <4>2, <4>3
    <3> QED
      BY <3>2, <3>3
  <2>3. E.depend = [d \in Dependencies |-> E.depend[d]]
    BY <1>1 DEF IsMeta
  <2> QED
    BY <2>1, <2>2, <2>3
<1>3. E.slot = W.slot /\ E.subSlot = W.subSlot
  <2>1. PICK slot : slot = ValueIn(lines, "SLOT", <<Null>>)
    OBVIOUS
  <2>2. W.slot = slot[1] /\ W.subSlot = IF Len(slot) > 1 THEN slot[2] ELSE Null
    BY <2>1 DEF Whole
  <2>3. CASE At(lines, "SLOT") = {}
    <3>1. slot = <<Null>>
      BY <2>1, <2>3, ValueAt
    <3>2. W.slot = Null /\ W.subSlot = Null
      BY <2>2, <3>1
    <3>3. B.slot = W.slot /\ B.subSlot = W.subSlot
      BY <3>2 DEF Blank
    <3> QED
      BY <2>3, <3>3, SlotOf
  <2>4. CASE At(lines, "SLOT") # {}
    <3>1. PICK k : k \in At(lines, "SLOT")
      BY <2>4
    <3>2. slot = lines[k].value
      BY <2>1, <3>1, ValueAt
    <3>3. E.slot = slot[1] /\ E.subSlot = IF Len(slot) > 1 THEN slot[2] ELSE B.subSlot
      BY <3>1, <3>2, SlotOf
    <3>4. B.subSlot = Null \/ B.subSlot = W.subSlot
      BY DEF Blank
    <3> QED
      BY <2>2, <3>3, <3>4
  <2> QED
    BY <2>3, <2>4
<1>4. E.required = W.required
  <2>1. W.required = Parsed(ValueIn(lines, "REQUIRED_USE", <<>>))
    BY DEF Whole
  <2>2. CASE At(lines, "REQUIRED_USE") = {}
    <3>1. W.required = <<>>
      <4>1. Parsed(<<>>) = <<>>
        BY DEF Parsed, Linked
      <4> QED
        BY <2>1, <2>2, <4>1, ValueAt
    <3>2. B.required = W.required
      BY <3>1 DEF Blank
    <3> QED
      BY <2>2, <3>2, RequiredOf
  <2>3. CASE At(lines, "REQUIRED_USE") # {}
    <3>1. PICK k : k \in At(lines, "REQUIRED_USE")
      BY <2>3
    <3>2. ValueIn(lines, "REQUIRED_USE", <<>>) = lines[k].value
      BY <3>1, ValueAt
    <3> QED
      BY <2>1, <3>1, <3>2, RequiredOf
  <2> QED
    BY <2>2, <2>3
<1>5. E.keywords = W.keywords
  <2>1. PICK tokens : tokens = ValueIn(lines, "KEYWORDS", <<>>)
    OBVIOUS
  <2>2. W.keywords = KeywordsAfter(tokens, None, Len(tokens))
    BY <2>1 DEF Whole
  <2>3. None = [a \in Arches |-> None[a]]
    BY DEF None
  <2>4. CASE At(lines, "KEYWORDS") = {}
    <3>1. tokens = <<>>
      BY <2>1, <2>4, ValueAt
    <3>2. Len(tokens) = 0 /\ \A a : ForArch(tokens, a, 0) = {}
      BY <3>1 DEF ForArch
    <3>3. KeywordsAfter(tokens, None, Len(tokens)) = None
      BY <2>3, <3>2 DEF KeywordsAfter
    <3> QED
      BY <2>2, <2>4, <3>3, KeywordsRead
  <2>5. CASE At(lines, "KEYWORDS") # {}
    <3>1. PICK k : k \in At(lines, "KEYWORDS")
      BY <2>5
    <3>2. tokens = lines[k].value
      BY <2>1, <3>1, ValueAt
    <3>3. Len(tokens) \in Nat
      BY <3>1, <3>2, LinesAre, LenProperties DEF At
    <3>4. E.keywords = KeywordsOf(tokens, None)
      BY <3>1, <3>2, KeywordsRead
    <3> QED
      BY <2>2, <2>3, <3>3, <3>4, KeywordsOfIs
  <2> QED
    BY <2>4, <2>5
<1>6. E.iuse = W.iuse
  <2>1. PICK tokens : tokens = ValueIn(lines, "IUSE", <<>>)
    OBVIOUS
  <2>2. W.iuse = IUseAfter(tokens, <<>>, Len(tokens))
    BY <2>1 DEF Whole
  <2>3. <<>> = [k \in DOMAIN <<>> |-> <<>>[k]]
    OBVIOUS
  <2>4. CASE At(lines, "IUSE") = {}
    <3>1. tokens = <<>>
      BY <2>1, <2>4, ValueAt
    <3>2. IUseAfter(<<>>, <<>>, 0) = <<>>
      <4>1. \A k : ForFlag(<<>>, k, 0) = {}
        BY DEF ForFlag
      <4>2. {<<>>[i].name : i \in 1..0} \cup DOMAIN <<>> = {}
        OBVIOUS
      <4> QED
        BY <4>1, <4>2 DEF IUseAfter
    <3>3. W.iuse = <<>>
      BY <2>2, <3>1, <3>2
    <3>4. B.iuse = W.iuse
      BY <3>3 DEF Blank
    <3> QED
      BY <2>4, <3>4, IUseRead
  <2>5. CASE At(lines, "IUSE") # {}
    <3>1. PICK k : k \in At(lines, "IUSE")
      BY <2>5
    <3>2. tokens = lines[k].value
      BY <2>1, <3>1, ValueAt
    <3>3. Len(tokens) \in Nat
      BY <3>1, <3>2, LinesAre, LenProperties DEF At
    <3>4. E.iuse = IUseOf(tokens, B.iuse)
      BY <3>1, <3>2, IUseRead
    <3>5. CASE B.iuse = <<>>
      BY <2>2, <2>3, <3>3, <3>4, <3>5, IUseOfIs, ZenonT(60)
    <3>6. CASE B.iuse = W.iuse
      <4>1. W.iuse = [n \in DOMAIN W.iuse |-> W.iuse[n]] /\ IUseAfter(tokens, W.iuse, Len(tokens)) = W.iuse
        BY <2>2, <3>3, IUseTwice
      <4> QED
        BY <3>3, <3>4, <3>6, <4>1, IUseOfIs
    <3> QED
      BY <3>5, <3>6 DEF Blank
  <2> QED
    BY <2>4, <2>5
<1> QED
  BY <1>2, <1>3, <1>4, <1>5, <1>6

----------------------------------------------------------------------------
(* The invariant *)

\* What an ebuild has, by how often its file was read.
MetadataInv ==
    /\ file \in Files /\ reads \in Nat /\ IsMeta(meta)
    /\ reads = 0 => Blank(meta)
    /\ reads > 0 /\ Usable(file, Len(file)) => meta = Whole(file)
    /\ ~Usable(file, Len(file)) => ~meta.initialized

\* Before the first reading the ebuild is blank.
LEMMA MetadataInit == Init => MetadataInv
<1> SUFFICES ASSUME Init PROVE MetadataInv
  OBVIOUS
<1> DEFINE none == [d \in Dependencies |-> Null]
           broken == [a \in Arches |-> "broken"]
<1>1. meta = [depend |-> none, slot |-> Null, subSlot |-> Null, required |-> <<>>,
              keywords |-> broken, iuse |-> <<>>, initialized |-> FALSE]
  BY DEF Init
<1>2. none = [d \in Dependencies |-> none[d]] /\ \A d \in Dependencies : none[d] = Null
  OBVIOUS
<1> HIDE DEF none, broken
<1>3. IsMeta(meta)
  BY <1>1, <1>2 DEF IsMeta
<1>4. Blank(meta)
  BY <1>1, <1>2, <1>3 DEF Blank
<1> QED
  BY <1>3, <1>4 DEF Init, MetadataInv, Blank

\* A reading keeps a whole ebuild whole, makes a blank one whole if every
\* line can be used, and does not initialize it otherwise.
LEMMA ReadingKeeps ==
    ASSUME MetadataInv, InitializeMetadata
    PROVE  MetadataInv'
<1>1. PICK lines \in Files : lines = file
  BY DEF MetadataInv
<1>2. PICK B : B = [meta EXCEPT !.keywords = None]
  OBVIOUS
<1>3. PICK begin : begin = [meta |-> B, error |-> 0, left |-> FALSE]
  OBVIOUS
<1>4. PICK end : end = ReadLines(begin)
  OBVIOUS
<1>5. /\ meta' = [end.meta EXCEPT !.initialized = @ \/ end.error = 0]
      /\ file' = file /\ reads' = reads + 1
  BY <1>2, <1>3, <1>4, Zenon DEF InitializeMetadata, None
<1>6. Len(lines) \in Nat
  BY LinesAre
<1>7. PICK R : /\ R[0] = begin /\ end = R[Len(lines)]
               /\ \A n \in 1..Len(lines) : R[n] = ReadLine(R[n - 1], lines[n])
  BY <1>1, <1>4, <1>6, ReadLinesIs
<1>8. /\ IsMeta(B) /\ B.keywords = None /\ B.depend = meta.depend /\ B.slot = meta.slot
      /\ B.subSlot = meta.subSlot /\ B.required = meta.required /\ B.iuse = meta.iuse
      /\ B.initialized = meta.initialized
  BY <1>2 DEF MetadataInv, IsMeta
<1>9. IsReadingOf(R, lines) /\ R[0].meta = B /\ R[0].error = 0
  BY <1>3, <1>7, <1>8 DEF IsReadingOf, IsReading
<1>10. IsReading(end) /\ end.meta.initialized = meta.initialized
  BY <1>7, <1>8, <1>9, ErrorOfReading
<1>11. PICK E : E = end.meta
  OBVIOUS
<1>12. PICK new : new = meta'
  OBVIOUS
<1>13. /\ IsMeta(new) /\ new.depend = E.depend /\ new.slot = E.slot
       /\ new.subSlot = E.subSlot /\ new.required = E.required /\ new.keywords = E.keywords
       /\ new.iuse = E.iuse /\ new.initialized = (E.initialized \/ end.error = 0)
  BY <1>5, <1>10, <1>11, <1>12 DEF IsReading, IsMeta
<1>14. reads' \in Nat /\ reads' # 0 /\ file' = lines
  BY <1>1, <1>5 DEF MetadataInv
<1>15. CASE Usable(lines, Len(lines))
  <2>1. PICK W : W = Whole(lines)
    OBVIOUS
  <2>2. CASE reads = 0
    <3>1. Blank(B)
      BY <1>8, <2>2 DEF MetadataInv, Blank
    <3>2. /\ E.depend = W.depend /\ E.slot = W.slot /\ E.subSlot = W.subSlot
          /\ E.required = W.required /\ E.keywords = W.keywords /\ E.iuse = W.iuse
      BY <1>7, <1>8, <1>9, <1>11, <1>15, <2>1, <3>1, ReadingIsWhole
    <3>3. end.error = 0
      BY <1>7, <1>9, <1>15, <3>1, NoErrorOf DEF Blank
    <3>4. new = W
      BY <1>13, <2>1, <3>2, <3>3, SameMeta, WholeIsMeta, ZenonT(60)
    <3> QED
      BY <1>12, <1>13, <1>14, <1>15, <2>1, <3>4 DEF MetadataInv
  <2>3. CASE reads # 0
    <3>1. meta = W
      BY <1>1, <1>15, <2>1, <2>3 DEF MetadataInv
    <3>2. /\ E.depend = W.depend /\ E.slot = W.slot /\ E.subSlot = W.subSlot
          /\ E.required = W.required /\ E.keywords = W.keywords /\ E.iuse = W.iuse
      BY <1>7, <1>8, <1>9, <1>11, <1>15, <2>1, <3>1, ReadingIsWhole
    <3>3. new.initialized = W.initialized
      BY <1>10, <1>11, <1>13, <2>1, <3>1, WholeIsMeta DEF IsMeta
    <3>4. new = W
      BY <1>13, <2>1, <3>2, <3>3, SameMeta, WholeIsMeta, ZenonT(60)
    <3> QED
      BY <1>12, <1>13, <1>14, <1>15, <2>1, <3>4 DEF MetadataInv
  <2> QED
    BY <2>2, <2>3
<1>16. CASE ~Usable(lines, Len(lines))
  <2>1. ~meta.initialized
    BY <1>1, <1>16 DEF MetadataInv
  <2>2. end.error # 0
    BY <1>7, <1>9, <1>16, ErrorOfReading
  <2>3. ~new.initialized
    BY <1>10, <1>11, <1>13, <2>1, <2>2
  <2> QED
    BY <1>12, <1>13, <1>14, <1>16, <2>3 DEF MetadataInv
<1> QED
  BY <1>15, <1>16

\* initialize_metadata and flush_use keep the invariant.
LEMMA MetadataNext ==
    MetadataInv /\ [Next]_vars => MetadataInv'
<1> SUFFICES ASSUME MetadataInv, [Next]_vars PROVE MetadataInv'
  OBVIOUS
<1>1. CASE InitializeMetadata
  BY <1>1, ReadingKeeps
<1>2. ASSUME NEW name \in DOMAIN State, FlushUse(name) PROVE MetadataInv'
  BY <1>2 DEF MetadataInv, FlushUse
<1>3. CASE UNCHANGED vars
  BY <1>3 DEF MetadataInv, vars
<1> QED
  BY <1>1, <1>2, <1>3 DEF Next

\* The invariant holds, for any files, architectures and bounds.
THEOREM MetadataInvariant == Spec => []MetadataInv
<1> QED
  BY MetadataInit, MetadataNext, PTL DEF Spec

----------------------------------------------------------------------------
(* The properties *)

\* What the file says, of its lines.
LEMMA FileIs ==
    ASSUME MetadataInv
    PROVE  /\ WellFormed <=> Usable(file, Len(file))
           /\ \A key, default : ValueOf(key, default) = ValueIn(file, key, default)
<1>1. Len(file) \in Nat /\ DOMAIN file = 1..Len(file)
  BY LinesAre DEF MetadataInv
<1>2. \A key : Lines(key) = At(file, key)
  BY <1>1 DEF Lines, At
<1>3. \A key, default : ValueOf(key, default) = ValueIn(file, key, default)
  <2> SUFFICES ASSUME NEW key, NEW default PROVE ValueOf(key, default) = ValueIn(file, key, default)
    OBVIOUS
  <2> DEFINE L == Lines(key)
             A == At(file, key)
             P(S) == IF S = {} THEN default ELSE file[CHOOSE i \in S : TRUE].value
  <2>1. L = A
    BY <1>2
  <2>2. ValueOf(key, default) = P(L) /\ ValueIn(file, key, default) = P(A)
    BY Zenon DEF ValueOf, ValueIn
  <2> HIDE DEF L, A, P
  <2> QED
    BY <2>1, <2>2
<1>4. WellFormed <=> Usable(file, Len(file))
  BY <1>1, <1>2 DEF WellFormed, Usable, At
<1> QED
  BY <1>3, <1>4

\* The values of a file that can be used.
LEMMA ValueTypes ==
    ASSUME NEW lines \in Files, Usable(lines, Len(lines))
    PROVE  /\ ValueIn(lines, "REQUIRED_USE", <<>>) \in Texts
           /\ LET tokens == ValueIn(lines, "KEYWORDS", <<>>)
              IN  Len(tokens) \in Nat /\ DOMAIN tokens = 1..Len(tokens)
           /\ LET tokens == ValueIn(lines, "IUSE", <<>>)
              IN  Len(tokens) \in Nat /\ DOMAIN tokens = 1..Len(tokens)
<1>1. ValueIn(lines, "REQUIRED_USE", <<>>) \in Texts
  <2>1. CASE At(lines, "REQUIRED_USE") = {}
    BY <2>1, ValueAt, EmptySeq DEF Texts
  <2>2. CASE At(lines, "REQUIRED_USE") # {}
    <3>1. PICK k : k \in At(lines, "REQUIRED_USE")
      BY <2>2
    <3>2. lines[k].value \in Texts
      BY <3>1, LinesAre DEF At, Usable
    <3> QED
      BY <3>1, <3>2, ValueAt
  <2> QED
    BY <2>1, <2>2
<1>2. ASSUME NEW key \in {"KEYWORDS", "IUSE"}
      PROVE  \E S : ValueIn(lines, key, <<>>) \in Seq(S)
  <2>1. CASE At(lines, key) = {}
    <3>1. <<>> \in Seq({})
      OBVIOUS
    <3> QED
      BY <2>1, <3>1, ValueAt
  <2>2. CASE At(lines, key) # {}
    <3>1. PICK k : k \in At(lines, key)
      BY <2>2
    <3>2. \E S : lines[k].value \in Seq(S)
      BY <3>1, LinesAre DEF At
    <3> QED
      BY <3>1, <3>2, ValueAt
  <2> QED
    BY <2>1, <2>2
<1>3. \A S : \A t \in Seq(S) : Len(t) \in Nat /\ DOMAIN t = 1..Len(t)
  BY LenProperties
<1> QED
  BY <1>1, <1>2, <1>3

\* A whole ebuild has what its file says.
LEMMA WholeSays ==
    ASSUME MetadataInv, WellFormed, meta = Whole(file)
    PROVE  IsWhole
<1>1. PICK lines \in Files : lines = file
  BY DEF MetadataInv
<1>2. Usable(lines, Len(lines)) /\ \A key, default : ValueOf(key, default) = ValueIn(lines, key, default)
  BY <1>1, FileIs
<1>3. PICK slot : slot = ValueIn(lines, "SLOT", <<Null>>)
  OBVIOUS
<1>4. PICK keywords : keywords = ValueIn(lines, "KEYWORDS", <<>>)
  OBVIOUS
<1>5. PICK iuse : iuse = ValueIn(lines, "IUSE", <<>>)
  OBVIOUS
<1>6. /\ Len(keywords) \in Nat /\ DOMAIN keywords = 1..Len(keywords)
      /\ Len(iuse) \in Nat /\ DOMAIN iuse = 1..Len(iuse)
  BY <1>2, <1>4, <1>5, ValueTypes
<1>7. /\ meta.depend = [d \in Dependencies |-> ValueIn(lines, d, Null)]
      /\ meta.slot = slot[1] /\ meta.subSlot = (IF Len(slot) > 1 THEN slot[2] ELSE Null)
      /\ meta.keywords = KeywordsAfter(keywords, None, Len(keywords))
      /\ meta.iuse = IUseAfter(iuse, <<>>, Len(iuse))
  BY <1>1, <1>3, <1>4, <1>5 DEF Whole
<1>8. meta.keywords = [a \in Arches |-> KeywordOf(a)]
  <2>1. \A a \in Arches : KeywordOf(a) =
            IF ForArch(keywords, a, Len(keywords)) = {} THEN None[a]
            ELSE keywords[Last(ForArch(keywords, a, Len(keywords)))].keyword
    BY <1>2, <1>4, <1>6 DEF KeywordOf, ForArch, None
  <2> QED
    BY <1>7, <2>1 DEF KeywordsAfter
<1>9. /\ DOMAIN meta.iuse = {iuse[i].name : i \in DOMAIN iuse}
      /\ \A name \in DOMAIN meta.iuse :
           meta.iuse[name] = iuse[Last({i \in DOMAIN iuse : iuse[i].name = name})].on
  <2> DEFINE D == {iuse[i].name : i \in DOMAIN iuse}
  <2>1. {iuse[i].name : i \in 1..Len(iuse)} \cup DOMAIN <<>> = D
    BY <1>6
  <2>2. meta.iuse = [k \in D |->
            IF ForFlag(iuse, k, Len(iuse)) = {} THEN <<>>[k]
            ELSE iuse[Last(ForFlag(iuse, k, Len(iuse)))].on]
    BY <1>7, <2>1 DEF IUseAfter
  <2>3. \A k \in D : /\ ForFlag(iuse, k, Len(iuse)) = {i \in DOMAIN iuse : iuse[i].name = k}
                     /\ ForFlag(iuse, k, Len(iuse)) # {}
    BY <1>6 DEF ForFlag
  <2> HIDE DEF D
  <2>4. DOMAIN meta.iuse = D
    BY <2>2
  <2>5. \A k \in D : meta.iuse[k] = iuse[Last({i \in DOMAIN iuse : iuse[i].name = k})].on
    BY <2>2, <2>3
  <2> QED
    BY <2>4, <2>5 DEF D
<1>10. /\ ValueOf("IUSE", <<>>) = iuse /\ ValueOf("SLOT", <<Null>>) = slot
       /\ \A d \in Dependencies : ValueOf(d, Null) = ValueIn(lines, d, Null)
  BY <1>2, <1>3, <1>5
<1>11. meta.depend = [d \in Dependencies |-> ValueOf(d, Null)]
  BY <1>7, <1>10
<1>12. meta.slot = slot[1] /\ meta.subSlot = (IF Len(slot) > 1 THEN slot[2] ELSE Null)
  BY <1>7
<1> DEFINE I == ValueOf("IUSE", <<>>)
           S == ValueOf("SLOT", <<Null>>)
<1>13. I = iuse /\ S = slot
  BY <1>10
<1> HIDE DEF I, S
<1>14. /\ meta.slot = S[1] /\ meta.subSlot = (IF Len(S) > 1 THEN S[2] ELSE Null)
       /\ DOMAIN meta.iuse = {I[i].name : i \in DOMAIN I}
       /\ \A name \in DOMAIN meta.iuse :
            meta.iuse[name] = I[Last({i \in DOMAIN I : I[i].name = name})].on
  BY <1>9, <1>12, <1>13
<1> QED
  BY <1>8, <1>11, <1>14, Zenon DEF IsWhole, I, S

\* An initialized ebuild is whole.
LEMMA InitializedIsWhole ==
    ASSUME MetadataInv, meta.initialized
    PROVE  Usable(file, Len(file)) /\ meta = Whole(file)
BY DEF MetadataInv, Blank

\* metadata_init is set when, and only when, every line of the file could be
\* used, and the ebuild then has what they say and keeps it, for any files.
THEOREM MetadataWhole == Spec => MetadataIsWhole
<1>1. MetadataInv => (meta.initialized => WellFormed /\ IsWhole)
  BY InitializedIsWhole, FileIs, WholeSays
<1>2. MetadataInv => (reads > 0 /\ WellFormed => meta.initialized)
  BY FileIs, WholeIsMeta DEF MetadataInv
<1>3. MetadataInv /\ MetadataInv' /\ [Next]_vars => [meta.initialized => meta' = meta]_vars
  <2> SUFFICES ASSUME MetadataInv, MetadataInv', [Next]_vars, meta.initialized
               PROVE  meta' = meta
    OBVIOUS
  <2>1. Usable(file, Len(file)) /\ meta = Whole(file)
    BY InitializedIsWhole
  <2>2. CASE InitializeMetadata
    <3>1. PICK lines : lines = file
      OBVIOUS
    <3>2. file' = lines /\ reads' > 0
      BY <2>2, <3>1 DEF InitializeMetadata, MetadataInv
    <3>3. meta' = Whole(lines)
      BY <2>1, <3>1, <3>2 DEF MetadataInv
    <3> QED
      BY <2>1, <3>1, <3>3
  <2>3. ASSUME NEW name \in DOMAIN State, FlushUse(name) PROVE meta' = meta
    BY <2>3 DEF FlushUse
  <2>4. CASE UNCHANGED vars
    BY <2>4 DEF vars
  <2> QED
    BY <2>2, <2>3, <2>4 DEF Next
<1> QED
  BY <1>1, <1>2, <1>3, MetadataInvariant, PTL DEF MetadataIsWhole, Spec

\* RequiredUseHook accepts no state of the flags that REQUIRED_USE forbids if
\* the text has neither groups nor conditions that are counted, and refuses
\* none that it allows if there are no conditions, for texts of any length
\* and nesting and any states.
THEOREM RequiredUseIsKept == Spec => []RequiredUseKept
<1>1. MetadataInv => RequiredUseKept
  <2> SUFFICES ASSUME MetadataInv, meta.initialized PROVE RequiredUseKept
    BY DEF RequiredUseKept
  <2>1. PICK lines \in Files : lines = file
    BY DEF MetadataInv
  <2>2. Usable(lines, Len(lines)) /\ meta = Whole(lines)
    BY <2>1, InitializedIsWhole
  <2>3. PICK text : text = ValueOf("REQUIRED_USE", <<>>)
    OBVIOUS
  <2>4. text \in Texts /\ meta.required = Parsed(text)
    <3>1. text = ValueIn(lines, "REQUIRED_USE", <<>>)
      BY <2>1, <2>3, FileIs
    <3> QED
      BY <2>2, <3>1, ValueTypes DEF Whole
  <2>5. PICK state : state = State
    OBVIOUS
  <2>6. /\ ~HasGroups(text) /\ ~CountsConditions(text) =>
             (Accepted(meta.required, state) => Means(text, state))
        /\ ~HasGroups(text) /\ ~HasConditions(text) =>
             (Means(text, state) => Accepted(meta.required, state))
    BY <2>4, TextKept
  <2> QED
    BY <2>3, <2>5, <2>6 DEF RequiredUseKept
<1> QED
  BY <1>1, MetadataInvariant, PTL
=============================================================================
