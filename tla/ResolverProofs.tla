-------------------------- MODULE ResolverProofs --------------------------
(***************************************************************************)
(* Theorems about Resolver, for any packages, repositories, requests and   *)
(* bounds.  First about its calls: those of regenerate that are under way  *)
(* are a path without a cycle, and what get_resolved has given back is     *)
(* closed.  Then about its selections: the variables are typed, a          *)
(* dependency that was resolved is met by a selection of the tree, and the *)
(* use flags that atoms require of a selection are kept.                   *)
(*                                                                         *)
(* The inductive invariant, SelectionInv, adds five parts to ResolverInv.  *)
(* SelsOK: each selection is of its package's ebuilds and filed once.      *)
(* ResultsOK: what was resolved and returned is a selection.  FlagsOK: no  *)
(* selection breaks its hooks.  GeneratorsOK: a selection that is clean or *)
(* in the session has the generators its ebuild needs.  TurnOK: a call     *)
(* that goes through the dependencies has met those it came by.  FlagsOK,  *)
(* GeneratorsOK and what TurnOK says was met are of a run in which no      *)
(* request raised.                                                         *)
(***************************************************************************)
EXTENDS Resolver, LeastNumber, SequenceTheorems

IsSeq(s) == \E S : s \in Seq(S)

Node == [gens : Seq(Nat), resolved : Seq(Nat)]
Phases == {"begin", "flush", "deps", "children"}
FrameOf(E) == [sel : Nat, phase : Phases, at : Nat \ {0}, ebuild : E]

\* The generators in tree t are selections of it.
GensIn(t) ==
    /\ t \in Seq(Node)
    /\ \A i \in 1..Len(t) : \A k \in 1..Len(t[i].gens) : t[i].gens[k] \in 1..Len(t)

\* The selections filed in d are among the first n.
FiledIn(d, n) == \E X : d \in [Packages -> Seq([slot : X, sel : 1..n])]

ObjectsOK ==
    /\ IsSeq(sels) /\ Len(sels) = Len(tree)
    /\ GensIn(tree)
    /\ FiledIn(slots, Len(tree))
    /\ session \subseteq 1..Len(tree)

Depth == Len(stack)

FramesOK ==
    /\ \E E : stack \in Seq(FrameOf(E))
    /\ \A k \in 1..Depth : stack[k].sel \in session
    /\ \A k \in 1..Depth : stack[k].phase = "begin" => stack[k].at = 1

\* The first n generators of a node are resolved, in the session.
ResolvedTo(node, n) ==
    /\ n <= Len(node.gens) /\ Len(node.resolved) = n
    /\ \A j \in 1..n : node.resolved[j] = node.gens[j] /\ node.gens[j] \in session

ChildrenOK ==
    \A k \in 1..Depth : stack[k].phase = "children" =>
        ResolvedTo(tree[stack[k].sel], stack[k].at - 1)

PathOK ==
    /\ \A j, k \in 1..Depth : stack[j].sel = stack[k].sel => j = k
    /\ \A k \in 1..(Depth - 1) :
         /\ stack[k].phase = "children"
         /\ stack[k].at <= Len(tree[stack[k].sel].gens)
         /\ stack[k + 1].sel = tree[stack[k].sel].gens[stack[k].at]

RunningOK == status = "running" <=> stack # <<>> /\ status # "hung"

FinishedOK ==
    ~raised => \A i \in session :
        (\A k \in 1..Depth : stack[k].sel # i) => ResolvedTo(tree[i], Len(tree[i].gens))

ResolverInv ==
    ObjectsOK /\ FramesOK /\ ChildrenOK /\ PathOK /\ RunningOK /\ FinishedOK

----------------------------------------------------------------------------
(* Sequences *)

\* Writing to a place of a sequence keeps it a sequence of its length.
LEMMA PutIsSeq ==
    ASSUME NEW s, IsSeq(s), NEW i, NEW v
    PROVE  IsSeq([s EXCEPT ![i] = v]) /\ Len([s EXCEPT ![i] = v]) = Len(s)
<1>1. PICK S : s \in Seq(S)
  BY DEF IsSeq
<1> DEFINE T == S \cup {v}
           t == [s EXCEPT ![i] = v]
<1>2. s \in [1..Len(s) -> S] /\ Len(s) \in Nat
  BY <1>1
<1>3. t \in [1..Len(s) -> T]
  BY <1>2
<1>4. t \in Seq(T) /\ Len(t) = Len(s)
  <2> HIDE DEF t
  <2> QED
    BY <1>2, <1>3
<1> QED
  BY <1>4 DEF IsSeq

\* So does adding to its end, which leaves the rest.
LEMMA AppendIsSeq ==
    ASSUME NEW s, IsSeq(s), NEW v
    PROVE  IsSeq(Append(s, v)) /\ Len(Append(s, v)) = Len(s) + 1
<1>1. PICK S : s \in Seq(S)
  BY DEF IsSeq
<1>2. s \in Seq(S \cup {v})
  BY <1>1
<1> QED
  BY <1>2, AppendProperties DEF IsSeq

\* Another frame at the top of the stack leaves those below.
LEMMA TopPut ==
    ASSUME NEW E, NEW s \in Seq(FrameOf(E)), s # <<>>, NEW f \in FrameOf(E)
    PROVE  /\ [s EXCEPT ![Len(s)] = f] \in Seq(FrameOf(E))
           /\ Len([s EXCEPT ![Len(s)] = f]) = Len(s)
           /\ [s EXCEPT ![Len(s)] = f][Len(s)] = f
           /\ \A k \in 1..(Len(s) - 1) : [s EXCEPT ![Len(s)] = f][k] = s[k]
<1>1. s \in [1..Len(s) -> FrameOf(E)] /\ Len(s) \in Nat /\ Len(s) # 0
  BY EmptySeq
<1> DEFINE t == [s EXCEPT ![Len(s)] = f]
<1>2. t \in [1..Len(s) -> FrameOf(E)]
  BY <1>1
<1>3. t[Len(s)] = f /\ \A k \in 1..(Len(s) - 1) : t[k] = s[k]
  <2> DEFINE n == Len(s)
  <2>1. n \in 1..n /\ n \in Nat /\ DOMAIN s = 1..n
    BY <1>1
  <2> HIDE DEF n
  <2>2. \A k \in 1..(n - 1) : k \in 1..n /\ k # n
    BY <2>1
  <2>3. t = [s EXCEPT ![n] = f]
    BY DEF n
  <2> HIDE DEF t
  <2>4. t[n] = f /\ \A k \in 1..(n - 1) : t[k] = s[k]
    BY <2>1, <2>2, <2>3
  <2> QED
    BY <2>4 DEF n
<1> HIDE DEF t
<1>4. t \in Seq(FrameOf(E)) /\ Len(t) = Len(s)
  BY <1>1, <1>2
<1> QED
  BY <1>3, <1>4 DEF t

----------------------------------------------------------------------------
(* Selections *)

\* A tree with a new selection, or none.
Grown(t) == t \in {tree, Append(tree, NoTree)}

\* A new selection has no generators, and the others keep theirs.
LEMMA GrownTree ==
    ASSUME GensIn(tree), NEW t, Grown(t)
    PROVE  /\ GensIn(t) /\ Len(t) \in Nat /\ Len(tree) \in Nat /\ Len(tree) <= Len(t)
           /\ \A i \in 1..Len(tree) : t[i] = tree[i]
<1>1. NoTree \in Node
  BY DEF NoTree, Node
<1>2. CASE t = tree
  BY <1>2 DEF GensIn
<1>3. CASE t = Append(tree, NoTree)
  <2>1. /\ tree \in Seq(Node) /\ t \in Seq(Node) /\ Len(t) = Len(tree) + 1
        /\ Len(tree) \in Nat
        /\ \A i \in 1..Len(tree) : t[i] = tree[i]
        /\ t[Len(tree) + 1] = NoTree
    BY <1>1, <1>3, AppendProperties DEF GensIn
  <2>2. Len(t[Len(tree) + 1].gens) = 0
    BY <2>1 DEF NoTree
  <2>3. ASSUME NEW i \in 1..Len(t), NEW k \in 1..Len(t[i].gens)
        PROVE  t[i].gens[k] \in 1..Len(t)
    <3>1. i \in 1..Len(tree)
      BY <2>1, <2>2, <2>3
    <3>2. t[i] = tree[i] /\ tree[i].gens[k] \in 1..Len(tree)
      BY <2>1, <2>3, <3>1 DEF GensIn
    <3> QED
      BY <2>1, <3>2
  <2> QED
    BY <2>1, <2>3 DEF GensIn
<1> QED
  BY <1>2, <1>3 DEF Grown

\* What resolve_single answers about an atom: a selection there is, in a tree
\* with at most one new selection, all filed.
Sound(r) ==
    /\ Grown(r.tree)
    /\ r.got \in 0..Len(r.tree)
    /\ IsSeq(r.sels) /\ Len(r.sels) = Len(r.tree)
    /\ FiledIn(r.slots, Len(r.tree))

\* What is filed is a selection there is.
LEMMA FiledSelection ==
    ASSUME ObjectsOK, NEW p \in Packages, NEW i \in DOMAIN slots[p]
    PROVE  slots[p][i].sel \in 1..Len(tree)
<1>1. PICK X : slots \in [Packages -> Seq([slot : X, sel : 1..Len(tree)])]
  BY DEF ObjectsOK, FiledIn
<1>2. slots[p] \in Seq([slot : X, sel : 1..Len(tree)])
  BY <1>1
<1> DEFINE C == [slot : X, sel : 1..Len(tree)]
<1> HIDE DEF C
<1>3. slots[p][i] \in C
  BY <1>2, ElementOfSeq, LenProperties DEF C
<1> QED
  BY <1>3 DEF C

\* Positions that are not empty have a first.
LEMMA FirstIsIn ==
    ASSUME NEW S, S \subseteq Nat, S # {}
    PROVE  First(S) \in S /\ \A j \in S : First(S) <= j
  BY HasLeast DEF First

\* The dictionary is a sequence for each package.
LEMMA SlotsDomain ==
    ASSUME ObjectsOK, NEW p \in Packages
    PROVE  DOMAIN slots[p] \subseteq Nat
<1>1. PICK X : slots \in [Packages -> Seq([slot : X, sel : 1..Len(tree)])]
  BY DEF ObjectsOK, FiledIn
<1>2. slots[p] \in Seq([slot : X, sel : 1..Len(tree)])
  BY <1>1
<1>3. DOMAIN slots[p] = 1..Len(slots[p]) /\ Len(slots[p]) \in Nat
  BY <1>2, LenProperties
<1> QED
  BY <1>3

\* What the cases of match_atom say of the slots of the package.
LEMMA ChoiceCases ==
    ASSUME NEW a
    PROVE  /\ Choice(a) = "keep" => a.pkg \in Packages /\ MatchingSlots(a) # {}
           /\ Choice(a) = "add" => a.pkg \in Packages /\ a.chosen # NoEbuild
           /\ Choice(a) = "change" => a.pkg \in Packages /\ SameSlot(a) # {}
           /\ Choice(a) \in {"change", "nothing"} =>
                /\ a.pkg \in Packages /\ a.chosen # NoEbuild
                /\ slots[a.pkg] # <<>> /\ MatchingSlots(a) = {}
           /\ Choice(a) = "nothing" => a.chosen \notin read
<1>1. CASE a.pkg \notin Packages \/ a.chosen = NoEbuild
  <2>1. Choice(a) = "raise"
    BY <1>1, Zenon DEF Choice
  <2> QED
    BY <2>1
<1> DEFINE found == a.pkg \in Packages /\ a.chosen # NoEbuild
           nested == CASE slots[a.pkg] = <<>> -> "add"
                       [] slots[a.pkg] # <<>> /\ MatchingSlots(a) # {} -> "keep"
                       [] slots[a.pkg] # <<>> /\ MatchingSlots(a) = {} ->
                             CASE a.chosen \notin read -> "nothing"
                               [] a.chosen \in read /\ SameSlot(a) = {} -> "add"
                               [] OTHER -> "change"
           last == CASE a.chosen \notin read -> "nothing"
                     [] a.chosen \in read /\ SameSlot(a) = {} -> "add"
                     [] OTHER -> "change"
<1>2. CASE found
  <2>1. Choice(a) = nested
    BY <1>2, Zenon DEF Choice
  <2>2. CASE slots[a.pkg] = <<>>
    <3>1. nested = "add"
      BY <2>2, Zenon
    <3> QED
      BY <1>2, <2>1, <3>1
  <2>3. CASE slots[a.pkg] # <<>> /\ MatchingSlots(a) # {}
    <3>1. nested = "keep"
      BY <2>3, Zenon
    <3> QED
      BY <1>2, <2>1, <2>3, <3>1
  <2>4. CASE slots[a.pkg] # <<>> /\ MatchingSlots(a) = {}
    <3>1. nested = last
      BY <2>4, Zenon
    <3>2. \/ a.chosen \notin read /\ last = "nothing"
          \/ last = "add"
          \/ SameSlot(a) # {} /\ last = "change"
      <4>1. CASE a.chosen \notin read
        <5>1. last = "nothing"
          BY <4>1, Zenon
        <5> HIDE DEF last
        <5> QED
          BY <4>1, <5>1
      <4>2. CASE a.chosen \in read /\ SameSlot(a) = {}
        <5>1. last = "add"
          BY <4>2, Zenon
        <5> HIDE DEF last
        <5> QED
          BY <5>1
      <4>3. CASE a.chosen \in read /\ SameSlot(a) # {}
        <5>1. last = "change"
          BY <4>3, Zenon
        <5> HIDE DEF last
        <5> QED
          BY <4>3, <5>1, Zenon
      <4> QED
        BY <4>1, <4>2, <4>3, Zenon
    <3> HIDE DEF nested, last
    <3> QED
      BY <1>2, <2>1, <2>4, <3>1, <3>2
  <2> QED
    BY <2>2, <2>3, <2>4
<1> QED
  BY <1>1, <1>2

\* The selection that is there, for an atom of whose package one matches.
LEMMA KeepIsSound ==
    ASSUME ObjectsOK, NEW a, Choice(a) = "keep"
    PROVE  Sound(Answer("ok", slots[a.pkg][First(MatchingSlots(a))].sel, sels, tree, slots))
<1>1. a.pkg \in Packages /\ MatchingSlots(a) # {} /\ MatchingSlots(a) \subseteq DOMAIN slots[a.pkg]
  BY ChoiceCases DEF MatchingSlots
<1>2. First(MatchingSlots(a)) \in DOMAIN slots[a.pkg]
  BY <1>1, SlotsDomain, FirstIsIn
<1> DEFINE got == slots[a.pkg][First(MatchingSlots(a))].sel
<1>3. got \in 1..Len(tree)
  BY <1>1, <1>2, FiledSelection
<1> HIDE DEF got
<1>4. IsSeq(sels) /\ Len(sels) = Len(tree) /\ FiledIn(slots, Len(tree)) /\ got \in 0..Len(tree)
  BY <1>3 DEF ObjectsOK
<1>5. Sound(Answer("ok", got, sels, tree, slots))
  BY <1>4 DEF Sound, Answer, Grown
<1> QED
  BY <1>5 DEF got

\* A new selection is filed under its slot.
LEMMA AddIsSound ==
    ASSUME ObjectsOK, NEW a, Choice(a) = "add"
    PROVE  Sound(Answer("ok", Len(sels) + 1, Append(sels, Selection(a)), Append(tree, NoTree),
                        [slots EXCEPT ![a.pkg] =
                            Append(@, [slot |-> SlotNow(a.chosen), sel |-> Len(sels) + 1])]))
<1> DEFINE n == Len(tree)
           item == [slot |-> SlotNow(a.chosen), sel |-> n + 1]
           news == [slots EXCEPT ![a.pkg] = Append(@, item)]
<1>1. a.pkg \in Packages /\ Len(sels) = n /\ n \in Nat
  BY ChoiceCases DEF ObjectsOK, GensIn
<1>2. IsSeq(Append(sels, Selection(a))) /\ Len(Append(sels, Selection(a))) = n + 1
  BY <1>1, AppendIsSeq DEF ObjectsOK
<1>3. Len(Append(tree, NoTree)) = n + 1
  BY <1>1, AppendIsSeq DEF ObjectsOK, GensIn, IsSeq
<1>4. FiledIn(news, n + 1)
  <2>1. PICK X : slots \in [Packages -> Seq([slot : X, sel : 1..n])]
    BY DEF ObjectsOK, FiledIn
  <2> DEFINE Y == X \cup {SlotNow(a.chosen)}
             Old == [slot : X, sel : 1..n]
             New == [slot : Y, sel : 1..(n + 1)]
  <2>2. item \in New /\ Old \subseteq New
    BY <1>1
  <2> HIDE DEF item, Old, New
  <2>3. \A s \in Seq(Old) : s \in Seq(New) /\ Append(s, item) \in Seq(New)
    BY <2>2, AppendProperties
  <2>4. slots \in [Packages -> Seq(New)]
    BY <2>1, <2>3 DEF Old
  <2>5. Append(slots[a.pkg], item) \in Seq(New)
    BY <1>1, <2>1, <2>3 DEF Old
  <2>6. news \in [Packages -> Seq(New)]
    BY <1>1, <2>4, <2>5
  <2> QED
    BY <2>6 DEF FiledIn, New
<1> HIDE DEF n
<1>5. n + 1 \in 0..(n + 1)
  BY <1>1
<1> HIDE DEF news
<1>6. Sound(Answer("ok", n + 1, Append(sels, Selection(a)), Append(tree, NoTree), news))
  BY <1>2, <1>3, <1>4, <1>5 DEF Sound, Answer, Grown
<1> QED
  BY <1>1, <1>6 DEF n, news

\* Another version in the slot is the same selection.
LEMMA ChangeIsSound ==
    ASSUME ObjectsOK, NEW a, Choice(a) = "change"
    PROVE  LET same == slots[a.pkg][First(SameSlot(a))].sel IN
           Sound(Answer("ok", same, [sels EXCEPT ![same] = Changed(@)], tree, slots))
<1>1. a.pkg \in Packages /\ SameSlot(a) # {} /\ SameSlot(a) \subseteq DOMAIN slots[a.pkg]
  BY ChoiceCases DEF SameSlot
<1>2. First(SameSlot(a)) \in DOMAIN slots[a.pkg]
  BY <1>1, SlotsDomain, FirstIsIn
<1> DEFINE same == slots[a.pkg][First(SameSlot(a))].sel
<1>3. same \in 1..Len(tree)
  BY <1>1, <1>2, FiledSelection
<1> HIDE DEF same
<1> DEFINE news == [sels EXCEPT ![same] = Changed(@)]
<1>4. IsSeq(news) /\ Len(news) = Len(sels)
  BY PutIsSeq DEF ObjectsOK
<1> HIDE DEF news
<1>5. Sound(Answer("ok", same, news, tree, slots))
  BY <1>3, <1>4 DEF Sound, Answer, Grown, ObjectsOK
<1> QED
  BY <1>5 DEF same, news

\* No selection, and nothing changed.
LEMMA FailsIsSound ==
    ASSUME ObjectsOK, NEW how
    PROVE  Sound(Fails(how))
  BY DEF Sound, Fails, Answer, Grown, ObjectsOK, GensIn

\* Whatever select_atom chooses.
LEMMA SelectedIsSound ==
    ASSUME ObjectsOK, NEW a
    PROVE  Sound(Selected(a))
<1>1. CASE Choice(a) = "keep"
  <2>1. Selected(a) = Answer("ok", slots[a.pkg][First(MatchingSlots(a))].sel, sels, tree, slots)
    BY <1>1, Zenon DEF Selected
  <2> QED
    BY <1>1, <2>1, KeepIsSound
<1>2. CASE Choice(a) = "add"
  <2>1. Selected(a) =
          Answer("ok", Len(sels) + 1, Append(sels, Selection(a)), Append(tree, NoTree),
                 [slots EXCEPT ![a.pkg] =
                     Append(@, [slot |-> SlotNow(a.chosen), sel |-> Len(sels) + 1])])
    BY <1>2, Zenon DEF Selected
  <2> QED
    BY <1>2, <2>1, AddIsSound
<1>3. CASE Choice(a) = "change"
  <2> DEFINE same == slots[a.pkg][First(SameSlot(a))].sel
  <2>1. CASE Change(sels[same]) = "change"
    <3>1. Selected(a) = Answer("ok", same, [sels EXCEPT ![same] = Changed(@)], tree, slots)
      BY <1>3, <2>1, Zenon DEF Selected
    <3> QED
      BY <1>3, <3>1, ChangeIsSound
  <2>2. CASE Change(sels[same]) # "change"
    <3>1. Selected(a) = Fails("hang") \/ Selected(a) = Fails("raise")
      BY <1>3, <2>2, Zenon DEF Selected
    <3> QED
      BY <3>1, FailsIsSound
  <2> QED
    BY <2>1, <2>2
<1>4. CASE Choice(a) \notin {"keep", "add", "change"}
  <2>1. Selected(a) = Fails("ok") \/ Selected(a) = Fails("raise")
    BY <1>4, Zenon DEF Selected
  <2> QED
    BY <2>1, FailsIsSound
<1> QED
  BY <1>1, <1>2, <1>3, <1>4

\* The flags that resolve_single requires change no node.
LEMMA ResolvedIsSound ==
    ASSUME ObjectsOK, NEW a
    PROVE  Sound(Resolved(a))
<1> DEFINE r == Selected(a)
<1>1. Sound(r)
  BY SelectedIsSound
<1>2. PICK how, used : Resolved(a) =
          IF r.got = 0 THEN r
          ELSE Answer(how, r.got, [r.sels EXCEPT ![r.got] = used], r.tree, r.slots)
  BY Zenon DEF Resolved
<1> HIDE DEF r
<1> DEFINE news == [r.sels EXCEPT ![r.got] = used]
<1>3. IsSeq(news) /\ Len(news) = Len(r.sels)
  BY <1>1, PutIsSeq DEF Sound
<1> HIDE DEF news
<1>4. Sound(Answer(how, r.got, news, r.tree, r.slots))
  BY <1>1, <1>3 DEF Sound, Answer
<1> QED
  BY <1>1, <1>2, <1>4 DEF news

\* Node is written for i of t, its generators among the first n.
Written(u, t, i, node) == u = [t EXCEPT ![i] = node]
GensUpTo(node, n) == \A k \in 1..Len(node.gens) : node.gens[k] \in 1..n

\* Another node for a selection leaves the others.
LEMMA TreePut ==
    ASSUME NEW t, GensIn(t), NEW i \in 1..Len(t), NEW node \in Node,
           GensUpTo(node, Len(t)), NEW u, Written(u, t, i, node)
    PROVE  /\ GensIn(u) /\ Len(u) = Len(t) /\ u[i] = node
           /\ \A j \in 1..Len(t) : j # i => u[j] = t[j]
<1> DEFINE n == Len(t)
<1>1. t \in Seq(Node)
  BY DEF GensIn
<1>2. n \in Nat /\ t \in [1..n -> Node] /\ DOMAIN t = 1..n
  BY <1>1, LenProperties
<1>3. u \in [1..n -> Node] /\ u[i] = node /\ \A j \in 1..n : j # i => u[j] = t[j]
  BY <1>2 DEF Written
<1>4. u \in Seq(Node) /\ Len(u) = n
  BY <1>2, <1>3
<1>5. ASSUME NEW j \in 1..n, NEW k \in 1..Len(u[j].gens) PROVE u[j].gens[k] \in 1..n
  <2>1. CASE j = i
    BY <1>3, <1>5, <2>1 DEF GensUpTo
  <2>2. CASE j # i
    BY <1>3, <1>5, <2>2 DEF GensIn
  <2> QED
    BY <2>1, <2>2
<1>6. GensIn(u)
  BY <1>4, <1>5 DEF GensIn
<1> QED
  BY <1>3, <1>4, <1>6

----------------------------------------------------------------------------
(* The stack *)

\* What is known of the frame at the top.
LEMMA TopIs ==
    ASSUME ResolverInv, status = "running"
    PROVE  /\ Depth \in Nat \ {0} /\ Top = stack[Depth] /\ stack # <<>>
           /\ Top.sel \in session /\ Top.sel \in 1..Len(tree)
           /\ Top.phase \in Phases /\ Top.at \in Nat \ {0}
           /\ Top.phase = "begin" => Top.at = 1
           /\ Top.phase = "children" => ResolvedTo(tree[Top.sel], Top.at - 1)
           /\ \E E : stack \in Seq(FrameOf(E)) /\ Top \in FrameOf(E)
<1>1. PICK E : stack \in Seq(FrameOf(E))
  BY DEF ResolverInv, FramesOK
<1>2. stack # <<>>
  BY DEF ResolverInv, RunningOK
<1>3. Depth \in Nat \ {0}
  BY <1>1, <1>2, EmptySeq, LenProperties DEF Depth
<1>4. Top = stack[Depth] /\ Depth \in 1..Depth
  BY <1>3 DEF Top, Depth
<1>5. Top \in FrameOf(E)
  BY <1>1, <1>3, <1>4, ElementOfSeq DEF Depth
<1>6. Top.sel \in session /\ (Top.phase = "begin" => Top.at = 1)
  BY <1>4 DEF ResolverInv, FramesOK
<1>7. Top.phase = "children" => ResolvedTo(tree[Top.sel], Top.at - 1)
  BY <1>4 DEF ResolverInv, ChildrenOK
<1>8. Top.sel \in 1..Len(tree)
  BY <1>6 DEF ResolverInv, ObjectsOK
<1>9. Top.phase \in Phases /\ Top.at \in Nat \ {0}
  BY <1>5 DEF FrameOf
<1> QED
  BY <1>1, <1>2, <1>3, <1>4, <1>5, <1>6, <1>7, <1>8, <1>9

\* The tree of no selection but i changes.
OthersKept(i) ==
    \A j \in 1..Len(tree) : j # i => tree'[j] = tree[j]

\* A turn of a loop of the frame at the top, which becomes f.
LEMMA TurnKeeps ==
    ASSUME ResolverInv, status = "running", NEW f,
           \A E : Top \in FrameOf(E) => \E F : E \subseteq F /\ f \in FrameOf(F),
           f.sel = Top.sel, f.phase # "begin",
           f.phase = "children" => ResolvedTo(tree'[f.sel], f.at - 1),
           stack' = [stack EXCEPT ![Len(stack)] = f],
           ObjectsOK', OthersKept(Top.sel),
           UNCHANGED <<session, status, raised>>
    PROVE  ResolverInv'
<1> DEFINE n == Depth
<1>1. /\ n \in Nat \ {0} /\ Top = stack[n] /\ stack # <<>> /\ Top.sel \in session
      /\ session \subseteq 1..Len(tree)
  BY TopIs DEF ResolverInv, ObjectsOK
<1>2. PICK E : stack \in Seq(FrameOf(E)) /\ Top \in FrameOf(E)
  BY TopIs
<1>3. PICK F : E \subseteq F /\ f \in FrameOf(F)
  BY <1>2
<1>4. stack \in Seq(FrameOf(F))
  <2>1. FrameOf(E) \subseteq FrameOf(F)
    BY <1>3 DEF FrameOf
  <2> HIDE DEF FrameOf
  <2> QED
    BY <1>2, <2>1
<1>5. /\ stack' \in Seq(FrameOf(F)) /\ Depth' = n /\ stack'[n] = f
      /\ \A k \in 1..(n - 1) : stack'[k] = stack[k]
  BY <1>1, <1>3, <1>4, TopPut DEF Depth
<1> HIDE DEF n
<1>6. \A k \in 1..n : stack'[k].sel = stack[k].sel
  <2> TAKE k \in 1..n
  <2>1. CASE k = n
    BY <1>1, <1>5, <2>1
  <2>2. CASE k # n
    BY <1>1, <1>5, <2>2
  <2> QED
    BY <2>1, <2>2
<1>7. \A k \in 1..(n - 1) : stack[k].sel # Top.sel /\ stack[k].sel \in session
  <2> SUFFICES ASSUME NEW k \in 1..(n - 1)
               PROVE  stack[k].sel # Top.sel /\ stack[k].sel \in session
    OBVIOUS
  <2>1. k \in 1..n /\ n \in 1..n /\ k # n
    BY <1>1
  <2>2. stack[k].sel # stack[n].sel
    BY <2>1 DEF ResolverInv, PathOK, n
  <2>3. stack[k].sel \in session
    BY <2>1 DEF ResolverInv, FramesOK, n
  <2> QED
    BY <1>1, <2>2, <2>3
<1>8. \A k \in 1..(n - 1) : tree'[stack[k].sel] = tree[stack[k].sel]
  BY <1>1, <1>7 DEF OthersKept
<1>9. FramesOK'
  <2>1. ASSUME NEW k \in 1..n
        PROVE  stack'[k].sel \in session' /\ (stack'[k].phase = "begin" => stack'[k].at = 1)
    <3>1. CASE k = n
      BY <1>1, <1>5, <3>1
    <3>2. CASE k # n
      <4>1. k \in 1..(n - 1)
        BY <1>1, <3>2
      <4> QED
        BY <1>5, <4>1 DEF ResolverInv, FramesOK, n
    <3> QED
      BY <3>1, <3>2
  <2> QED
    BY <1>5, <2>1 DEF FramesOK
<1>10. ChildrenOK'
  <2>1. ASSUME NEW k \in 1..n, stack'[k].phase = "children"
        PROVE  ResolvedTo(tree'[stack'[k].sel], stack'[k].at - 1)
    <3>1. CASE k = n
      BY <1>1, <1>5, <2>1, <3>1
    <3>2. CASE k # n
      <4>1. k \in 1..(n - 1) /\ stack'[k] = stack[k]
        BY <1>1, <1>5, <3>2
      <4>2. ResolvedTo(tree[stack[k].sel], stack[k].at - 1)
        BY <2>1, <4>1 DEF ResolverInv, ChildrenOK, n
      <4> QED
        BY <1>8, <4>1, <4>2
    <3> QED
      BY <3>1, <3>2
  <2> QED
    BY <1>5, <2>1 DEF ChildrenOK, ResolvedTo
<1>11. PathOK'
  <2>1. \A j, k \in 1..n : stack'[j].sel = stack'[k].sel => j = k
    BY <1>6 DEF ResolverInv, PathOK, n
  <2>2. ASSUME NEW k \in 1..(n - 1)
        PROVE  /\ stack'[k].phase = "children"
               /\ stack'[k].at <= Len(tree'[stack'[k].sel].gens)
               /\ stack'[k + 1].sel = tree'[stack'[k].sel].gens[stack'[k].at]
    <3>1. /\ stack[k].phase = "children"
          /\ stack[k].at <= Len(tree[stack[k].sel].gens)
          /\ stack[k + 1].sel = tree[stack[k].sel].gens[stack[k].at]
      BY DEF ResolverInv, PathOK, n
    <3>2. stack'[k] = stack[k] /\ stack'[k + 1].sel = stack[k + 1].sel
      BY <1>1, <1>5, <1>6
    <3> QED
      BY <1>8, <3>1, <3>2
  <2> QED
    BY <1>5, <2>1, <2>2 DEF PathOK
<1>12. RunningOK'
  BY <1>1, <1>5, EmptySeq DEF RunningOK, Depth
<1>13. FinishedOK'
  <2>1. ASSUME ~raised, NEW i \in session, \A k \in 1..n : stack'[k].sel # i
        PROVE  ResolvedTo(tree'[i], Len(tree'[i].gens))
    <3>1. \A k \in 1..n : stack[k].sel # i
      BY <1>6, <2>1
    <3>2. ResolvedTo(tree[i], Len(tree[i].gens))
      BY <2>1, <3>1 DEF ResolverInv, FinishedOK, n
    <3>3. tree'[i] = tree[i]
      BY <1>1, <3>1 DEF OthersKept
    <3> QED
      BY <3>2, <3>3
  <2> QED
    BY <1>5, <2>1 DEF FinishedOK, ResolvedTo
<1> QED
  BY <1>9, <1>10, <1>11, <1>12, <1>13 DEF ResolverInv

\* An exception leaves no call, and nothing to be closed.
LEMMA RaiseKeeps ==
    ASSUME Raise, ObjectsOK'
    PROVE  ResolverInv'
<1>1. stack' = <<>> /\ status' = "idle" /\ raised' = TRUE
  BY DEF Raise
<1>2. Len(<<>>) = 0 /\ \A E : <<>> \in Seq(FrameOf(E))
  OBVIOUS
<1>3. Depth' = 0
  BY <1>1, <1>2 DEF Depth
<1>4. FramesOK'
  BY <1>1, <1>2, <1>3 DEF FramesOK
<1>5. ChildrenOK' /\ PathOK'
  BY <1>3 DEF ChildrenOK, PathOK
<1>6. RunningOK' /\ FinishedOK'
  BY <1>1 DEF RunningOK, FinishedOK
<1> QED
  BY <1>4, <1>5, <1>6 DEF ResolverInv

\* One more selection changes no call.
LEMMA GrowthKeeps ==
    ASSUME ResolverInv, Grown(tree'), ObjectsOK', RunningOK',
           UNCHANGED <<stack, session, raised>>
    PROVE  ResolverInv'
<1>1. \A i \in 1..Len(tree) : tree'[i] = tree[i]
  BY GrownTree DEF ResolverInv, ObjectsOK
<1>2. Depth' = Depth /\ stack' = stack /\ session' = session /\ raised' = raised
  BY DEF Depth
<1>3. session \subseteq 1..Len(tree) /\ \A k \in 1..Depth : stack[k].sel \in session
  BY DEF ResolverInv, ObjectsOK, FramesOK
<1>4. \A k \in 1..Depth : tree'[stack[k].sel] = tree[stack[k].sel]
  BY <1>1, <1>3
<1>5. FramesOK'
  BY <1>2 DEF ResolverInv, FramesOK
<1>6. ChildrenOK'
  <2> SUFFICES ASSUME NEW k \in 1..Depth, stack[k].phase = "children"
               PROVE  ResolvedTo(tree[stack[k].sel], stack[k].at - 1)'
    BY <1>2 DEF ChildrenOK
  <2>1. ResolvedTo(tree[stack[k].sel], stack[k].at - 1)
    BY DEF ResolverInv, ChildrenOK
  <2>2. tree'[stack[k].sel] = tree[stack[k].sel]
    BY <1>4
  <2> QED
    BY <1>2, <2>1, <2>2 DEF ResolvedTo
<1>7. PathOK'
  <2>1. Depth \in Nat
    BY LenProperties DEF ResolverInv, FramesOK, Depth
  <2>2. \A k \in 1..(Depth - 1) : tree'[stack[k].sel] = tree[stack[k].sel]
    BY <1>4, <2>1
  <2> QED
    BY <1>2, <2>2 DEF ResolverInv, PathOK
<1>8. FinishedOK'
  <2>1. \A i \in session : tree'[i] = tree[i]
    BY <1>1, <1>3
  <2> QED
    BY <1>2, <2>1 DEF ResolverInv, FinishedOK, ResolvedTo
<1> QED
  BY <1>5, <1>6, <1>7, <1>8 DEF ResolverInv

\* get_resolved of a selection that is not in the session: of the first, or of
\* the child that the frame at the top has come to.
LEMMA DescendKeeps ==
    ASSUME ResolverInv, NEW i \in 1..Len(tree'), i \notin session, Descend(i, stack),
           \/ stack = <<>>
           \/ /\ stack # <<>> /\ Top.phase = "children"
              /\ Top.at <= Len(tree[Top.sel].gens) /\ i = tree[Top.sel].gens[Top.at],
           Grown(tree'), ObjectsOK', status' = "running", raised' = raised
    PROVE  ResolverInv'
<1> DEFINE n == Depth
<1>1. PICK E : stack \in Seq(FrameOf(E))
  BY DEF ResolverInv, FramesOK
<1> DEFINE F == E \cup {NoEbuild}
<1>2. Frame(i) \in FrameOf(F) /\ stack \in Seq(FrameOf(F))
  <2>1. i \in Nat
    BY LenProperties DEF ObjectsOK, GensIn
  <2>2. Frame(i) \in FrameOf(F) /\ FrameOf(E) \subseteq FrameOf(F)
    BY <2>1 DEF Frame, FrameOf, Phases
  <2> HIDE DEF F
  <2> QED
    BY <1>1, <2>2
<1>3. /\ n \in Nat /\ stack' \in Seq(FrameOf(F)) /\ Depth' = n + 1
      /\ stack'[n + 1] = Frame(i) /\ \A k \in 1..n : stack'[k] = stack[k]
      /\ session' = session \cup {i}
  BY <1>2, AppendProperties, LenProperties DEF Descend, Depth
<1> HIDE DEF n, F
<1>4. /\ Frame(i).sel = i /\ Frame(i).phase = "begin" /\ Frame(i).at = 1
  BY DEF Frame
<1>5. \A k \in 1..n : stack[k].sel \in session /\ stack[k].sel # i
  BY DEF ResolverInv, FramesOK, n
<1>6. \A k \in session : tree'[k] = tree[k]
  BY GrownTree DEF ResolverInv, ObjectsOK
<1>7. ASSUME NEW k \in 1..(n + 1)
      PROVE  \/ k \in 1..n /\ stack'[k] = stack[k] /\ tree'[stack[k].sel] = tree[stack[k].sel]
             \/ k = n + 1 /\ stack'[k] = Frame(i)
  BY <1>3, <1>5, <1>6
<1>8. FramesOK'
  <2>1. \A k \in 1..(n + 1) : stack'[k].sel \in session'
                              /\ (stack'[k].phase = "begin" => stack'[k].at = 1)
    BY <1>3, <1>4, <1>7 DEF ResolverInv, FramesOK, n
  <2> QED
    BY <1>3, <2>1 DEF FramesOK
<1>9. ChildrenOK'
  <2>1. ASSUME NEW k \in 1..(n + 1), stack'[k].phase = "children"
        PROVE  /\ ResolvedTo(tree'[stack'[k].sel], stack'[k].at - 1)
    <3>1. k \in 1..n /\ stack'[k] = stack[k] /\ tree'[stack[k].sel] = tree[stack[k].sel]
      BY <1>4, <1>7, <2>1
    <3> QED
      BY <2>1, <3>1 DEF ResolverInv, ChildrenOK, n
  <2> QED
    BY <1>3, <2>1 DEF ChildrenOK, ResolvedTo
<1>10. PathOK'
  <2>1. ASSUME NEW j \in 1..(n + 1), NEW k \in 1..(n + 1), stack'[j].sel = stack'[k].sel
        PROVE  j = k
    BY <1>4, <1>5, <1>7, <2>1 DEF ResolverInv, PathOK, n
  <2>2. ASSUME NEW k \in 1..n
        PROVE  /\ stack'[k].phase = "children"
               /\ stack'[k].at <= Len(tree'[stack'[k].sel].gens)
               /\ stack'[k + 1].sel = tree'[stack'[k].sel].gens[stack'[k].at]
    <3>1. stack'[k] = stack[k] /\ tree'[stack[k].sel] = tree[stack[k].sel]
      BY <1>3, <1>5, <1>6
    <3>2. CASE k = n
      <4>1. stack # <<>> /\ Top = stack[n]
        BY <3>2, EmptySeq DEF n, Depth, Top
      <4> QED
        BY <1>3, <1>4, <3>1, <3>2, <4>1
    <3>3. CASE k # n
      <4>1. k \in 1..(n - 1) /\ k + 1 \in 1..n
        BY <1>3, <3>3
      <4>2. /\ stack[k].phase = "children"
            /\ stack[k].at <= Len(tree[stack[k].sel].gens)
            /\ stack[k + 1].sel = tree[stack[k].sel].gens[stack[k].at]
        BY <4>1 DEF ResolverInv, PathOK, n
      <4> QED
        BY <1>3, <3>1, <4>1, <4>2
    <3> QED
      BY <3>2, <3>3
  <2>3. (n + 1) - 1 = n
    BY <1>3
  <2> QED
    BY <1>3, <2>1, <2>2, <2>3 DEF PathOK
<1>11. RunningOK'
  <2>1. stack' # <<>>
    BY <1>3, EmptySeq DEF Depth
  <2> QED
    BY <2>1 DEF RunningOK
<1>12. FinishedOK'
  <2>1. ASSUME ~raised, NEW j \in session', \A k \in 1..(n + 1) : stack'[k].sel # j
        PROVE  ResolvedTo(tree'[j], Len(tree'[j].gens))
    <3>1. j \in session /\ \A k \in 1..n : stack[k].sel # j
      BY <1>3, <1>4, <2>1
    <3> QED
      BY <1>6, <2>1, <3>1 DEF ResolverInv, FinishedOK, n
  <2> QED
    BY <1>3, <2>1 DEF FinishedOK, ResolvedTo
<1> QED
  BY <1>8, <1>9, <1>10, <1>11, <1>12 DEF ResolverInv

----------------------------------------------------------------------------
(* Each action *)

\* Writing the node of one selection.
LEMMA NodeWritten ==
    ASSUME ObjectsOK, NEW i \in 1..Len(tree), NEW node \in Node,
           \A k \in 1..Len(node.gens) : node.gens[k] \in 1..Len(tree),
           tree' = [tree EXCEPT ![i] = node],
           IsSeq(sels'), Len(sels') = Len(sels), UNCHANGED <<slots, session>>
    PROVE  ObjectsOK' /\ OthersKept(i) /\ tree'[i] = node
<1>1. GensIn(tree)
  BY DEF ObjectsOK
<1>2. /\ GensIn(tree') /\ Len(tree') = Len(tree) /\ tree'[i] = node
      /\ \A j \in 1..Len(tree) : j # i => tree'[j] = tree[j]
  <2>1. Written(tree', tree, i, node) /\ GensUpTo(node, Len(tree))
    BY DEF Written, GensUpTo
  <2> QED
    BY <1>1, <2>1, TreePut
<1> QED
  BY <1>2 DEF ObjectsOK, OthersKept

\* No node is written.
LEMMA NodesKept ==
    ASSUME ObjectsOK, IsSeq(sels'), Len(sels') = Len(sels), UNCHANGED <<tree, slots, session>>,
           NEW i
    PROVE  ObjectsOK' /\ OthersKept(i)
  BY DEF ObjectsOK, OthersKept

\* A new Emerge, of which nothing was asked.
LEMMA InitInv == Init => ResolverInv
<1> SUFFICES ASSUME Init PROVE ResolverInv
  OBVIOUS
<1>1. /\ sels = <<>> /\ tree = <<>> /\ session = {} /\ stack = <<>> /\ status = "idle"
      /\ slots = [p \in Packages |-> <<>>]
  BY DEF Init
<1>2. Len(<<>>) = 0 /\ \A S : <<>> \in Seq(S)
  OBVIOUS
<1>3. IsSeq(sels) /\ GensIn(tree)
  BY <1>1, <1>2 DEF IsSeq, GensIn
<1>4. FiledIn(slots, Len(tree))
  <2>1. slots \in [Packages -> Seq([slot : {}, sel : 1..Len(tree)])]
    BY <1>1, <1>2
  <2> QED
    BY <2>1 DEF FiledIn
<1>5. ObjectsOK
  BY <1>1, <1>3, <1>4 DEF ObjectsOK
<1>6. FramesOK /\ ChildrenOK /\ PathOK
  BY <1>1, <1>2 DEF FramesOK, ChildrenOK, PathOK, Depth
<1>7. RunningOK /\ FinishedOK
  BY <1>1 DEF RunningOK, FinishedOK
<1> QED
  BY <1>5, <1>6, <1>7 DEF ResolverInv

\* The user's calls.
LEMMA NewEmergeKeeps ==
    ASSUME ResolverInv, NewEmerge
    PROVE  ResolverInv'
<1>1. /\ sels' = <<>> /\ tree' = <<>> /\ session' = {} /\ stack' = <<>> /\ status' = "idle"
      /\ slots' = [p \in Packages |-> <<>>]
  BY DEF NewEmerge, ResolverInv, RunningOK
<1>2. Len(<<>>) = 0 /\ \A S : <<>> \in Seq(S)
  OBVIOUS
<1>3. IsSeq(sels') /\ GensIn(tree')
  BY <1>1, <1>2 DEF IsSeq, GensIn
<1>4. FiledIn(slots', Len(tree'))
  <2>1. slots' \in [Packages -> Seq([slot : {}, sel : 1..Len(tree')])]
    BY <1>1, <1>2
  <2> QED
    BY <2>1 DEF FiledIn
<1>5. ObjectsOK'
  BY <1>1, <1>3, <1>4 DEF ObjectsOK
<1>6. FramesOK' /\ ChildrenOK' /\ PathOK'
  BY <1>1, <1>2 DEF FramesOK, ChildrenOK, PathOK, Depth
<1>7. RunningOK' /\ FinishedOK'
  BY <1>1 DEF RunningOK, FinishedOK
<1> QED
  BY <1>5, <1>6, <1>7 DEF ResolverInv

\* A session begins anew between two requests: no ebuild is resolved.
LEMMA ClearSessionKeeps ==
    ASSUME ResolverInv, ClearSession
    PROVE  ResolverInv'
<1>1. /\ sels' = sels /\ tree' = tree /\ slots' = slots /\ session' = {}
      /\ stack' = <<>> /\ status' = "idle"
  BY DEF ClearSession, ResolverInv, RunningOK, emerge
<1>2. Len(<<>>) = 0 /\ \A S : <<>> \in Seq(S)
  OBVIOUS
<1>3. ObjectsOK'
  BY <1>1 DEF ResolverInv, ObjectsOK
<1>4. FramesOK' /\ ChildrenOK' /\ PathOK'
  BY <1>1, <1>2 DEF FramesOK, ChildrenOK, PathOK, Depth
<1>5. RunningOK' /\ FinishedOK'
  BY <1>1 DEF RunningOK, FinishedOK
<1> QED
  BY <1>3, <1>4, <1>5 DEF ResolverInv

\* What resolve_single answered, and nothing else, is sound.
LEMMA AnswerTaken ==
    ASSUME ObjectsOK, NEW r, Sound(r), sels' = r.sels, tree' = r.tree, slots' = r.slots,
           session' = session
    PROVE  ObjectsOK' /\ Grown(tree')
<1>1. GensIn(tree') /\ Len(tree) <= Len(tree') /\ Len(tree) \in Nat /\ Len(tree') \in Nat
  BY GrownTree DEF Sound, ObjectsOK
<1> QED
  BY <1>1 DEF Sound, ObjectsOK

\* A request selects an ebuild and calls get_resolved of it.
LEMMA RequestKeeps ==
    ASSUME ResolverInv, NEW a, Request(a)
    PROVE  ResolverInv'
<1>1. ObjectsOK /\ status = "idle" /\ stack = <<>>
  BY DEF Request, ResolverInv, RunningOK
<1>2. CASE a.blocks
  <2>1. UNCHANGED <<sels, tree, slots, session, stack, status, raised>>
    BY <1>2 DEF Request
  <2>2. Grown(tree') /\ ObjectsOK' /\ RunningOK'
    BY <2>1 DEF Grown, ResolverInv, ObjectsOK, RunningOK
  <2> QED
    BY <2>1, <2>2, GrowthKeeps
<1>3. CASE ~a.blocks
  <2> DEFINE r == Resolved(a)
  <2>1. Sound(r)
    BY <1>1, ResolvedIsSound
  <2>2. /\ sels' = r.sels /\ tree' = r.tree /\ slots' = r.slots
        /\ \/ r.how = "raise" /\ Raise /\ UNCHANGED session
           \/ r.how = "hang" /\ Hang /\ UNCHANGED session
           \/ /\ r.how = "ok" /\ (r.got = 0 \/ r.got \in session)
              /\ UNCHANGED <<session, stack, status, raised>>
           \/ /\ r.how = "ok" /\ r.got # 0 /\ r.got \notin session
              /\ Descend(r.got, <<>>)
              /\ status' = "running"
              /\ UNCHANGED raised
    BY <1>3 DEF Request
  <2> HIDE DEF r
  <2>3. CASE Raise /\ UNCHANGED session
    BY <1>1, <2>1, <2>2, <2>3, AnswerTaken, RaiseKeeps
  <2>4. CASE Hang /\ UNCHANGED session
    <3>1. ObjectsOK' /\ Grown(tree')
      BY <1>1, <2>1, <2>2, <2>4, AnswerTaken
    <3>2. UNCHANGED <<stack, session, raised>> /\ RunningOK'
      BY <1>1, <2>4 DEF Hang, RunningOK
    <3> QED
      BY <3>1, <3>2, GrowthKeeps
  <2>5. CASE UNCHANGED <<session, stack, status, raised>>
    <3>1. ObjectsOK' /\ Grown(tree')
      BY <1>1, <2>1, <2>2, <2>5, AnswerTaken
    <3>2. RunningOK'
      BY <1>1, <2>5 DEF RunningOK
    <3> QED
      BY <2>5, <3>1, <3>2, GrowthKeeps
  <2>6. CASE /\ r.got # 0 /\ r.got \notin session
             /\ Descend(r.got, <<>>) /\ status' = "running" /\ UNCHANGED raised
    <3>1. GensIn(r.tree) /\ Len(r.tree) \in Nat /\ Len(tree) <= Len(r.tree) /\ Len(tree) \in Nat
      BY <1>1, <2>1, GrownTree DEF Sound, ObjectsOK
    <3>2. r.got \in 1..Len(tree')
      BY <2>1, <2>2, <2>6, <3>1 DEF Sound
    <3>3. session' = session \cup {r.got} /\ Descend(r.got, stack)
      BY <1>1, <2>6 DEF Descend
    <3>4. session' \subseteq 1..Len(tree')
      <4>1. session \subseteq 1..Len(tree) /\ tree' = r.tree
        BY <1>1, <2>2 DEF ObjectsOK
      <4>2. 1..Len(tree) \subseteq 1..Len(r.tree)
        BY <3>1
      <4> QED
        BY <3>2, <3>3, <4>1, <4>2
    <3>5. Grown(tree') /\ ObjectsOK'
      BY <2>1, <2>2, <3>1, <3>4 DEF Sound, ObjectsOK
    <3> QED
      BY <1>1, <2>6, <3>2, <3>3, <3>5, DescendKeeps
  <2> QED
    BY <2>2, <2>3, <2>4, <2>5, <2>6
<1> QED
  BY <1>2, <1>3

\* A node with other generators, or resolved to others.
LEMMA NodeMoves ==
    ASSUME NEW g \in Node, NEW s \in Seq(Nat)
    PROVE  /\ [g EXCEPT !.gens = s] \in Node /\ [g EXCEPT !.resolved = s] \in Node
           /\ [g EXCEPT !.gens = s].gens = s /\ [g EXCEPT !.resolved = s].resolved = s
           /\ [g EXCEPT !.gens = s].resolved = g.resolved
           /\ [g EXCEPT !.resolved = s].gens = g.gens
  BY DEF Node

\* No generators.
LEMMA NoneYet == <<>> \in Seq(Nat) /\ Len(<<>>) = 0
  OBVIOUS

\* A frame goes to another phase or to its next turn.
LEMMA FrameMoves ==
    ASSUME NEW E, NEW g \in FrameOf(E), NEW p \in Phases, NEW n \in Nat \ {0}
    PROVE  /\ [g EXCEPT !.phase = p] \in FrameOf(E)
           /\ [g EXCEPT !.phase = p].sel = g.sel /\ [g EXCEPT !.phase = p].at = g.at
           /\ [g EXCEPT !.phase = p].phase = p
           /\ [g EXCEPT !.at = n] \in FrameOf(E)
           /\ [g EXCEPT !.at = n].sel = g.sel /\ [g EXCEPT !.at = n].phase = g.phase
           /\ [g EXCEPT !.at = n].at = n
  BY DEF FrameOf

\* The frame at the top goes to its next phase.
LEMMA PhaseKeeps ==
    ASSUME ResolverInv, status = "running", NEW p \in Phases \ {"begin"},
           p = "children" => ResolvedTo(tree'[Top.sel], Top.at - 1),
           stack' = [stack EXCEPT ![Len(stack)].phase = p],
           ObjectsOK', OthersKept(Top.sel), UNCHANGED <<session, status, raised>>
    PROVE  ResolverInv'
<1> DEFINE f == [Top EXCEPT !.phase = p]
<1>1. PICK E : Top \in FrameOf(E)
  BY TopIs
<1>2. f.sel = Top.sel /\ f.at = Top.at /\ f.phase = p
  BY <1>1, FrameMoves, 1 \in Nat \ {0}
<1>3. \A D : Top \in FrameOf(D) => \E F : D \subseteq F /\ f \in FrameOf(F)
  BY FrameMoves, 1 \in Nat \ {0}
<1>4. stack' = [stack EXCEPT ![Len(stack)] = f]
  BY DEF Top
<1> HIDE DEF f
<1> QED
  BY <1>2, <1>3, <1>4, TurnKeeps

\* The frame at the top goes to its next turn.
LEMMA AdvanceKeeps ==
    ASSUME ResolverInv, status = "running", Top.phase # "begin",
           Top.phase = "children" => ResolvedTo(tree'[Top.sel], Top.at),
           Advance, ObjectsOK', OthersKept(Top.sel), UNCHANGED <<session, status, raised>>
    PROVE  ResolverInv'
<1> DEFINE f == [Top EXCEPT !.at = Top.at + 1]
<1>1. Top.at \in Nat \ {0} /\ Top.at + 1 \in Nat \ {0} /\ (Top.at + 1) - 1 = Top.at
  BY TopIs
<1>2. PICK E : Top \in FrameOf(E)
  BY TopIs
<1>3. f.sel = Top.sel /\ f.at = Top.at + 1 /\ f.phase = Top.phase
  BY <1>1, <1>2, FrameMoves, "deps" \in Phases DEF Phases
<1>4. \A D : Top \in FrameOf(D) => \E F : D \subseteq F /\ f \in FrameOf(F)
  BY <1>1, FrameMoves, "deps" \in Phases DEF Phases
<1>5. stack' = [stack EXCEPT ![Len(stack)] = f]
  BY DEF Top, Advance
<1> HIDE DEF f
<1> QED
  BY <1>1, <1>3, <1>4, <1>5, TurnKeeps

\* The steps of regenerate.
LEMMA BeginKeeps ==
    ASSUME ResolverInv, Begin
    PROVE  ResolverInv'
<1> DEFINE i == Top.sel
<1>1. ObjectsOK /\ status = "running" /\ Top.phase = "begin"
  BY DEF Begin, InPhase, ResolverInv
<1>2. i \in 1..Len(tree) /\ Top.at = 1
  BY <1>1, TopIs
<1>3. tree[i] \in Node /\ \A k \in 1..Len(tree[i].gens) : tree[i].gens[k] \in 1..Len(tree)
  BY <1>1, <1>2, ElementOfSeq DEF ObjectsOK, GensIn
<1>4. sels' = sels /\ IsSeq(sels') /\ UNCHANGED <<slots, session>>
  BY <1>1 DEF Begin, ObjectsOK
<1>5. CASE ~Self.dirty
  <2> DEFINE node == [tree[i] EXCEPT !.resolved = <<>>]
  <2>1. node \in Node /\ node.gens = tree[i].gens /\ node.resolved = <<>>
    BY <1>3, NodeMoves, NoneYet
  <2>2. tree' = [tree EXCEPT ![i] = node]
    BY <1>5 DEF Begin
  <2> HIDE DEF node
  <2>3. ObjectsOK' /\ OthersKept(i) /\ tree'[i] = node
    BY <1>1, <1>2, <1>3, <1>4, <2>1, <2>2, NodeWritten
  <2>4. ResolvedTo(tree'[i], 0)
    <3>1. Len(node.gens) \in Nat /\ Len(node.resolved) = 0
      BY <2>1 DEF Node
    <3> QED
      BY <2>3, <3>1 DEF ResolvedTo
  <2>5. /\ stack' = [stack EXCEPT ![Len(stack)].phase = "children"]
        /\ UNCHANGED <<session, status, raised>>
    BY <1>5 DEF Begin
  <2>6. "children" \in Phases \ {"begin"} /\ Top.at - 1 = 0
    BY <1>2 DEF Phases
  <2> HIDE DEF i
  <2> QED
    BY <1>1, <2>3, <2>4, <2>5, <2>6, PhaseKeeps DEF i
<1>6. CASE Self.dirty
  <2> DEFINE node == [tree[i] EXCEPT !.gens = <<>>]
  <2>1. /\ node \in Node /\ Len(node.gens) = 0
        /\ \A k \in 1..Len(node.gens) : node.gens[k] \in 1..Len(tree)
    <3>1. node \in Node /\ node.gens = <<>>
      BY <1>3, NodeMoves, NoneYet
    <3> HIDE DEF node
    <3>2. Len(node.gens) = 0
      BY <3>1, NoneYet
    <3> QED
      BY <3>1, <3>2
  <2>2. tree' = [tree EXCEPT ![i] = node]
    BY <1>6 DEF Begin
  <2> HIDE DEF node
  <2>3. ObjectsOK' /\ OthersKept(i)
    BY <1>1, <1>2, <1>4, <2>1, <2>2, NodeWritten
  <2>4. CASE Raise
    BY <2>3, <2>4, RaiseKeeps
  <2>5. CASE /\ stack' = [stack EXCEPT ![Len(stack)].phase = "flush"]
             /\ UNCHANGED <<status, raised>>
    <3>1. "flush" \in Phases \ {"begin"} /\ "flush" # "children"
      BY DEF Phases
    <3> QED
      BY <1>1, <1>4, <2>3, <2>5, <3>1, PhaseKeeps
  <2> QED
    BY <1>6, <2>4, <2>5 DEF Begin
<1> QED
  BY <1>5, <1>6

\* flush_use of the call on top, which may raise, change the ebuild or leave
\* its flags as required.
LEMMA FlushKeeps ==
    ASSUME ResolverInv, Flush
    PROVE  ResolverInv'
<1>1. status = "running" /\ Top.phase = "flush" /\ UNCHANGED <<tree, slots, session>>
  BY DEF Flush, InPhase
<1>2. PICK x, e :
        /\ sels' = [sels EXCEPT ![Top.sel] = x]
        /\ \/ Raise
           \/ /\ stack' = [stack EXCEPT ![Len(stack)].phase = "deps", ![Len(stack)].ebuild = e]
              /\ UNCHANGED <<status, returned, raised>>
  <2> DEFINE r == FlushUse(Self)
             hooked == IF Required[r.sel.ebuild] = {} THEN r.sel
                       ELSE [r.sel EXCEPT !.global = Append(@, r.sel.ebuild)]
  <2> HIDE DEF r, hooked
  <2>1. CASE ~r.ok
    BY <2>1 DEF Flush, r
  <2>2. CASE r.ok
    BY <2>2 DEF Flush, r, hooked
  <2> QED
    BY <2>1, <2>2
<1>3. ObjectsOK' /\ OthersKept(Top.sel)
  <2>1. ObjectsOK
    BY DEF ResolverInv
  <2>2. IsSeq(sels') /\ Len(sels') = Len(sels)
    BY <1>2, <2>1, PutIsSeq DEF ObjectsOK
  <2> QED
    BY <1>1, <2>1, <2>2, NodesKept
<1>4. CASE Raise
  BY <1>3, <1>4, RaiseKeeps
<1>5. CASE /\ stack' = [stack EXCEPT ![Len(stack)].phase = "deps", ![Len(stack)].ebuild = e]
           /\ UNCHANGED <<status, returned, raised>>
  <2> DEFINE f == [Top EXCEPT !.phase = "deps", !.ebuild = e]
  <2>1. ASSUME NEW E, Top \in FrameOf(E)
        PROVE  f \in FrameOf(E \cup {e}) /\ f.sel = Top.sel /\ f.phase = "deps"
    BY <2>1 DEF FrameOf, Phases
  <2>2. f.sel = Top.sel /\ f.phase = "deps"
    BY <1>1, <2>1, TopIs
  <2>3. stack' = [stack EXCEPT ![Len(stack)] = f]
    BY <1>5 DEF Top
  <2> HIDE DEF f
  <2>4. \A E : Top \in FrameOf(E) => \E F : E \subseteq F /\ f \in FrameOf(F)
    <3> SUFFICES ASSUME NEW E, Top \in FrameOf(E)
                 PROVE  \E F : E \subseteq F /\ f \in FrameOf(F)
      OBVIOUS
    <3>1. E \subseteq E \cup {e} /\ f \in FrameOf(E \cup {e})
      BY <2>1
    <3> QED
      BY <3>1
  <2> QED
    BY <1>1, <1>3, <1>5, <2>2, <2>3, <2>4, TurnKeeps
<1> QED
  BY <1>2, <1>4, <1>5

\* A turn of the loop over the dependencies adds one generator.
LEMMA DepAtomKeeps ==
    ASSUME ResolverInv, DepAtom
    PROVE  ResolverInv'
<1> DEFINE r == Resolved(Dep.atom)
           i == Top.sel
<1>1. /\ ObjectsOK /\ status = "running" /\ Top.phase = "deps" /\ UNCHANGED session
  BY DEF DepAtom, MoreDeps, InPhase, ResolverInv
<1>2. Sound(r)
  BY <1>1, ResolvedIsSound
<1>3. /\ slots' = r.slots /\ sels' = r.sels
      /\ tree' = IF r.how # "ok" \/ r.got = 0 THEN r.tree
                 ELSE [r.tree EXCEPT ![i].gens = Append(@, r.got)]
      /\ \/ r.how = "raise" /\ Raise
         \/ r.how = "hang" /\ Hang
         \/ r.how = "ok" /\ Advance /\ UNCHANGED <<status, returned, raised>>
  BY DEF DepAtom
<1> HIDE DEF r
<1>4. /\ GensIn(r.tree) /\ Len(r.tree) \in Nat /\ Len(tree) \in Nat /\ Len(tree) <= Len(r.tree)
      /\ \A j \in 1..Len(tree) : r.tree[j] = tree[j]
  BY <1>1, <1>2, GrownTree DEF Sound, ObjectsOK
<1>5. i \in 1..Len(tree) /\ i \in 1..Len(r.tree)
  BY <1>1, <1>4, TopIs
<1>6. CASE r.how # "ok" \/ r.got = 0
  <2>1. ObjectsOK' /\ Grown(tree')
    BY <1>1, <1>2, <1>3, <1>6, AnswerTaken
  <2>2. CASE Raise
    BY <2>1, <2>2, RaiseKeeps
  <2>3. CASE Hang
    <3>1. RunningOK' /\ UNCHANGED <<stack, session, raised>>
      BY <1>1, <2>3 DEF Hang, RunningOK
    <3> QED
      BY <2>1, <3>1, GrowthKeeps
  <2>4. CASE Advance /\ UNCHANGED <<status, raised>>
    <3>1. OthersKept(i)
      BY <1>3, <1>4, <1>6 DEF OthersKept
    <3> QED
      BY <1>1, <2>1, <2>4, <3>1, AdvanceKeeps
  <2> QED
    BY <1>3, <2>2, <2>3, <2>4
<1>7. CASE r.how = "ok" /\ r.got # 0
  <2> DEFINE old == r.tree[i].gens
             node == [r.tree[i] EXCEPT !.gens = Append(old, r.got)]
  <2>1. r.got \in 1..Len(r.tree) /\ r.got \in Nat
    BY <1>2, <1>4, <1>7 DEF Sound
  <2>2. /\ r.tree[i] \in Node /\ old \in Seq(Nat)
        /\ \A k \in 1..Len(old) : old[k] \in 1..Len(r.tree)
    <3>1. r.tree[i] \in Node
      BY <1>4, <1>5, ElementOfSeq DEF GensIn
    <3> QED
      BY <1>4, <1>5, <3>1 DEF GensIn, Node
  <2>3. tree' = [r.tree EXCEPT ![i] = node]
    BY <1>3, <1>7
  <2> HIDE DEF old
  <2>4. /\ Append(old, r.got) \in Seq(Nat)
        /\ \A k \in 1..Len(Append(old, r.got)) : Append(old, r.got)[k] \in 1..Len(r.tree)
    <3>1. /\ Append(old, r.got) \in Seq(Nat) /\ Len(Append(old, r.got)) = Len(old) + 1
          /\ \A k \in 1..Len(old) : Append(old, r.got)[k] = old[k]
          /\ Append(old, r.got)[Len(old) + 1] = r.got /\ Len(old) \in Nat
      BY <2>1, <2>2, AppendProperties
    <3> QED
      BY <2>1, <2>2, <3>1
  <2>5. node \in Node /\ node.gens = Append(old, r.got)
    BY <2>2, <2>4, NodeMoves
  <2> HIDE DEF node
  <2>6. /\ GensIn(tree') /\ Len(tree') = Len(r.tree)
        /\ \A j \in 1..Len(r.tree) : j # i => tree'[j] = r.tree[j]
    <3>1. Written(tree', r.tree, i, node) /\ GensUpTo(node, Len(r.tree))
      BY <2>3, <2>4, <2>5 DEF Written, GensUpTo
    <3> QED
      BY <1>4, <1>5, <2>5, <3>1, TreePut
  <2>7. OthersKept(i)
    BY <1>4, <2>6 DEF OthersKept
  <2>8. ObjectsOK'
    <3>1. session' \subseteq 1..Len(tree')
      <4>1. session' \subseteq 1..Len(tree)
        BY <1>1 DEF ObjectsOK
      <4>2. 1..Len(tree) \subseteq 1..Len(r.tree)
        BY <1>4
      <4> QED
        BY <2>6, <4>1, <4>2
    <3> QED
      BY <1>2, <1>3, <2>6, <3>1 DEF Sound, ObjectsOK
  <2>9. Advance /\ UNCHANGED <<status, raised>>
    BY <1>3, <1>7
  <2> QED
    BY <1>1, <2>7, <2>8, <2>9, AdvanceKeeps
<1> QED
  BY <1>6, <1>7

\* What neither writes a node nor gives an ebuild another phase.
LEMMA OtherDepKeeps ==
    ASSUME ResolverInv, MoreDeps, UNCHANGED <<sels, tree, slots, session>>,
           \/ Raise
           \/ Advance /\ UNCHANGED <<status, returned, raised>>
    PROVE  ResolverInv'
<1>1. status = "running" /\ Top.phase = "deps" /\ ObjectsOK
  BY DEF MoreDeps, InPhase, ResolverInv
<1>2. ObjectsOK' /\ OthersKept(Top.sel)
  <2>1. IsSeq(sels') /\ Len(sels') = Len(sels)
    BY <1>1 DEF ObjectsOK
  <2> QED
    BY <1>1, <2>1, NodesKept
<1>3. CASE Raise
  BY <1>2, <1>3, RaiseKeeps
<1>4. CASE Advance /\ UNCHANGED <<status, returned, raised>>
  BY <1>1, <1>2, <1>4, AdvanceKeeps
<1> QED
  BY <1>3, <1>4

\* The loop over the dependencies ends, that over the children begins.
LEMMA DepsDoneKeeps ==
    ASSUME ResolverInv, DepsDone
    PROVE  ResolverInv'
<1> DEFINE i == Top.sel
           node == [tree[i] EXCEPT !.resolved = <<>>]
           f == [Top EXCEPT !.phase = "children", !.at = 1]
<1>1. /\ ObjectsOK /\ status = "running" /\ Top.phase = "deps"
      /\ UNCHANGED <<slots, session, status, raised>>
  BY DEF DepsDone, InPhase, ResolverInv
<1>2. i \in 1..Len(tree)
  BY <1>1, TopIs
<1>3. tree[i] \in Node /\ \A k \in 1..Len(tree[i].gens) : tree[i].gens[k] \in 1..Len(tree)
  BY <1>1, <1>2, ElementOfSeq DEF ObjectsOK, GensIn
<1>4. IsSeq(sels') /\ Len(sels') = Len(sels)
  BY <1>1, PutIsSeq DEF DepsDone, ObjectsOK
<1>5. node \in Node /\ node.gens = tree[i].gens /\ node.resolved = <<>>
  BY <1>3, NodeMoves, NoneYet
<1>6. tree' = [tree EXCEPT ![i] = node]
  BY DEF DepsDone
<1> HIDE DEF node
<1>7. ObjectsOK' /\ OthersKept(i) /\ tree'[i] = node
  BY <1>1, <1>2, <1>3, <1>4, <1>5, <1>6, NodeWritten
<1>8. ResolvedTo(tree'[i], 0)
  <2>1. Len(node.gens) \in Nat /\ Len(node.resolved) = 0
    BY <1>5, NoneYet DEF Node
  <2> QED
    BY <1>7, <2>1 DEF ResolvedTo
<1>9. PICK E : Top \in FrameOf(E)
  BY <1>1, TopIs
<1>10. ASSUME NEW D, Top \in FrameOf(D)
       PROVE  f \in FrameOf(D) /\ f.sel = i /\ f.phase = "children" /\ f.at = 1
  <2> DEFINE g == [Top EXCEPT !.phase = "children"]
  <2>1. g \in FrameOf(D) /\ g.sel = i /\ g.phase = "children"
    <3>1. "children" \in Phases /\ 1 \in Nat \ {0}
      BY DEF Phases
    <3>2. g \in FrameOf(D) /\ g.sel = Top.sel /\ g.phase = "children"
      BY <1>10, <3>1, SMTT(60) DEF FrameOf
    <3> QED
      BY <3>2
  <2>2. f = [g EXCEPT !.at = 1]
    OBVIOUS
  <2> HIDE DEF g
  <2>3. /\ [g EXCEPT !.at = 1] \in FrameOf(D) /\ [g EXCEPT !.at = 1].sel = g.sel
        /\ [g EXCEPT !.at = 1].phase = g.phase /\ [g EXCEPT !.at = 1].at = 1
    BY <2>1 DEF FrameOf
  <2> HIDE DEF f
  <2> QED
    BY <2>1, <2>2, <2>3
<1>11. f.sel = i /\ f.phase = "children" /\ f.at - 1 = 0
  BY <1>9, <1>10
<1>12. stack' = [stack EXCEPT ![Len(stack)] = f]
  BY DEF DepsDone, Top
<1> HIDE DEF f
<1>13. \A D : Top \in FrameOf(D) => \E F : D \subseteq F /\ f \in FrameOf(F)
  BY <1>10
<1> HIDE DEF i
<1> QED
  BY <1>1, <1>7, <1>8, <1>11, <1>12, <1>13, TurnKeeps DEF i

\* get_resolved passes over a child that is in the session.
LEMMA ChildResolvedKeeps ==
    ASSUME ResolverInv, ChildResolved
    PROVE  ResolverInv'
<1> DEFINE i == Top.sel
           n == Top.at
           old == tree[i].resolved
           node == [tree[i] EXCEPT !.resolved = Append(old, Child)]
<1>1. /\ ObjectsOK /\ status = "running" /\ Top.phase = "children"
      /\ n <= Len(tree[i].gens) /\ Child = tree[i].gens[n] /\ Child \in session
      /\ Advance /\ UNCHANGED <<sels, slots, session, status, raised>>
  BY DEF ChildResolved, MoreChildren, InPhase, ResolverInv, Gens, Child
<1>2. i \in 1..Len(tree) /\ n \in Nat \ {0} /\ ResolvedTo(tree[i], n - 1)
  BY <1>1, TopIs
<1>3. tree[i] \in Node /\ \A k \in 1..Len(tree[i].gens) : tree[i].gens[k] \in 1..Len(tree)
  BY <1>1, <1>2, ElementOfSeq DEF ObjectsOK, GensIn
<1>4. Child \in Nat /\ old \in Seq(Nat) /\ Len(old) = n - 1
  <2>1. Child \in 1..Len(tree)
    BY <1>1 DEF ObjectsOK
  <2> QED
    BY <1>2, <1>3, <2>1 DEF Node, ResolvedTo
<1>5. /\ Append(old, Child) \in Seq(Nat) /\ Len(Append(old, Child)) = n
      /\ \A j \in 1..(n - 1) : Append(old, Child)[j] = old[j]
      /\ Append(old, Child)[n] = Child
  BY <1>2, <1>4, AppendProperties
<1>6. node \in Node /\ node.gens = tree[i].gens /\ node.resolved = Append(old, Child)
  BY <1>3, <1>5, NodeMoves
<1>7. tree' = [tree EXCEPT ![i] = node]
  BY DEF ChildResolved
<1> HIDE DEF node
<1>8. ObjectsOK' /\ OthersKept(i) /\ tree'[i] = node
  <2>1. IsSeq(sels') /\ Len(sels') = Len(sels)
    BY <1>1 DEF ObjectsOK
  <2> QED
    BY <1>1, <1>2, <1>3, <1>6, <1>7, <2>1, NodeWritten
<1>9. ResolvedTo(node, n)
  <2>1. ASSUME NEW j \in 1..n
        PROVE  Append(old, Child)[j] = tree[i].gens[j] /\ tree[i].gens[j] \in session
    <3>1. CASE j = n
      BY <1>1, <1>5, <3>1
    <3>2. CASE j # n
      <4>1. j \in 1..(n - 1)
        BY <1>2, <3>2
      <4> QED
        BY <1>2, <1>5, <4>1 DEF ResolvedTo
    <3> QED
      BY <3>1, <3>2
  <2> QED
    BY <1>1, <1>5, <1>6, <2>1 DEF ResolvedTo
<1> HIDE DEF i, n
<1> QED
  BY <1>1, <1>8, <1>9, AdvanceKeeps DEF i, n

\* get_resolved calls regenerate of a child that is not.
LEMMA ChildDescendKeeps ==
    ASSUME ResolverInv, ChildDescend
    PROVE  ResolverInv'
<1>1. /\ ObjectsOK /\ status = "running" /\ Top.phase = "children"
      /\ Top.at <= Len(tree[Top.sel].gens) /\ Child = tree[Top.sel].gens[Top.at]
      /\ Child \notin session /\ Descend(Child, stack)
      /\ UNCHANGED <<sels, tree, slots, status, raised>>
  BY DEF ChildDescend, MoreChildren, InPhase, ResolverInv, Gens, Child, emerge
<1>2. stack # <<>> /\ Top.sel \in 1..Len(tree) /\ Top.at \in Nat \ {0}
  BY <1>1, TopIs
<1>3. Child \in 1..Len(tree')
  <2>1. tree[Top.sel] \in Node
    BY <1>1, <1>2, ElementOfSeq DEF ObjectsOK, GensIn
  <2>2. Len(tree[Top.sel].gens) \in Nat
    BY <2>1 DEF Node
  <2>3. Top.at \in 1..Len(tree[Top.sel].gens)
    BY <1>1, <1>2, <2>2
  <2> QED
    BY <1>1, <1>2, <2>3 DEF ObjectsOK, GensIn
<1>4. Grown(tree') /\ ObjectsOK'
  <2>1. session' = session \cup {Child}
    BY <1>1 DEF Descend
  <2> QED
    BY <1>1, <1>3, <2>1 DEF Grown, ObjectsOK
<1> QED
  BY <1>1, <1>2, <1>3, <1>4, DescendKeeps

\* regenerate returns to the frame below, whose child is resolved.
LEMMA ReturnKeeps ==
    ASSUME ResolverInv, Return
    PROVE  ResolverInv'
<1> DEFINE n == Depth
           i == Top.sel
<1>1. /\ ObjectsOK /\ status = "running" /\ Top.phase = "children"
      /\ Top.at > Len(tree[i].gens) /\ stack' = Below
      /\ UNCHANGED <<sels, tree, slots, session, raised>>
      /\ IF Below = <<>> THEN status' = "idle" ELSE status' = status
  BY DEF Return, InPhase, ResolverInv, Gens, emerge
<1>2. /\ n \in Nat \ {0} /\ Top = stack[n] /\ i \in session /\ i \in 1..Len(tree)
      /\ Top.at \in Nat \ {0} /\ ResolvedTo(tree[i], Top.at - 1)
  BY <1>1, TopIs
<1>3. PICK E : stack \in Seq(FrameOf(E))
  BY DEF ResolverInv, FramesOK
<1>4. /\ stack' \in Seq(FrameOf(E)) /\ Depth' = n - 1
      /\ \A k \in 1..(n - 1) : stack'[k] = stack[k]
  <2>1. stack' = SubSeq(stack, 1, n - 1) /\ n = Len(stack)
    BY <1>1 DEF Below, Depth
  <2> HIDE DEF n
  <2> DEFINE s == SubSeq(stack, 1, n - 1)
  <2>2. s \in Seq(FrameOf(E)) /\ Len(s) = n - 1 /\ \A k \in 1..(n - 1) : s[k] = stack[k]
    BY <1>2, <1>3, <2>1, SubSeqProperties
  <2> HIDE DEF s
  <2>3. stack' = s
    BY <2>1 DEF s
  <2> QED
    BY <2>2, <2>3 DEF Depth
<1> HIDE DEF n
<1>5. ObjectsOK'
  BY <1>1 DEF ObjectsOK
<1>6. \A k \in 1..(n - 1) : k \in 1..n /\ k # n /\ stack'[k] = stack[k]
  BY <1>2, <1>4
<1>7. FramesOK'
  BY <1>1, <1>4, <1>6 DEF ResolverInv, FramesOK, n
<1>8. ChildrenOK'
  <2>1. \A k \in 1..(n - 1) : stack'[k].phase = "children" =>
          ResolvedTo(tree[stack'[k].sel], stack'[k].at - 1)
    BY <1>6 DEF ResolverInv, ChildrenOK, n
  <2> QED
    BY <1>1, <1>4, <2>1 DEF ChildrenOK, ResolvedTo
<1>9. PathOK'
  <2>1. \A k \in 1..((n - 1) - 1) : k \in 1..(n - 1) /\ k + 1 \in 1..(n - 1)
    BY <1>2
  <2>2. \A j, k \in 1..(n - 1) : stack'[j].sel = stack'[k].sel => j = k
    BY <1>6 DEF ResolverInv, PathOK, n
  <2>3. \A k \in 1..((n - 1) - 1) :
          /\ stack'[k].phase = "children"
          /\ stack'[k].at <= Len(tree'[stack'[k].sel].gens)
          /\ stack'[k + 1].sel = tree'[stack'[k].sel].gens[stack'[k].at]
    BY <1>1, <1>6, <2>1 DEF ResolverInv, PathOK, n
  <2> QED
    BY <1>4, <2>2, <2>3 DEF PathOK
<1>10. RunningOK'
  BY <1>1 DEF RunningOK
<1>11. FinishedOK'
  <2>1. ASSUME ~raised, NEW j \in session, \A k \in 1..(n - 1) : stack'[k].sel # j
        PROVE  ResolvedTo(tree[j], Len(tree[j].gens))
    <3>1. CASE j = i
      <4>1. Len(tree[i].gens) \in Nat
        <5>1. tree[i] \in Node
          BY <1>1, <1>2, ElementOfSeq DEF ObjectsOK, GensIn
        <5> QED
          BY <5>1 DEF Node
      <4>2. Top.at - 1 = Len(tree[i].gens)
        <5>1. Top.at - 1 <= Len(tree[i].gens) /\ Top.at \in Nat
          BY <1>2 DEF ResolvedTo
        <5>2. PICK at, length : at = Top.at /\ length = Len(tree[i].gens)
          OBVIOUS
        <5>3. at \in Nat /\ length \in Nat /\ at - 1 <= length /\ at > length
          BY <1>1, <4>1, <5>1, <5>2
        <5>4. at - 1 = length
          BY <5>3
        <5> QED
          BY <5>2, <5>4
      <4> QED
        BY <1>2, <3>1, <4>2
    <3>2. CASE j # i
      <4>1. \A k \in 1..n : stack[k].sel # j
        BY <1>2, <1>6, <2>1, <3>2
      <4> QED
        BY <2>1, <4>1 DEF ResolverInv, FinishedOK, n
    <3> QED
      BY <3>1, <3>2
  <2> QED
    BY <1>1, <1>4, <2>1 DEF FinishedOK, ResolvedTo
<1> QED
  BY <1>5, <1>7, <1>8, <1>9, <1>10, <1>11 DEF ResolverInv

\* Every step keeps the invariant.
LEMMA StepKeeps == ResolverInv /\ [Next]_vars => ResolverInv'
<1> SUFFICES ASSUME ResolverInv, [Next]_vars PROVE ResolverInv'
  OBVIOUS
<1>1. CASE NewEmerge
  BY <1>1, NewEmergeKeeps
<1>2. CASE ClearSession
  BY <1>2, ClearSessionKeeps
<1>3. CASE \E a \in Requests : Request(a)
  BY <1>3, RequestKeeps
<1>4. CASE Begin
  BY <1>4, BeginKeeps
<1>5. CASE Flush
  BY <1>5, FlushKeeps
<1>6. CASE DepAtom
  BY <1>6, DepAtomKeeps
<1>7. CASE DepBlock
  BY <1>7, OtherDepKeeps DEF DepBlock
<1>8. CASE DepConditional
  BY <1>8, OtherDepKeeps DEF DepConditional, emerge
<1>9. CASE DepGroup
  BY <1>9, OtherDepKeeps DEF DepGroup, emerge
<1>10. CASE DepsDone
  BY <1>10, DepsDoneKeeps
<1>11. CASE ChildResolved
  BY <1>11, ChildResolvedKeeps
<1>12. CASE ChildDescend
  BY <1>12, ChildDescendKeeps
<1>13. CASE Return
  BY <1>13, ReturnKeeps
<1>14. CASE UNCHANGED vars
  <2>1. Grown(tree') /\ ObjectsOK' /\ RunningOK' /\ UNCHANGED <<stack, session, raised>>
    BY <1>14 DEF vars, emerge, Grown, ResolverInv, ObjectsOK, RunningOK
  <2> QED
    BY <2>1, GrowthKeeps
<1> QED
  BY <1>1, <1>2, <1>3, <1>4, <1>5, <1>6, <1>7, <1>8, <1>9, <1>10, <1>11, <1>12, <1>13, <1>14
     DEF Next, User, Regenerate

\* Every call under way is as far as its frame says, in every state.
LEMMA ResolverInvHolds == Spec => []ResolverInv
  BY InitInv, StepKeeps, PTL DEF Spec

----------------------------------------------------------------------------
\* However the dependencies run in circles: the calls of regenerate under way
\* are those of a path of generators that comes to no ebuild twice.
THEOREM StackIsPathHolds == Spec => []StackIsPath
<1>1. ResolverInv => StackIsPath
  <2> SUFFICES ASSUME ResolverInv PROVE StackIsPath
    OBVIOUS
  <2>1. Depth \in Nat /\ DOMAIN stack = 1..Depth
    BY LenProperties DEF ResolverInv, FramesOK, Depth
  <2>2. DOMAIN stack \ {Len(stack)} = 1..(Depth - 1)
    BY <2>1 DEF Depth
  <2>3. OnStack \subseteq session
    BY <2>1 DEF ResolverInv, FramesOK, OnStack
  <2> QED
    BY <2>1, <2>2, <2>3 DEF ResolverInv, PathOK, RunningOK, StackIsPath
<1> QED
  BY <1>1, ResolverInvHolds, PTL

\* Unless a request raised: whatever get_resolved has given back has resolved
\* all its generators, in the same session.
THEOREM FinishedIsClosedHolds == Spec => []FinishedIsClosed
<1>1. ResolverInv => FinishedIsClosed
  <2> SUFFICES ASSUME ResolverInv, ~raised, NEW i \in session \ OnStack
               PROVE  /\ tree[i].resolved = tree[i].gens
                      /\ \A k \in DOMAIN tree[i].gens : tree[i].gens[k] \in session
    BY DEF FinishedIsClosed
  <2>1. Depth \in Nat /\ DOMAIN stack = 1..Depth
    BY LenProperties DEF ResolverInv, FramesOK, Depth
  <2>2. ResolvedTo(tree[i], Len(tree[i].gens))
    BY <2>1 DEF ResolverInv, FinishedOK, OnStack
  <2>3. tree[i] \in Node
    BY ElementOfSeq DEF ResolverInv, ObjectsOK, GensIn
  <2>4. tree[i].gens \in Seq(Nat) /\ tree[i].resolved \in Seq(Nat)
    BY <2>3 DEF Node
  <2>5. DOMAIN tree[i].gens = 1..Len(tree[i].gens)
    BY <2>4
  <2> QED
    BY <2>2, <2>4, <2>5, SeqEqual DEF ResolvedTo
<1> QED
  BY <1>1, ResolverInvHolds, PTL


----------------------------------------------------------------------------
(* What applying flags does to a selection *)

\* The fields of a selection, and what its lists are.
Fields == {"pkg", "ebuild", "by", "dirty", "use", "queue", "hooks", "global"}

IsSelection(s) ==
    /\ Fields \subseteq DOMAIN s
    /\ s.dirty \in BOOLEAN /\ IsSeq(s.queue) /\ IsSeq(s.hooks) /\ IsSeq(s.global)

\* No flag is in a state that a hook of the selection forbids.
FlagsKept(s) ==
    /\ \A k \in DOMAIN s.hooks :
         HasUse(s, s.hooks[k].flag) /\ UseState(s, s.hooks[k].flag) = s.hooks[k].state
    /\ \A k \in DOMAIN s.global : Satisfies(s, s.global[k])

\* The same ebuild with other flags, to be generated again if it was.
Reflagged(s, t) ==
    /\ IsSelection(t) /\ t.pkg = s.pkg /\ t.ebuild = s.ebuild /\ t.by = s.by
    /\ s.dirty => t.dirty

\* Flags were applied to s, and unless that raised they are as required.
Applied(s, acc) ==
    /\ Reflagged(s, acc.sel)
    /\ acc.ok /\ FlagsKept(s) => FlagsKept(acc.sel)

\* What a sequence has after one more.
LEMMA AppendHas ==
    ASSUME NEW s, IsSeq(s), NEW v, NEW k \in DOMAIN Append(s, v)
    PROVE  (k \in DOMAIN s /\ Append(s, v)[k] = s[k]) \/ Append(s, v)[k] = v
<1>1. PICK S : s \in Seq(S)
  BY DEF IsSeq
<1>2. s \in Seq(S \cup {v})
  BY <1>1
<1> QED
  BY <1>2, AppendProperties

\* It is the one after the last.
LEMMA AppendAt ==
    ASSUME NEW s, IsSeq(s), NEW v, NEW k \in DOMAIN Append(s, v)
    PROVE  k \in DOMAIN s \/ k = Len(s) + 1
<1>1. PICK S : s \in Seq(S)
  BY DEF IsSeq
<1>2. s \in Seq(S \cup {v}) /\ DOMAIN s = 1..Len(s) /\ Len(s) \in Nat
  BY <1>1
<1>3. DOMAIN Append(s, v) = 1..(Len(s) + 1)
  BY <1>2, AppendProperties
<1> QED
  BY <1>2, <1>3

\* Selections that agree on the flags the first has keep the same.
LEMMA FlagsStay ==
    ASSUME NEW s, NEW t, t.hooks = s.hooks, t.global = s.global,
           \A f : HasUse(s, f) => HasUse(t, f) /\ UseState(t, f) = UseState(s, f),
           FlagsKept(s)
    PROVE  FlagsKept(t)
<1>1. ASSUME NEW e, Satisfies(s, e) PROVE Satisfies(t, e)
  <2>1. \A f \in DOMAIN IUse[e] : HasUse(s, f)
    BY <1>1 DEF Satisfies
  <2>2. {f \in DOMAIN IUse[e] : UseState(t, f)} = {f \in DOMAIN IUse[e] : UseState(s, f)}
    BY <2>1
  <2> QED
    BY <1>1, <2>1, <2>2 DEF Satisfies
<1> QED
  BY <1>1 DEF FlagsKept

\* A flag that is set leaves the others and the requirements as they are.
LEMMA UsePut ==
    ASSUME NEW s, IsSelection(s), NEW f, NEW state
    PROVE  LET t == WithUse(s, f, state) IN
           /\ Reflagged(s, t) /\ t.hooks = s.hooks /\ t.global = s.global /\ t.queue = s.queue
           /\ DOMAIN t.use = DOMAIN s.use \cup {f} /\ t.use[f] = state
           /\ \A g \in DOMAIN s.use : g # f => t.use[g] = s.use[g]
<1> DEFINE u == [g \in DOMAIN s.use \cup {f} |-> IF g = f THEN state ELSE s.use[g]]
<1>1. DOMAIN u = DOMAIN s.use \cup {f} /\ u[f] = state /\ \A g \in DOMAIN s.use : g # f => u[g] = s.use[g]
  OBVIOUS
<1>2. WithUse(s, f, state) = [s EXCEPT !.use = u]
  BY DEF WithUse
<1> HIDE DEF u
<1> QED
  BY <1>1, <1>2 DEF IsSelection, Reflagged, Fields

\* A flag that the selection lacked.
LEMMA NewFlagKeeps ==
    ASSUME NEW s, IsSelection(s), NEW f, ~HasUse(s, f), NEW state
    PROVE  LET t == WithUse(s, f, state) IN
           /\ Reflagged(s, t) /\ HasUse(t, f)
           /\ FlagsKept(s) => FlagsKept(t)
<1> DEFINE t == WithUse(s, f, state)
<1>1. /\ Reflagged(s, t) /\ t.hooks = s.hooks /\ t.global = s.global
      /\ DOMAIN t.use = DOMAIN s.use \cup {f}
      /\ \A g \in DOMAIN s.use : g # f => t.use[g] = s.use[g]
  BY UsePut
<1> HIDE DEF t
<1>2. \A g : HasUse(s, g) => HasUse(t, g) /\ UseState(t, g) = UseState(s, g)
  BY <1>1 DEF HasUse, UseState, Reflagged
<1>3. HasUse(t, f)
  BY <1>1 DEF HasUse
<1>4. FlagsKept(s) => FlagsKept(t)
  BY <1>1, <1>2, FlagsStay
<1> QED
  BY <1>1, <1>3, <1>4 DEF t

\* A requirement of a flag that the selection has.
LEMMA RequireKeeps ==
    ASSUME NEW s, IsSelection(s), NEW f, HasUse(s, f), NEW option
    PROVE  Applied(s, Require(s, f, option))
<1> DEFINE hook == [flag |-> f, state |-> Target(option, UseState(s, f))]
           queued == [s EXCEPT !.queue = Append(@, hook), !.dirty = TRUE]
<1>1. hook.flag = f
  OBVIOUS
<1> HIDE DEF hook
<1>2. PICK scheduled :
        /\ scheduled \in {s, queued}
        /\ \/ Require(s, f, option) =
                Result([scheduled EXCEPT !.hooks = Append(@, hook)], hook.state = UseState(s, f))
           \/ Require(s, f, option) = Result(scheduled, TRUE)
  BY DEF Require, hook
<1>3. /\ Reflagged(s, scheduled) /\ scheduled.use = s.use
      /\ scheduled.hooks = s.hooks /\ scheduled.global = s.global
  <2>1. IsSeq(Append(s.queue, hook))
    BY AppendIsSeq DEF IsSelection
  <2>2. CASE scheduled = s
    BY <2>2 DEF Reflagged, IsSelection
  <2>3. CASE scheduled = queued
    BY <2>1, <2>3 DEF Reflagged, IsSelection, Fields
  <2> QED
    BY <1>2, <2>2, <2>3
<1> HIDE DEF queued
<1>4. \A g : HasUse(s, g) => HasUse(scheduled, g) /\ UseState(scheduled, g) = UseState(s, g)
  BY <1>3 DEF HasUse, UseState, Reflagged
<1>5. FlagsKept(s) => FlagsKept(scheduled)
  BY <1>3, <1>4, FlagsStay
<1>6. CASE Require(s, f, option) = Result(scheduled, TRUE)
  BY <1>3, <1>5, <1>6 DEF Applied, Result
<1>7. CASE Require(s, f, option) =
             Result([scheduled EXCEPT !.hooks = Append(@, hook)], hook.state = UseState(s, f))
  <2> DEFINE t == [scheduled EXCEPT !.hooks = Append(@, hook)]
  <2>1. /\ Reflagged(s, t) /\ t.use = s.use /\ t.ebuild = s.ebuild
        /\ t.hooks = Append(s.hooks, hook) /\ t.global = s.global
    <3>1. IsSeq(Append(s.hooks, hook))
      BY AppendIsSeq DEF IsSelection
    <3> QED
      BY <1>3, <3>1 DEF Reflagged, IsSelection, Fields
  <2> HIDE DEF t
  <2>2. \A g : (HasUse(s, g) <=> HasUse(t, g)) /\ UseState(t, g) = UseState(s, g)
    BY <2>1 DEF HasUse, UseState
  <2>3. ASSUME hook.state = UseState(s, f), FlagsKept(s)
        PROVE  FlagsKept(t)
    <3>1. \A e : Satisfies(s, e) => Satisfies(t, e)
      <4> SUFFICES ASSUME NEW e, Satisfies(s, e) PROVE Satisfies(t, e)
        OBVIOUS
      <4>1. {g \in DOMAIN IUse[e] : UseState(t, g)} = {g \in DOMAIN IUse[e] : UseState(s, g)}
        BY <2>2
      <4> QED
        BY <2>2, <4>1 DEF Satisfies
    <3>2. ASSUME NEW k \in DOMAIN t.hooks
          PROVE  HasUse(t, t.hooks[k].flag) /\ UseState(t, t.hooks[k].flag) = t.hooks[k].state
      <4>1. (k \in DOMAIN s.hooks /\ t.hooks[k] = s.hooks[k]) \/ t.hooks[k] = hook
        BY <2>1, AppendHas DEF IsSelection
      <4> QED
        BY <1>1, <2>2, <2>3, <4>1 DEF FlagsKept
    <3> QED
      BY <2>1, <2>3, <3>1, <3>2 DEF FlagsKept
  <2>4. Require(s, f, option).sel = t /\ Require(s, f, option).ok = (hook.state = UseState(s, f))
    BY <1>7 DEF Result, t
  <2> QED
    BY <2>1, <2>3, <2>4 DEF Applied
<1> QED
  BY <1>2, <1>6, <1>7

\* Flags applied to what applying others gave.
LEMMA AppliedThen ==
    ASSUME NEW s, NEW acc, Applied(s, acc), NEW next, Applied(acc.sel, next),
           next.ok => acc.ok
    PROVE  Applied(s, next)
  BY DEF Applied, Reflagged

\* One flag of an atom.
LEMMA ApplyUseKeeps ==
    ASSUME NEW s, NEW acc, Applied(s, acc), NEW use
    PROVE  Applied(s, ApplyUse(acc, use))
<1> DEFINE c == acc.sel
           f == use.flag
<1>1. IsSelection(c)
  BY DEF Applied, Reflagged
<1>2. CASE ~acc.ok
  <2>1. ApplyUse(acc, use) = acc
    BY <1>2, Zenon DEF ApplyUse
  <2> QED
    BY <2>1
<1>3. CASE acc.ok /\ HasUse(c, f)
  <2>1. ApplyUse(acc, use) = Require(c, f, use.option)
    BY <1>3, Zenon DEF ApplyUse
  <2> QED
    BY <1>1, <1>3, <2>1, RequireKeeps, AppliedThen
<1>4. CASE acc.ok /\ ~HasUse(c, f)
  <2>1. \/ \E state, option : ApplyUse(acc, use) = Require(WithUse(c, f, state), f, option)
        \/ ApplyUse(acc, use) = Result(c, FALSE)
    <3>1. CASE use.option = "enable"
      <4>1. ApplyUse(acc, use) = Require(WithUse(c, f, TRUE), f, "enable")
        BY <1>4, <3>1, Zenon DEF ApplyUse
      <4> QED
        BY <4>1
    <3>2. CASE use.option = "enable_if_on"
      <4>1. ApplyUse(acc, use) = Require(WithUse(c, f, FALSE), f, "disable")
        <5>1. use.option # "enable"
          BY <3>2
        <5> QED
          BY <1>4, <3>2, <5>1, Zenon DEF ApplyUse
      <4> QED
        BY <4>1
    <3>3. CASE use.option \notin {"enable", "enable_if_on"}
      <4>1. use.option # "enable" /\ use.option # "enable_if_on"
        BY <3>3
      <4>2. ApplyUse(acc, use) = Result(c, FALSE)
        BY <1>4, <4>1, Zenon DEF ApplyUse
      <4> QED
        BY <4>2
    <3> QED
      BY <3>1, <3>2, <3>3
  <2>2. CASE ApplyUse(acc, use) = Result(c, FALSE)
    BY <2>2 DEF Applied, Result
  <2>3. ASSUME NEW state, NEW option,
               ApplyUse(acc, use) = Require(WithUse(c, f, state), f, option)
        PROVE  Applied(s, ApplyUse(acc, use))
    <3> DEFINE t == WithUse(c, f, state)
    <3>1. Reflagged(c, t) /\ HasUse(t, f) /\ (FlagsKept(c) => FlagsKept(t))
      BY <1>1, <1>4, NewFlagKeeps
    <3> HIDE DEF t
    <3>2. Applied(t, Require(t, f, option))
      BY <3>1, RequireKeeps DEF Reflagged
    <3>3. Applied(c, Require(t, f, option))
      BY <3>1, <3>2 DEF Applied, Reflagged
    <3>4. Applied(s, Require(t, f, option))
      BY <1>4, <3>3, AppliedThen
    <3> QED
      BY <2>3, <3>4 DEF t
  <2> QED
    BY <2>1, <2>2, <2>3
<1> QED
  BY <1>2, <1>3, <1>4

\* One scheduled flag, of which n are left.
Flushed(s, acc, n) ==
    /\ Applied(s, acc)
    /\ acc.ok => Len(acc.sel.queue) = n

\* One scheduled change.
LEMMA FlushOneKeeps ==
    ASSUME NEW s, NEW n \in Nat, NEW acc, Flushed(s, acc, n + 1), NEW use
    PROVE  Flushed(s, FlushOne(acc, use), n)
<1> DEFINE c == [acc.sel EXCEPT !.queue = Tail(@)]
           t == WithUse(c, use.flag, use.state)
           rules == /\ \A i \in DOMAIN t.hooks :
                         t.hooks[i].flag = use.flag => t.hooks[i].state = use.state
                    /\ \A i \in DOMAIN t.global : Satisfies(t, t.global[i])
<1>1. CASE ~acc.ok
  <2>1. FlushOne(acc, use) = acc
    BY <1>1, Zenon DEF FlushOne
  <2> QED
    BY <1>1, <2>1 DEF Flushed
<1>2. CASE acc.ok
  <2>1. /\ Reflagged(acc.sel, c) /\ Len(c.queue) = n
        /\ c.use = acc.sel.use /\ c.hooks = acc.sel.hooks /\ c.global = acc.sel.global
    <3>1. PICK S : acc.sel.queue \in Seq(S)
      BY DEF Flushed, Applied, Reflagged, IsSelection, IsSeq
    <3>2. Len(acc.sel.queue) = n + 1
      BY <1>2 DEF Flushed
    <3>3. acc.sel.queue # <<>>
      BY <3>2
    <3>4. Tail(acc.sel.queue) \in Seq(S) /\ Len(Tail(acc.sel.queue)) = n
      BY <3>1, <3>2, <3>3, HeadTailProperties
    <3> QED
      BY <3>4 DEF Flushed, Applied, Reflagged, IsSelection, Fields, IsSeq
  <2> HIDE DEF c
  <2>2. FlagsKept(acc.sel) => FlagsKept(c)
    <3>1. \A f : HasUse(acc.sel, f) => HasUse(c, f) /\ UseState(c, f) = UseState(acc.sel, f)
      BY <2>1 DEF HasUse, UseState, Reflagged
    <3> QED
      BY <2>1, <3>1, FlagsStay
  <2>3. Reflagged(s, c) /\ (FlagsKept(s) => FlagsKept(c)) /\ IsSelection(c)
    BY <1>2, <2>1, <2>2 DEF Flushed, Applied, Reflagged
  <2>4. CASE ~HasUse(c, use.flag)
    <3>1. FlushOne(acc, use) = Result(c, FALSE)
      BY <1>2, <2>4, Zenon DEF FlushOne, c
    <3> QED
      BY <2>1, <2>3, <3>1 DEF Flushed, Applied, Result
  <2>5. CASE HasUse(c, use.flag) /\ UseState(c, use.flag) = use.state
    <3>1. FlushOne(acc, use) = Result(c, TRUE)
      BY <1>2, <2>5, Zenon DEF FlushOne, c
    <3> QED
      BY <2>1, <2>3, <3>1 DEF Flushed, Applied, Result
  <2>6. CASE HasUse(c, use.flag) /\ UseState(c, use.flag) # use.state
    <3>1. FlushOne(acc, use) = Result(t, rules)
      BY <1>2, <2>6, Zenon DEF FlushOne, c
    <3>2. /\ Reflagged(c, t) /\ t.hooks = c.hooks /\ t.global = c.global /\ t.queue = c.queue
          /\ DOMAIN t.use = DOMAIN c.use \cup {use.flag} /\ t.use[use.flag] = use.state
          /\ \A g \in DOMAIN c.use : g # use.flag => t.use[g] = c.use[g]
      BY <2>3, UsePut
    <3> HIDE DEF t
    <3>3. \A g : HasUse(c, g) => HasUse(t, g) /\ (g # use.flag => UseState(t, g) = UseState(c, g))
      BY <3>2 DEF HasUse, UseState, Reflagged
    <3>4. HasUse(t, use.flag) /\ UseState(t, use.flag) = use.state
      BY <3>2 DEF HasUse, UseState
    <3>5. ASSUME rules, FlagsKept(c)
          PROVE  FlagsKept(t)
      BY <3>2, <3>3, <3>4, <3>5 DEF FlagsKept
    <3>6. Reflagged(s, t)
      BY <2>3, <3>2 DEF Reflagged
    <3> HIDE DEF rules
    <3> QED
      BY <2>1, <2>3, <3>1, <3>2, <3>5, <3>6 DEF Flushed, Applied, Result
  <2> QED
    BY <2>4, <2>5, <2>6
<1> QED
  BY <1>1, <1>2

----------------------------------------------------------------------------
(* All flags of an atom, and all that are scheduled *)

\* g is what is left after each of the first n flags of the atom.
Uses(s, uses, n, g) ==
    g = [i \in 0..n |-> IF i = 0 THEN Result(s, TRUE) ELSE ApplyUse(g[i - 1], uses[i])]

\* The recursion of ApplyUses defines a function up to any n.
LEMMA UsesExist ==
    ASSUME NEW s, NEW uses
    PROVE  \A n \in Nat : \E g : Uses(s, uses, n, g)
<1> DEFINE S == {n \in Nat : \E g : Uses(s, uses, n, g)}
           first == Result(s, TRUE)
<1> HIDE DEF first
<1>1. 0 \in S
  <2> DEFINE g == [i \in 0..0 |-> first]
  <2>1. g = [i \in 0..0 |-> IF i = 0 THEN first ELSE ApplyUse(g[i - 1], uses[i])]
    OBVIOUS
  <2> HIDE DEF g
  <2>2. Uses(s, uses, 0, g)
    BY <2>1, Zenon DEF Uses, first
  <2> QED
    BY <2>2
<1>2. ASSUME NEW n \in Nat, n \in S
      PROVE  n + 1 \in S
  <2>1. PICK f : Uses(s, uses, n, f)
    BY <1>2
  <2> DEFINE last == ApplyUse(f[n], uses[n + 1])
             g == [i \in 0..(n + 1) |-> IF i = n + 1 THEN last ELSE f[i]]
             h == [i \in 0..(n + 1) |-> IF i = 0 THEN first ELSE ApplyUse(g[i - 1], uses[i])]
  <2> HIDE DEF last
  <2>2. g[n + 1] = last /\ \A i \in 0..n : g[i] = f[i]
    OBVIOUS
  <2>3. f[0] = first /\ \A i \in 1..n : f[i] = ApplyUse(f[i - 1], uses[i])
    <3>1. f = [i \in 0..n |-> IF i = 0 THEN first ELSE ApplyUse(f[i - 1], uses[i])]
      BY <2>1, Zenon DEF Uses, first
    <3>2. \A i \in 0..n : f[i] = IF i = 0 THEN first ELSE ApplyUse(f[i - 1], uses[i])
      BY <3>1
    <3>3. 0 \in 0..n /\ \A i \in 1..n : i \in 0..n /\ i # 0
      OBVIOUS
    <3> QED
      BY <3>2, <3>3
  <2>4. ASSUME NEW i \in 0..(n + 1) PROVE g[i] = h[i]
    <3>1. h[i] = IF i = 0 THEN first ELSE ApplyUse(g[i - 1], uses[i])
      OBVIOUS
    <3> HIDE DEF g, h
    <3>2. CASE i = n + 1
      <4>1. i # 0 /\ i - 1 = n /\ n \in 0..n
        BY <3>2
      <4>2. h[i] = ApplyUse(f[n], uses[n + 1])
        BY <2>2, <3>1, <3>2, <4>1
      <4> QED
        BY <2>2, <3>2, <4>2 DEF last
    <3>3. CASE i \in 1..n
      <4>1. i # 0 /\ i - 1 \in 0..n /\ i \in 0..n
        BY <3>3
      <4> QED
        BY <2>2, <2>3, <3>1, <3>3, <4>1
    <3>4. CASE i = 0
      BY <2>2, <2>3, <3>1, <3>4, 0 \in 0..n
    <3>5. i = n + 1 \/ i \in 1..n \/ i = 0
      OBVIOUS
    <3> QED
      BY <3>2, <3>3, <3>4, <3>5
  <2>5. g = h
    BY <2>4
  <2> HIDE DEF g
  <2>6. Uses(s, uses, n + 1, g)
    BY <2>5 DEF Uses, first
  <2> QED
    BY <2>6
<1> HIDE DEF S
<1>3. Nat \subseteq S
  BY <1>1, <1>2, Induction
<1> QED
  BY <1>3 DEF S

\* All flags of an atom.
LEMMA ApplyUsesKeeps ==
    ASSUME NEW s, IsSelection(s), NEW uses, Len(uses) \in Nat
    PROVE  Applied(s, ApplyUses(s, uses))
<1> DEFINE N == Len(uses)
           F(f) == [i \in 0..N |-> IF i = 0 THEN Result(s, TRUE) ELSE ApplyUse(f[i - 1], uses[i])]
           v == CHOOSE f : f = F(f)
<1>1. ApplyUses(s, uses) = v[N] /\ N \in Nat
  BY DEF ApplyUses
<1> HIDE DEF N
<1>2. PICK g : g = F(g)
  <2>1. PICK g : Uses(s, uses, N, g)
    BY <1>1, UsesExist
  <2>2. g = F(g)
    BY <2>1, Zenon DEF Uses
  <2> QED
    BY <2>2
<1>3. v = F(v)
  BY <1>2
<1> HIDE DEF v
<1>4. v[0] = Result(s, TRUE) /\ \A i \in 1..N : v[i] = ApplyUse(v[i - 1], uses[i])
  <2>1. \A i \in 0..N : v[i] = IF i = 0 THEN Result(s, TRUE) ELSE ApplyUse(v[i - 1], uses[i])
    BY <1>3
  <2>2. 0 \in 0..N /\ \A i \in 1..N : i \in 0..N /\ i # 0
    BY <1>1
  <2> QED
    BY <2>1, <2>2
<1> DEFINE S == {n \in Nat : n <= N => Applied(s, v[n])}
<1>5. 0 \in S
  <2>1. Applied(s, Result(s, TRUE))
    BY DEF Applied, Result, Reflagged
  <2> QED
    BY <1>4, <2>1
<1>6. ASSUME NEW n \in Nat, n \in S PROVE n + 1 \in S
  <2> SUFFICES ASSUME n + 1 <= N PROVE Applied(s, v[n + 1])
    OBVIOUS
  <2>1. n + 1 \in 1..N /\ (n + 1) - 1 = n /\ Applied(s, v[n])
    BY <1>1, <1>6
  <2>2. v[n + 1] = ApplyUse(v[n], uses[n + 1])
    BY <1>4, <2>1
  <2> QED
    BY <2>1, <2>2, ApplyUseKeeps
<1> HIDE DEF S
<1>7. N \in S
  BY <1>1, <1>5, <1>6, Induction
<1> QED
  BY <1>1, <1>7 DEF S

\* g is what is left after each of the first n scheduled flags.
Flushes(s, n, g) ==
    g = [i \in 0..n |-> IF i = 0 THEN Result(s, TRUE) ELSE FlushOne(g[i - 1], s.queue[i])]

\* The recursion of FlushUse defines a function up to any n.
LEMMA FlushesExist ==
    ASSUME NEW s
    PROVE  \A n \in Nat : \E g : Flushes(s, n, g)
<1> DEFINE S == {n \in Nat : \E g : Flushes(s, n, g)}
           first == Result(s, TRUE)
<1> HIDE DEF first
<1>1. 0 \in S
  <2> DEFINE g == [i \in 0..0 |-> first]
  <2>1. g = [i \in 0..0 |-> IF i = 0 THEN first ELSE FlushOne(g[i - 1], s.queue[i])]
    OBVIOUS
  <2> HIDE DEF g
  <2>2. Flushes(s, 0, g)
    BY <2>1, Zenon DEF Flushes, first
  <2> QED
    BY <2>2
<1>2. ASSUME NEW n \in Nat, n \in S
      PROVE  n + 1 \in S
  <2>1. PICK f : Flushes(s, n, f)
    BY <1>2
  <2> DEFINE last == FlushOne(f[n], s.queue[n + 1])
             g == [i \in 0..(n + 1) |-> IF i = n + 1 THEN last ELSE f[i]]
             h == [i \in 0..(n + 1) |-> IF i = 0 THEN first ELSE FlushOne(g[i - 1], s.queue[i])]
  <2> HIDE DEF last
  <2>2. g[n + 1] = last /\ \A i \in 0..n : g[i] = f[i]
    OBVIOUS
  <2>3. f[0] = first /\ \A i \in 1..n : f[i] = FlushOne(f[i - 1], s.queue[i])
    <3>1. f = [i \in 0..n |-> IF i = 0 THEN first ELSE FlushOne(f[i - 1], s.queue[i])]
      BY <2>1, Zenon DEF Flushes, first
    <3>2. \A i \in 0..n : f[i] = IF i = 0 THEN first ELSE FlushOne(f[i - 1], s.queue[i])
      BY <3>1
    <3>3. 0 \in 0..n /\ \A i \in 1..n : i \in 0..n /\ i # 0
      OBVIOUS
    <3> QED
      BY <3>2, <3>3
  <2>4. ASSUME NEW i \in 0..(n + 1) PROVE g[i] = h[i]
    <3>1. h[i] = IF i = 0 THEN first ELSE FlushOne(g[i - 1], s.queue[i])
      OBVIOUS
    <3> HIDE DEF g, h
    <3>2. CASE i = n + 1
      <4>1. i # 0 /\ i - 1 = n /\ n \in 0..n
        BY <3>2
      <4>2. h[i] = FlushOne(f[n], s.queue[n + 1])
        BY <2>2, <3>1, <3>2, <4>1
      <4> QED
        BY <2>2, <3>2, <4>2 DEF last
    <3>3. CASE i \in 1..n
      <4>1. i # 0 /\ i - 1 \in 0..n /\ i \in 0..n
        BY <3>3
      <4> QED
        BY <2>2, <2>3, <3>1, <3>3, <4>1
    <3>4. CASE i = 0
      BY <2>2, <2>3, <3>1, <3>4, 0 \in 0..n
    <3>5. i = n + 1 \/ i \in 1..n \/ i = 0
      OBVIOUS
    <3> QED
      BY <3>2, <3>3, <3>4, <3>5
  <2>5. g = h
    BY <2>4
  <2> HIDE DEF g
  <2>6. Flushes(s, n + 1, g)
    BY <2>5 DEF Flushes, first
  <2> QED
    BY <2>6
<1> HIDE DEF S
<1>3. Nat \subseteq S
  BY <1>1, <1>2, Induction
<1> QED
  BY <1>3 DEF S

\* All changes that are scheduled.
LEMMA FlushUseKeeps ==
    ASSUME NEW s, IsSelection(s)
    PROVE  Applied(s, FlushUse(s))
<1> DEFINE N == Len(s.queue)
           F(f) == [i \in 0..N |-> IF i = 0 THEN Result(s, TRUE) ELSE FlushOne(f[i - 1], s.queue[i])]
           v == CHOOSE f : f = F(f)
<1>1. FlushUse(s) = v[N] /\ N \in Nat
  <2>1. N \in Nat
    BY DEF IsSelection, IsSeq
  <2> QED
    BY <2>1 DEF FlushUse
<1> HIDE DEF N
<1>2. PICK g : g = F(g)
  <2>1. PICK g : Flushes(s, N, g)
    BY <1>1, FlushesExist
  <2>2. g = F(g)
    BY <2>1, Zenon DEF Flushes
  <2> QED
    BY <2>2
<1>3. v = F(v)
  BY <1>2
<1> HIDE DEF v
<1>4. v[0] = Result(s, TRUE) /\ \A i \in 1..N : v[i] = FlushOne(v[i - 1], s.queue[i])
  <2>1. \A i \in 0..N : v[i] = IF i = 0 THEN Result(s, TRUE) ELSE FlushOne(v[i - 1], s.queue[i])
    BY <1>3
  <2>2. 0 \in 0..N /\ \A i \in 1..N : i \in 0..N /\ i # 0
    BY <1>1
  <2> QED
    BY <2>1, <2>2
<1> DEFINE S == {n \in Nat : n <= N => Flushed(s, v[n], N - n)}
<1>5. 0 \in S
  <2>1. Flushed(s, Result(s, TRUE), N - 0)
    BY <1>1 DEF Flushed, Applied, Result, Reflagged, N
  <2> QED
    BY <1>4, <2>1
<1>6. ASSUME NEW n \in Nat, n \in S PROVE n + 1 \in S
  <2> SUFFICES ASSUME n + 1 <= N PROVE Flushed(s, v[n + 1], N - (n + 1))
    OBVIOUS
  <2>1. n + 1 \in 1..N /\ (n + 1) - 1 = n /\ Flushed(s, v[n], N - n)
    BY <1>1, <1>6
  <2>2. v[n + 1] = FlushOne(v[n], s.queue[n + 1])
    BY <1>4, <2>1
  <2>3. N - (n + 1) \in Nat /\ N - n = (N - (n + 1)) + 1
    BY <1>1
  <2>4. Flushed(s, v[n], (N - (n + 1)) + 1)
    BY <2>1, <2>3
  <2> QED
    BY <2>2, <2>3, <2>4, FlushOneKeeps
<1> HIDE DEF S
<1>7. N \in S
  BY <1>1, <1>5, <1>6, Induction
<1> QED
  BY <1>1, <1>7 DEF S, Flushed

----------------------------------------------------------------------------
(* What resolve_single does to the selections *)

\* The ebuild is the one that the first atom chose.
AsChosen(s) == s.ebuild = s.by.chosen

IsSecond(s) ==
    /\ Len(Listing[s.pkg]) >= 2
    /\ s.ebuild = Listing[s.pkg][2] /\ s.ebuild \in s.by.matches

\* It is that one, or the one that change_within_slot changes it to.
SelectionOK(s) ==
    /\ IsSelection(s) /\ s.pkg \in Packages /\ s.ebuild \in Ebuilds
    /\ IsAtom(s.by) /\ s.by.pkg = s.pkg /\ s.by.chosen # NoEbuild
    /\ AsChosen(s) \/ IsSecond(s)

\* What s becomes: never again as chosen, once it is not.
Follows(s, t) ==
    /\ t.pkg = s.pkg /\ t.by = s.by
    /\ AsChosen(t) => t.ebuild = s.ebuild

FlagsIn(ss) == \A i \in 1..Len(ss) : AsChosen(ss[i]) => FlagsKept(ss[i])

\* The key of s in the dictionary is the slot of the ebuild that was chosen
\* first, if that was known; only then it can have been changed.
Keyed(slot, s, R) ==
    /\ slot = NoSlot \/ (slot = SlotOf[s.by.chosen] /\ s.by.chosen \in R)
    /\ slot = NoSlot => AsChosen(s)

\* The selections ss are filed in d, each once, when the ebuilds R were read.
FiledRight(ss, d, R) ==
    \A p \in Packages :
        /\ \A k \in DOMAIN d[p] :
             ss[d[p][k].sel].pkg = p /\ Keyed(d[p][k].slot, ss[d[p][k].sel], R)
        /\ \A k, l \in DOMAIN d[p] : d[p][k].sel = d[p][l].sel => k = l

SelsOK ==
    /\ \A i \in 1..Len(sels) : SelectionOK(sels[i])
    /\ FiledRight(sels, slots, read)

\* The selections ss come after those there are, filed in d.
After(ss, d) ==
    /\ \A i \in 1..Len(ss) : SelectionOK(ss[i])
    /\ \A i \in 1..Len(ss) : i \in 1..Len(sels) \/ ss[i].dirty
    /\ \A i \in 1..Len(sels) :
         i \in 1..Len(ss) /\ Follows(sels[i], ss[i]) /\ (sels[i].dirty => ss[i].dirty)
    /\ \A p \in Packages : \A k \in DOMAIN slots[p] : k \in DOMAIN d[p] /\ d[p][k] = slots[p][k]
    /\ FiledRight(ss, d, read)

\* Selection s is one for atom a.
Serves(s, a) == s.pkg = a.pkg /\ (AsChosen(s) => s.ebuild \in a.matches)

\* What is answered about atom a.
Answers(a, r) ==
    /\ After(r.sels, r.slots)
    /\ r.how # "raise" /\ FlagsIn(sels) => FlagsIn(r.sels)
    /\ r.how = "ok" => OtherVersion(a) \/ (r.got # 0 /\ Serves(r.sels[r.got], a))

\* Another selection at a place of a sequence of them.
LEMMA PutIs ==
    ASSUME NEW s, IsSeq(s), NEW i \in 1..Len(s), NEW v
    PROVE  LET t == [s EXCEPT ![i] = v] IN
           IsSeq(t) /\ Len(t) = Len(s) /\ t[i] = v /\ \A j \in 1..Len(s) : j # i => t[j] = s[j]
<1>1. DOMAIN s = 1..Len(s)
  BY DEF IsSeq
<1> QED
  BY <1>1, PutIsSeq

\* One step after another.
LEMMA FollowsThen ==
    ASSUME NEW s, NEW t, NEW u, Follows(s, t), Follows(t, u)
    PROVE  Follows(s, u)
  BY DEF Follows, AsChosen

\* The selections as they are.
LEMMA AfterNothing ==
    ASSUME SelsOK
    PROVE  After(sels, slots)
  BY DEF SelsOK, After, Follows

\* Selection s, which is the i-th, may be changed within its slot, or was.
Movable(s, i, d) ==
    \/ ~AsChosen(s)
    \/ \A p \in Packages : \A k \in DOMAIN d[p] : d[p][k].sel = i => d[p][k].slot # NoSlot

\* Packages keep their selections when one becomes another.
LEMMA PutFiled ==
    ASSUME NEW d, NEW n, FiledIn(d, n), NEW ss, IsSeq(ss), Len(ss) = n, NEW R,
           FiledRight(ss, d, R), NEW i \in 1..n, NEW t, t.pkg = ss[i].pkg, t.by = ss[i].by,
           AsChosen(t) \/ Movable(ss[i], i, d)
    PROVE  FiledRight([ss EXCEPT ![i] = t], d, R)
<1> DEFINE tt == [ss EXCEPT ![i] = t]
<1>1. tt[i] = t /\ \A j \in 1..n : j # i => tt[j] = ss[j]
  BY PutIs
<1> HIDE DEF tt
<1>2. \A p \in Packages : \A k \in DOMAIN d[p] : d[p][k].sel \in 1..n
  <2> TAKE p \in Packages
  <2>1. PICK X : d \in [Packages -> Seq([slot : X, sel : 1..n])]
    BY DEF FiledIn
  <2> DEFINE C == [slot : X, sel : 1..n]
  <2>2. \A c \in C : c.sel \in 1..n
    OBVIOUS
  <2>3. d[p] \in Seq(C)
    BY <2>1
  <2> HIDE DEF C
  <2>4. \A k \in DOMAIN d[p] : d[p][k] \in C
    BY <2>3, ElementOfSeq, LenProperties
  <2> QED
    BY <2>2, <2>4
<1>3. \A j \in 1..n : tt[j].pkg = ss[j].pkg
  BY <1>1
<1>4. ASSUME NEW p \in Packages, NEW k \in DOMAIN d[p]
      PROVE  Keyed(d[p][k].slot, tt[d[p][k].sel], R)
  <2>1. PICK j \in 1..n : j = d[p][k].sel
    BY <1>2
  <2>2. Keyed(d[p][k].slot, ss[j], R)
    BY <2>1 DEF FiledRight
  <2>3. CASE j = i
    <3>1. AsChosen(t) \/ ~AsChosen(ss[i]) \/ d[p][k].slot # NoSlot
      BY <2>1, <2>3 DEF Movable
    <3> QED
      BY <1>1, <2>1, <2>2, <2>3, <3>1 DEF Keyed
  <2>4. CASE j # i
    BY <1>1, <2>1, <2>2, <2>4
  <2> QED
    BY <2>3, <2>4
<1>5. FiledRight(tt, d, R)
  BY <1>2, <1>3, <1>4 DEF FiledRight
<1> QED
  BY <1>5 DEF tt

\* One selection becomes t, with which the request raises or its flags are kept.
LEMMA PutAnswers ==
    ASSUME NEW a, NEW ss, NEW d, After(ss, d), IsSeq(ss), FiledIn(d, Len(ss)),
           FlagsIn(sels) => FlagsIn(ss),
           NEW got \in 1..Len(ss), NEW t, NEW how, NEW newTree,
           SelectionOK(t), Follows(ss[got], t), ss[got].dirty => t.dirty,
           AsChosen(t) \/ Movable(ss[got], got, d),
           how # "raise" /\ FlagsKept(ss[got]) /\ AsChosen(t) => FlagsKept(t),
           how = "ok" => OtherVersion(a) \/ Serves(t, a)
    PROVE  Answers(a, Answer(how, got, [ss EXCEPT ![got] = t], newTree, d))
<1> DEFINE tt == [ss EXCEPT ![got] = t]
           n == Len(ss)
<1>1. IsSeq(tt) /\ Len(tt) = n /\ tt[got] = t /\ \A j \in 1..n : j # got => tt[j] = ss[j]
  BY PutIs
<1>2. FiledRight(tt, d, read)
  BY PutFiled DEF After, Follows
<1> HIDE DEF tt
<1>3. After(tt, d)
  <2>1. ASSUME NEW i \in 1..n
        PROVE  SelectionOK(tt[i]) /\ (i \in 1..Len(sels) \/ tt[i].dirty)
    BY <1>1 DEF After
  <2>2. ASSUME NEW i \in 1..Len(sels)
        PROVE  i \in 1..n /\ Follows(sels[i], tt[i]) /\ (sels[i].dirty => tt[i].dirty)
    <3>1. i \in 1..n /\ Follows(sels[i], ss[i]) /\ (sels[i].dirty => ss[i].dirty)
      BY DEF After
    <3>2. CASE i = got
      BY <1>1, <3>1, <3>2, FollowsThen
    <3>3. CASE i # got
      BY <1>1, <3>1, <3>3
    <3> QED
      BY <3>2, <3>3
  <2> QED
    BY <1>1, <1>2, <2>1, <2>2 DEF After
<1>4. ASSUME how # "raise", FlagsIn(sels)
      PROVE  FlagsIn(tt)
  <2>1. FlagsIn(ss)
    BY <1>4
  <2>2. ASSUME NEW i \in 1..n, AsChosen(tt[i]) PROVE FlagsKept(tt[i])
    <3>1. CASE i = got
      <4>1. AsChosen(ss[got])
        BY <1>1, <2>2, <3>1 DEF Follows, AsChosen
      <4> QED
        BY <1>1, <1>4, <2>1, <2>2, <3>1, <4>1 DEF FlagsIn
    <3>2. CASE i # got
      BY <1>1, <2>1, <2>2, <3>2 DEF FlagsIn
    <3> QED
      BY <3>1, <3>2
  <2> QED
    BY <1>1, <2>2 DEF FlagsIn
<1>5. how = "ok" => OtherVersion(a) \/ (got # 0 /\ Serves(tt[got], a))
  <2>1. got # 0
    OBVIOUS
  <2> QED
    BY <1>1, <2>1
<1> DEFINE u == Answer(how, got, tt, newTree, d)
<1>6. u.how = how /\ u.got = got /\ u.sels = tt /\ u.slots = d
  BY DEF Answer
<1> HIDE DEF u
<1>7. Answers(a, u)
  BY <1>3, <1>4, <1>5, <1>6 DEF Answers
<1> QED
  BY <1>7 DEF u, tt

\* The package has a selection, and none that the atom matches.  Unless the
\* first was made for another version, it was changed from the newest ebuild to
\* the second, and the atom, whose ebuild is the newest, changes it again.
LEMMA OtherIs ==
    ASSUME ObjectsOK, SelsOK, NEW a, IsAtom(a), Choice(a) \in {"change", "nothing"},
           ~OtherVersion(a)
    PROVE  /\ Choice(a) = "change" /\ First(SameSlot(a)) = 1
           /\ sels[slots[a.pkg][1].sel].by.chosen = Listing[a.pkg][1]
<1>1. /\ a.pkg \in Packages /\ a.chosen # NoEbuild /\ slots[a.pkg] # <<>>
      /\ MatchingSlots(a) = {} /\ (Choice(a) = "nothing" => a.chosen \notin read)
  BY ChoiceCases
<1>2. PICK X : slots \in [Packages -> Seq([slot : X, sel : 1..Len(tree)])]
  BY DEF ObjectsOK, FiledIn
<1> DEFINE C == [slot : X, sel : 1..Len(tree)]
<1> HIDE DEF C
<1>3. slots[a.pkg] \in Seq(C)
  BY <1>1, <1>2 DEF C
<1>4. 1 \in DOMAIN slots[a.pkg] /\ \A k \in DOMAIN slots[a.pkg] : k \in Nat /\ 1 <= k
  BY <1>1, <1>3, LenProperties, EmptySeq
<1>5. PICK g \in 1..Len(sels) : g = slots[a.pkg][1].sel
  BY <1>1, <1>4, FiledSelection DEF ObjectsOK
<1>6. PICK s, slot, all : s = sels[g] /\ slot = slots[a.pkg][1].slot /\ all = Listing[a.pkg]
  OBVIOUS
<1>7. s.pkg = a.pkg /\ Keyed(slot, s, read) /\ SelectionOK(s)
  BY <1>1, <1>4, <1>5, <1>6 DEF SelsOK, FiledRight
<1>8. s.ebuild \notin a.matches /\ s.by.chosen \in a.matches
  BY <1>1, <1>4, <1>5, <1>6 DEF MatchingSlots, OtherVersion
<1>9. /\ ~AsChosen(s) /\ Len(all) \in Nat /\ DOMAIN all = 1..Len(all) /\ Len(all) >= 2
      /\ s.ebuild = all[2] /\ all[2] \in s.by.matches
  BY <1>1, <1>6, <1>7, <1>8, ListingsAreSequences
     DEF SelectionOK, IsSecond, AsChosen, IsSequence
<1>10. s.by.chosen = all[1]
  <2>1. PICK i \in 1..Len(all) :
          s.by.chosen = all[i] /\ \A j \in 1..(i - 1) : all[j] \notin s.by.matches
    BY <1>1, <1>6, <1>7, <1>9 DEF SelectionOK, IsAtom
  <2>2. i # 2
    BY <1>9, <2>1 DEF AsChosen
  <2>3. ~(2 \in 1..(i - 1))
    BY <1>9, <2>1
  <2>4. i = 1
    BY <1>9, <2>2, <2>3
  <2> QED
    BY <2>1, <2>4
<1>11. a.chosen = all[1]
  <2>1. PICK i \in 1..Len(all) :
          a.chosen = all[i] /\ \A j \in 1..(i - 1) : all[j] \notin a.matches
    BY <1>1, <1>6, <1>9 DEF IsAtom
  <2>2. ~(1 \in 1..(i - 1))
    BY <1>8, <1>10, <2>1
  <2>3. i = 1
    BY <1>9, <2>2
  <2> QED
    BY <2>1, <2>3
<1>12. a.chosen \in read /\ slot = SlotOf[a.chosen]
  BY <1>7, <1>9, <1>10, <1>11 DEF Keyed
<1>13. 1 \in SameSlot(a)
  BY <1>4, <1>6, <1>12 DEF SameSlot
<1>14. First(SameSlot(a)) = 1
  <2> DEFINE S == SameSlot(a)
  <2>1. S \subseteq Nat /\ 1 \in S /\ \A k \in S : 1 <= k
    BY <1>4, <1>13 DEF SameSlot
  <2> HIDE DEF S
  <2>2. First(S) \in S /\ First(S) <= 1
    BY <2>1, FirstIsIn
  <2>3. PICK n \in Nat : n = First(S)
    BY <2>1, <2>2
  <2>4. 1 <= n /\ n <= 1
    BY <2>1, <2>2, <2>3
  <2>5. First(S) = 1
    BY <2>3, <2>4
  <2> QED
    BY <2>5 DEF S
<1> QED
  BY <1>1, <1>5, <1>6, <1>10, <1>12, <1>14

\* An exception, or no selection.
LEMMA FailsAnswers ==
    ASSUME SelsOK, NEW a, NEW how, how = "ok" => OtherVersion(a)
    PROVE  Answers(a, Fails(how))
<1>1. After(sels, slots)
  BY AfterNothing
<1> QED
  BY <1>1 DEF Answers, Fails, Answer

\* What each choice of resolve_single answers, first with a slot that matches.
LEMMA KeepAnswers ==
    ASSUME ObjectsOK, SelsOK, NEW a, Choice(a) = "keep"
    PROVE  Answers(a, Answer("ok", slots[a.pkg][First(MatchingSlots(a))].sel, sels, tree, slots))
<1> DEFINE k == First(MatchingSlots(a))
           got == slots[a.pkg][k].sel
<1>1. a.pkg \in Packages /\ MatchingSlots(a) # {} /\ MatchingSlots(a) \subseteq DOMAIN slots[a.pkg]
  BY ChoiceCases DEF MatchingSlots
<1>2. k \in MatchingSlots(a)
  BY <1>1, SlotsDomain, FirstIsIn
<1> HIDE DEF k
<1>3. got \in 1..Len(tree) /\ sels[got].pkg = a.pkg /\ sels[got].ebuild \in a.matches
  BY <1>1, <1>2, FiledSelection DEF MatchingSlots, SelsOK, FiledRight
<1> HIDE DEF got
<1>4. After(sels, slots)
  BY AfterNothing
<1>5. got # 0 /\ Serves(sels[got], a)
  BY <1>3 DEF Serves
<1>6. Answers(a, Answer("ok", got, sels, tree, slots))
  BY <1>4, <1>5 DEF Answers, Answer
<1> QED
  BY <1>6 DEF got, k

\* A new selection is in order, and no flag is required of it.
LEMMA NewSelection ==
    ASSUME NEW a, IsAtom(a), a.pkg \in Packages, a.chosen # NoEbuild
    PROVE  LET s == Selection(a) IN
           /\ SelectionOK(s) /\ s.dirty /\ FlagsKept(s) /\ Serves(s, a) /\ s.pkg = a.pkg
           /\ s.by = a /\ AsChosen(s)
<1> DEFINE s == Selection(a)
<1>1. /\ s.pkg = a.pkg /\ s.ebuild = a.chosen /\ s.by = a /\ s.dirty = TRUE
      /\ s.queue = <<>> /\ s.hooks = <<>> /\ s.global = <<>> /\ Fields \subseteq DOMAIN s
  BY DEF Selection, Fields
<1> HIDE DEF s
<1>2. a.chosen \in a.matches /\ a.chosen \in Ebuilds
  BY DEF IsAtom
<1>3. IsSeq(<<>>) /\ DOMAIN <<>> = {}
  BY DEF IsSeq
<1>4. SelectionOK(s)
  BY <1>1, <1>2, <1>3 DEF SelectionOK, IsSelection, AsChosen
<1>5. FlagsKept(s)
  BY <1>1, <1>3 DEF FlagsKept
<1>6. Serves(s, a)
  BY <1>1, <1>2 DEF Serves
<1> QED
  BY <1>1, <1>4, <1>5, <1>6 DEF s, AsChosen

\* With a new selection.
LEMMA AddAnswers ==
    ASSUME ObjectsOK, SelsOK, NEW a, IsAtom(a), Choice(a) = "add"
    PROVE  Answers(a, Answer("ok", Len(sels) + 1, Append(sels, Selection(a)), Append(tree, NoTree),
                             [slots EXCEPT ![a.pkg] =
                                 Append(@, [slot |-> SlotNow(a.chosen), sel |-> Len(sels) + 1])]))
<1> DEFINE n == Len(sels)
           s == Selection(a)
           ss == Append(sels, s)
           item == [slot |-> SlotNow(a.chosen), sel |-> n + 1]
           d == [slots EXCEPT ![a.pkg] = Append(@, item)]
           u == Answer("ok", n + 1, ss, Append(tree, NoTree), d)
<1>1. a.pkg \in Packages /\ a.chosen # NoEbuild
  BY ChoiceCases
<1>2. /\ SelectionOK(s) /\ s.dirty /\ FlagsKept(s) /\ Serves(s, a) /\ s.pkg = a.pkg
      /\ s.by = a /\ AsChosen(s)
  BY <1>1, NewSelection
<1> HIDE DEF s
<1>3. n \in Nat /\ Len(tree) = n
  BY DEF ObjectsOK, IsSeq
<1>4. Len(ss) = n + 1 /\ ss[n + 1] = s /\ \A i \in 1..n : ss[i] = sels[i]
  BY AppendProperties DEF ObjectsOK, IsSeq
<1>5. u.how = "ok" /\ u.got = n + 1 /\ u.sels = ss /\ u.slots = d
  BY DEF Answer
<1>6. item.sel = n + 1 /\ Keyed(item.slot, s, read)
  BY <1>2 DEF Keyed, SlotNow
<1> HIDE DEF n, ss, item, u
<1>7. \A i \in 1..(n + 1) : i \in 1..n \/ i = n + 1
  BY <1>3
<1>8. /\ \A i \in 1..(n + 1) : SelectionOK(ss[i]) /\ (i \in 1..n \/ ss[i].dirty)
      /\ \A i \in 1..n : i \in 1..(n + 1) /\ Follows(sels[i], ss[i]) /\ (sels[i].dirty => ss[i].dirty)
  BY <1>2, <1>3, <1>4, <1>7 DEF SelsOK, Follows, n
<1>9. /\ \A p \in Packages : \A k \in DOMAIN slots[p] : k \in DOMAIN d[p] /\ d[p][k] = slots[p][k]
      /\ \A p \in Packages : \A k \in DOMAIN d[p] :
           \/ k \in DOMAIN slots[p] /\ d[p][k] = slots[p][k]
           \/ p = a.pkg /\ d[p][k] = item /\ k = Len(slots[p]) + 1
  <2>1. PICK X : slots \in [Packages -> Seq([slot : X, sel : 1..Len(tree)])]
    BY DEF ObjectsOK, FiledIn
  <2>2. \A p \in Packages : slots[p] \in Seq([slot : X, sel : 1..Len(tree)])
    BY <2>1
  <2>3. \A p \in Packages : IsSeq(slots[p])
    BY <2>2 DEF IsSeq
  <2>4. DOMAIN slots = Packages
    BY <2>1
  <2>5. d[a.pkg] = Append(slots[a.pkg], item) /\ \A p \in Packages : p # a.pkg => d[p] = slots[p]
    BY <1>1, <2>4
  <2> HIDE DEF d
  <2>6. \A k \in DOMAIN slots[a.pkg] : k \in DOMAIN d[a.pkg] /\ d[a.pkg][k] = slots[a.pkg][k]
    <3>1. PICK S : slots[a.pkg] \in Seq(S)
      BY <1>1, <2>3 DEF IsSeq
    <3>2. slots[a.pkg] \in Seq(S \cup {item})
      BY <3>1
    <3> QED
      BY <2>5, <3>2, AppendProperties
  <2>7. \A k \in DOMAIN d[a.pkg] :
          \/ k \in DOMAIN slots[a.pkg] /\ d[a.pkg][k] = slots[a.pkg][k]
          \/ d[a.pkg][k] = item /\ k = Len(slots[a.pkg]) + 1
    <3> TAKE k \in DOMAIN d[a.pkg]
    <3>1. k \in DOMAIN slots[a.pkg] \/ k = Len(slots[a.pkg]) + 1
      BY <1>1, <2>3, <2>5, AppendAt
    <3>2. (k \in DOMAIN slots[a.pkg] /\ d[a.pkg][k] = slots[a.pkg][k]) \/ d[a.pkg][k] = item
      BY <1>1, <2>3, <2>5, AppendHas
    <3> QED
      BY <2>6, <3>1, <3>2
  <2> QED
    BY <2>5, <2>6, <2>7
<1> HIDE DEF d
<1>10. FiledRight(ss, d, read)
  <2>1. \A p \in Packages : \A k \in DOMAIN slots[p] : slots[p][k].sel \in 1..n
    BY <1>3, FiledSelection
  <2>2. ASSUME NEW p \in Packages, NEW k \in DOMAIN d[p]
        PROVE  ss[d[p][k].sel].pkg = p /\ Keyed(d[p][k].slot, ss[d[p][k].sel], read)
    <3>1. CASE k \in DOMAIN slots[p] /\ d[p][k] = slots[p][k]
      <4>1. ss[slots[p][k].sel] = sels[slots[p][k].sel]
        BY <1>4, <2>1, <3>1
      <4> QED
        BY <3>1, <4>1 DEF SelsOK, FiledRight
    <3>2. CASE p = a.pkg /\ d[p][k] = item
      BY <1>2, <1>4, <1>6, <3>2
    <3> QED
      BY <1>9, <3>1, <3>2
  <2>3. ASSUME NEW p \in Packages, NEW k \in DOMAIN d[p], NEW l \in DOMAIN d[p],
               d[p][k].sel = d[p][l].sel
        PROVE  k = l
    <3>1. ~(n + 1 \in 1..n)
      BY <1>3
    <3>2. CASE k \in DOMAIN slots[p] /\ d[p][k] = slots[p][k]
      <4>1. d[p][l].sel # n + 1
        BY <2>1, <2>3, <3>1, <3>2
      <4>2. l \in DOMAIN slots[p] /\ d[p][l] = slots[p][l]
        BY <1>6, <1>9, <4>1
      <4> QED
        BY <2>3, <3>2, <4>2 DEF SelsOK, FiledRight
    <3>3. CASE d[p][k] = item /\ k = Len(slots[p]) + 1
      <4>1. d[p][l].sel = n + 1
        BY <1>6, <2>3, <3>3
      <4>2. l = Len(slots[p]) + 1
        BY <1>9, <2>1, <3>1, <4>1
      <4> QED
        BY <3>3, <4>2
    <3> QED
      BY <1>9, <3>2, <3>3
  <2> QED
    BY <2>2, <2>3 DEF FiledRight
<1>11. After(ss, d)
  BY <1>4, <1>8, <1>9, <1>10 DEF After, n
<1>12. FlagsIn(sels) => FlagsIn(ss)
  BY <1>2, <1>4, <1>7 DEF FlagsIn, n
<1>13. n + 1 # 0 /\ Serves(ss[n + 1], a)
  BY <1>2, <1>3, <1>4
<1>14. Answers(a, u)
  BY <1>5, <1>11, <1>12, <1>13 DEF Answers
<1> QED
  BY <1>14 DEF u, d, item, ss, s, n

\* A selection that change_within_slot changes.
LEMMA ChangedFollows ==
    ASSUME NEW s, SelectionOK(s), Change(s) = "change"
    PROVE  LET t == Changed(s) IN
           /\ SelectionOK(t) /\ Follows(s, t) /\ t.dirty
           /\ FlagsKept(s) /\ AsChosen(t) => FlagsKept(t)
           /\ t.ebuild = Listing[s.pkg][2] /\ 2 \in DOMAIN Listing[s.pkg]
<1> DEFINE t == Changed(s)
           new == Listing[s.pkg][2]
<1>1. /\ new \in Ebuilds /\ Len(Listing[s.pkg]) >= 2 /\ new \in s.by.matches
      /\ 2 \in DOMAIN Listing[s.pkg]
  <2>1. IsSequence(Listing[s.pkg]) /\ s.pkg \in Packages
    BY ListingsAreSequences DEF SelectionOK
  <2>2. Len(Listing[s.pkg]) >= 2
    BY <2>1 DEF Change, IsSequence
  <2>3. 2 \in DOMAIN Listing[s.pkg]
    BY <2>1, <2>2 DEF IsSequence
  <2>4. new \in s.by.matches
    BY <2>1, <2>2 DEF Change
  <2> QED
    BY <2>1, <2>2, <2>3, <2>4 DEF Ebuilds
<1>2. /\ IsSelection(t) /\ t.ebuild = new /\ t.dirty = TRUE /\ t.pkg = s.pkg /\ t.by = s.by
      /\ t.use = s.use /\ t.hooks = s.hooks /\ t.global = s.global
  BY DEF Changed, SelectionOK, IsSelection, Fields
<1> HIDE DEF t
<1>3. AsChosen(t) => t.ebuild = s.ebuild
  BY <1>2 DEF AsChosen, SelectionOK, IsSecond
<1>4. SelectionOK(t) /\ Follows(s, t)
  BY <1>1, <1>2, <1>3 DEF SelectionOK, Follows, IsSecond
<1>5. ASSUME FlagsKept(s), AsChosen(t)
      PROVE  FlagsKept(t)
  <2>1. t.ebuild = s.ebuild
    BY <1>3, <1>5
  <2>2. \A f : HasUse(s, f) => HasUse(t, f) /\ UseState(t, f) = UseState(s, f)
    BY <1>2, <2>1 DEF HasUse, UseState
  <2> QED
    BY <1>2, <1>5, <2>2, FlagsStay
<1> QED
  BY <1>1, <1>2, <1>4, <1>5 DEF t

\* With the slot's selection changed to another ebuild.
LEMMA ChangeAnswers ==
    ASSUME ObjectsOK, SelsOK, NEW a, IsAtom(a), Choice(a) = "change",
           Change(sels[slots[a.pkg][First(SameSlot(a))].sel]) = "change"
    PROVE  LET same == slots[a.pkg][First(SameSlot(a))].sel IN
           Answers(a, Answer("ok", same, [sels EXCEPT ![same] = Changed(@)], tree, slots))
<1> DEFINE k == First(SameSlot(a))
           same == slots[a.pkg][k].sel
           t == Changed(sels[same])
<1>1. /\ a.pkg \in Packages /\ a.chosen # NoEbuild
      /\ SameSlot(a) # {} /\ SameSlot(a) \subseteq DOMAIN slots[a.pkg]
  BY ChoiceCases DEF SameSlot
<1>2. k \in SameSlot(a) /\ k \in DOMAIN slots[a.pkg]
  BY <1>1, SlotsDomain, FirstIsIn
<1>3. slots[a.pkg][k].slot = SlotOf[a.chosen] /\ SlotOf[a.chosen] # NoSlot
  BY <1>1, <1>2, SlotsAreNames DEF SameSlot, IsAtom
<1>4. Change(sels[same]) = "change" /\ (~OtherVersion(a) => k = 1)
  BY OtherIs
<1>5. ~OtherVersion(a) => sels[same].by.chosen = Listing[a.pkg][1]
  BY <1>4, OtherIs
<1> HIDE DEF k
<1>6. same \in 1..Len(tree)
  BY <1>1, <1>2, FiledSelection
<1>7. Movable(sels[same], same, slots)
  <2>1. ASSUME NEW p \in Packages, NEW l \in DOMAIN slots[p], slots[p][l].sel = same
        PROVE  slots[p][l].slot # NoSlot
    <3>1. p = a.pkg
      BY <1>1, <1>2, <2>1 DEF SelsOK, FiledRight
    <3>2. l = k
      BY <1>1, <1>2, <2>1, <3>1 DEF SelsOK, FiledRight
    <3> QED
      BY <1>3, <3>1, <3>2
  <2> QED
    BY <2>1 DEF Movable
<1>8. sels[same].pkg = a.pkg
  BY <1>1, <1>2 DEF SelsOK, FiledRight
<1> HIDE DEF same
<1>9. same \in 1..Len(sels) /\ SelectionOK(sels[same]) /\ Len(tree) = Len(sels)
  BY <1>6 DEF ObjectsOK, SelsOK
<1>10. /\ SelectionOK(t) /\ Follows(sels[same], t) /\ t.dirty
       /\ FlagsKept(sels[same]) /\ AsChosen(t) => FlagsKept(t)
       /\ t.ebuild = Listing[a.pkg][2] /\ 2 \in DOMAIN Listing[a.pkg]
  BY <1>4, <1>8, <1>9, ChangedFollows
<1> HIDE DEF t
<1>11. OtherVersion(a) \/ Serves(t, a)
  <2>1. ASSUME ~OtherVersion(a)
        PROVE  ~AsChosen(t) /\ t.pkg = a.pkg
    <3>1. t.by.chosen = Listing[a.pkg][1] /\ t.pkg = a.pkg
      BY <1>5, <1>8, <1>10, <2>1 DEF Follows
    <3>2. 1 \in DOMAIN Listing[a.pkg]
      BY <1>1, <1>10, ListingsAreSequences DEF IsSequence
    <3>3. Listing[a.pkg][1] # Listing[a.pkg][2]
      BY <1>1, <1>10, <3>2, EveryEbuildOnce
    <3> QED
      BY <1>10, <3>1, <3>3 DEF AsChosen
  <2> QED
    BY <2>1 DEF Serves
<1>12. After(sels, slots) /\ IsSeq(sels) /\ FiledIn(slots, Len(sels))
  BY <1>9, AfterNothing DEF ObjectsOK
<1>13. Answers(a, Answer("ok", same, [sels EXCEPT ![same] = t], tree, slots))
  BY <1>7, <1>9, <1>10, <1>11, <1>12, PutAnswers
<1>14. [sels EXCEPT ![same] = Changed(@)] = [sels EXCEPT ![same] = t]
  BY DEF t
<1> QED
  BY <1>13, <1>14 DEF same, k

\* Whatever the choice.
LEMMA SelectedAnswers ==
    ASSUME ObjectsOK, SelsOK, NEW a, IsAtom(a)
    PROVE  Answers(a, Selected(a))
<1>1. CASE Choice(a) = "keep"
  <2>1. Selected(a) = Answer("ok", slots[a.pkg][First(MatchingSlots(a))].sel, sels, tree, slots)
    BY <1>1, Zenon DEF Selected
  <2> QED
    BY <1>1, <2>1, KeepAnswers
<1>2. CASE Choice(a) = "add"
  <2>1. Selected(a) =
          Answer("ok", Len(sels) + 1, Append(sels, Selection(a)), Append(tree, NoTree),
                 [slots EXCEPT ![a.pkg] =
                     Append(@, [slot |-> SlotNow(a.chosen), sel |-> Len(sels) + 1])])
    BY <1>2, Zenon DEF Selected
  <2> QED
    BY <1>2, <2>1, AddAnswers
<1>3. CASE Choice(a) = "change"
  <2> DEFINE same == slots[a.pkg][First(SameSlot(a))].sel
  <2>1. CASE Change(sels[same]) = "change"
    <3>1. Selected(a) = Answer("ok", same, [sels EXCEPT ![same] = Changed(@)], tree, slots)
      BY <1>3, <2>1, Zenon DEF Selected
    <3> QED
      BY <1>3, <2>1, <3>1, ChangeAnswers
  <2>2. CASE Change(sels[same]) # "change"
    <3>1. Selected(a) = Fails("hang") \/ Selected(a) = Fails("raise")
      BY <1>3, <2>2, Zenon DEF Selected
    <3> QED
      BY <3>1, FailsAnswers
  <2> QED
    BY <2>1, <2>2
<1>4. CASE Choice(a) = "nothing"
  <2>1. Selected(a) = Fails("ok") \/ Selected(a) = Fails("raise")
    BY <1>4, Zenon DEF Selected
  <2>2. OtherVersion(a)
    <3>1. ~OtherVersion(a) => Choice(a) = "change"
      BY <1>4, OtherIs
    <3> QED
      BY <1>4, <3>1
  <2> QED
    BY <2>1, <2>2, FailsAnswers
<1>5. CASE Choice(a) \notin {"keep", "add", "change", "nothing"}
  <2>1. Selected(a) = Fails("raise")
    BY <1>5, Zenon DEF Selected
  <2> QED
    BY <2>1, FailsAnswers
<1> QED
  BY <1>1, <1>2, <1>3, <1>4, <1>5

\* Whatever resolve_single does for an atom.
LEMMA ResolvedAnswers ==
    ASSUME ObjectsOK, SelsOK, NEW a, IsAtom(a)
    PROVE  Answers(a, Resolved(a))
<1> DEFINE r == Selected(a)
           used == ApplyUses(r.sels[r.got], a.use)
           how == IF used.ok THEN "ok" ELSE "raise"
<1>1. Answers(a, r) /\ Sound(r)
  BY SelectedAnswers, SelectedIsSound
<1>2. CASE r.got = 0
  BY <1>1, <1>2 DEF Resolved
<1>3. CASE r.got # 0
  <2>1. Resolved(a) = Answer(how, r.got, [r.sels EXCEPT ![r.got] = used.sel], r.tree, r.slots)
    BY <1>3, Zenon DEF Resolved
  <2>2. r.how = "ok"
    <3>1. \A x : Fails(x).got = 0
      BY DEF Fails, Answer
    <3>2. \/ \E g, ss, t, d : r = Answer("ok", g, ss, t, d)
          \/ \E x : r = Fails(x)
      BY Zenon DEF Selected
    <3> HIDE DEF r
    <3> QED
      BY <1>3, <3>1, <3>2 DEF Answer
  <2> HIDE DEF r
  <2>3. Len(a.use) \in Nat
    BY DEF IsAtom, IsSequence
  <2>4. r.got \in 1..Len(r.sels) /\ SelectionOK(r.sels[r.got])
    <3>1. Len(r.tree) \in Nat
      BY <1>1, GrownTree DEF Sound, ObjectsOK
    <3> QED
      BY <1>1, <1>3, <3>1 DEF Sound, Answers, After
  <2>5. Applied(r.sels[r.got], used)
    BY <2>3, <2>4, ApplyUsesKeeps DEF SelectionOK
  <2>6. used.ok \/ how = "raise"
    OBVIOUS
  <2> HIDE DEF used, how
  <2>7. /\ SelectionOK(used.sel) /\ Follows(r.sels[r.got], used.sel)
        /\ AsChosen(used.sel) \/ ~AsChosen(r.sels[r.got])
        /\ r.sels[r.got].dirty => used.sel.dirty
        /\ how # "raise" /\ FlagsKept(r.sels[r.got]) => FlagsKept(used.sel)
    BY <2>4, <2>5, <2>6 DEF Applied, Reflagged, SelectionOK, Follows, AsChosen, IsSecond
  <2>8. IsSeq(r.sels) /\ FiledIn(r.slots, Len(r.sels))
    BY <1>1 DEF Sound
  <2>9. PICK ss, d, got, t : ss = r.sels /\ d = r.slots /\ got = r.got /\ t = used.sel
    OBVIOUS
  <2>10. /\ After(ss, d) /\ IsSeq(ss) /\ FiledIn(d, Len(ss)) /\ (FlagsIn(sels) => FlagsIn(ss))
         /\ got \in 1..Len(ss)
         /\ AsChosen(t) \/ Movable(ss[got], got, d)
    BY <1>1, <2>2, <2>4, <2>7, <2>8, <2>9 DEF Answers, Movable
  <2>11. OtherVersion(a) \/ Serves(t, a)
    <3>1. OtherVersion(a) \/ Serves(ss[got], a)
      BY <1>1, <2>2, <2>9 DEF Answers
    <3> QED
      BY <2>7, <2>9, <3>1 DEF Serves, Follows, AsChosen
  <2>12. Answers(a, Answer(how, got, [ss EXCEPT ![got] = t], r.tree, d))
    BY <2>7, <2>9, <2>10, <2>11, PutAnswers
  <2> QED
    BY <2>1, <2>9, <2>12 DEF r
<1> QED
  BY <1>2, <1>3

----------------------------------------------------------------------------
(* The dependencies that are met *)

DepMet(i, d) == d.kind = "atom" /\ ~d.atom.blocks => Met(i, d.atom) \/ OtherVersion(d.atom)

\* The generators of i meet the first n dependencies of ebuild e.
MetUpTo(i, e, n) == \A k \in 1..n : DepMet(i, deps[e][k])

AllMet(i) ==
    AsChosen(sels[i]) => MetUpTo(i, sels[i].ebuild, Len(deps[sels[i].ebuild]))

\* The generators of i are those of its ebuild: it is clean, or the calls of
\* its regenerate have come to the children or returned.
Generated(i) ==
    \/ ~sels[i].dirty
    \/ i \in session /\ \A k \in 1..Depth : stack[k].sel = i => stack[k].phase = "children"

\* A call that goes through the dependencies has met those it came by, as long
\* as the ebuild of its selection is as it was chosen.
TurnOf(f) ==
    /\ f.phase = "flush" => f.at = 1
    /\ f.phase \in {"flush", "deps"} => sels[f.sel].dirty
    /\ f.phase = "deps" =>
         /\ f.ebuild \in Ebuilds
         /\ f.at <= Len(deps[f.ebuild]) + 1
         /\ AsChosen(sels[f.sel]) => f.ebuild = sels[f.sel].ebuild
         /\ ~raised /\ AsChosen(sels[f.sel]) => MetUpTo(f.sel, f.ebuild, f.at - 1)

ResolvedIn(t) == \A i \in 1..Len(t) : \A k \in 1..Len(t[i].resolved) : t[i].resolved[k] \in 1..Len(t)

ResultsOK ==
    /\ deps \in Repositories /\ read \subseteq Ebuilds
    /\ ResolvedIn(tree)
    /\ status \in {"idle", "running", "hung"} /\ returned \in 0..Len(tree)

FlagsOK == ~raised => FlagsIn(sels)

GeneratorsOK == ~raised => \A i \in 1..Len(sels) : Generated(i) => AllMet(i)

TurnOK == \A k \in 1..Depth : TurnOf(stack[k])

SelectionInv ==
    ResolverInv /\ SelsOK /\ ResultsOK /\ FlagsOK /\ GeneratorsOK /\ TurnOK

\* The selections and slots after a step of the same Emerge.
Later ==
    /\ deps' = deps
    /\ \A i \in 1..Len(sels) : i \in 1..Len(sels') /\ Follows(sels[i], sels'[i])
    /\ \A p \in Packages : \A k \in DOMAIN slots[p] :
         k \in DOMAIN slots'[p] /\ slots'[p][k] = slots[p][k]

\* The generators of i after a step that adds to them at most.
GensLater(i) ==
    \A k \in 1..Len(tree[i].gens) :
        k \in 1..Len(tree'[i].gens) /\ tree'[i].gens[k] = tree[i].gens[k]

DirtyStays(i) == sels[i].dirty => sels'[i].dirty

\* Generators are a sequence of selections.
LEMMA GensAre ==
    ASSUME NEW t, GensIn(t), NEW i \in 1..Len(t)
    PROVE  /\ t[i] \in Node /\ DOMAIN t[i].gens = 1..Len(t[i].gens)
           /\ \A k \in 1..Len(t[i].gens) : t[i].gens[k] \in 1..Len(t)
<1>1. t[i] \in Node
  BY ElementOfSeq DEF GensIn
<1>2. t[i].gens \in Seq(Nat)
  BY <1>1 DEF Node
<1> QED
  BY <1>1, <1>2, LenProperties DEF GensIn

\* A package that has a selection has a first.
LEMMA SlotsNotEmpty ==
    ASSUME ObjectsOK, NEW p \in Packages, slots[p] # <<>>
    PROVE  1 \in DOMAIN slots[p]
<1>1. PICK X : slots \in [Packages -> Seq([slot : X, sel : 1..Len(tree)])]
  BY DEF ObjectsOK, FiledIn
<1> DEFINE C == [slot : X, sel : 1..Len(tree)]
<1> HIDE DEF C
<1>2. slots[p] \in Seq(C)
  BY <1>1 DEF C
<1> QED
  BY <1>2, LenProperties, EmptySeq

\* A dependency that is met stays so.
LEMMA DepStays ==
    ASSUME ObjectsOK, ObjectsOK', Later, NEW i \in 1..Len(tree), GensLater(i),
           NEW d, DepMet(i, d)
    PROVE  DepMet(i, d)'
<1> SUFFICES ASSUME d.kind = "atom" /\ ~d.atom.blocks
             PROVE  Met(i, d.atom)' \/ OtherVersion(d.atom)'
  BY DEF DepMet
<1>1. Met(i, d.atom) \/ OtherVersion(d.atom)
  BY DEF DepMet
<1>2. Len(tree) = Len(sels) /\ Len(tree') = Len(sels') /\ i \in 1..Len(tree')
  BY DEF ObjectsOK, Later
<1> DEFINE a == d.atom
<1> HIDE DEF a
<1>3. CASE Met(i, a)
  <2>1. PICK k \in DOMAIN tree[i].gens :
          LET g == tree[i].gens[k] IN
          sels[g].pkg = a.pkg /\ (Unchanged(g) => sels[g].ebuild \in a.matches)
    BY <1>3 DEF Met
  <2>2. k \in 1..Len(tree[i].gens) /\ tree[i].gens[k] \in 1..Len(sels)
    BY <1>2, GensAre DEF ObjectsOK
  <2>3. k \in DOMAIN tree'[i].gens /\ tree'[i].gens[k] = tree[i].gens[k]
    BY <1>2, <2>2, GensAre DEF ObjectsOK, GensLater
  <2>4. PICK g \in 1..Len(sels) : g = tree[i].gens[k]
    BY <2>2
  <2>5. sels[g].pkg = a.pkg /\ (sels[g].ebuild = sels[g].by.chosen => sels[g].ebuild \in a.matches)
    BY <2>1, <2>4 DEF Unchanged
  <2>6. sels'[g].pkg = a.pkg /\ (sels'[g].ebuild = sels'[g].by.chosen => sels'[g].ebuild \in a.matches)
    BY <2>5 DEF Later, Follows, AsChosen
  <2> QED
    BY <2>3, <2>4, <2>6 DEF Met, Unchanged, a
<1>4. CASE OtherVersion(a)
  <2>1. /\ a.pkg \in Packages /\ slots[a.pkg] # <<>>
        /\ sels[slots[a.pkg][1].sel].by.chosen \notin a.matches
    BY <1>4 DEF OtherVersion
  <2>2. 1 \in DOMAIN slots[a.pkg]
    BY <2>1, SlotsNotEmpty
  <2>3. PICK g \in 1..Len(sels) : g = slots[a.pkg][1].sel
    BY <1>2, <2>1, <2>2, FiledSelection
  <2>4. 1 \in DOMAIN slots'[a.pkg] /\ slots'[a.pkg][1].sel = g
    BY <2>1, <2>2, <2>3 DEF Later
  <2>5. slots'[a.pkg] # <<>> /\ sels'[g].by.chosen \notin a.matches
    BY <2>1, <2>3, <2>4 DEF Later, Follows
  <2> QED
    BY <2>1, <2>4, <2>5 DEF OtherVersion, a
<1> QED
  BY <1>1, <1>3, <1>4 DEF a

\* What the generators meet they meet when some are added.
LEMMA MetStays ==
    ASSUME ObjectsOK, ObjectsOK', Later, NEW i \in 1..Len(tree), GensLater(i),
           NEW e, NEW n, MetUpTo(i, e, n)
    PROVE  MetUpTo(i, e, n)'
<1> SUFFICES ASSUME NEW k \in 1..n PROVE DepMet(i, deps[e][k])'
  BY DEF MetUpTo
<1>1. PICK d : d = deps[e][k]
  OBVIOUS
<1>2. DepMet(i, d)
  BY <1>1 DEF MetUpTo
<1>3. DepMet(i, d)'
  BY <1>2, DepStays
<1>4. d = deps'[e][k]
  BY <1>1 DEF Later
<1> QED
  BY <1>3, <1>4 DEF DepMet, Met, OtherVersion, Unchanged

\* And all of it, however the selection changed.
LEMMA AllMetStays ==
    ASSUME ObjectsOK, ObjectsOK', Later, NEW i \in 1..Len(tree), GensLater(i), AllMet(i)
    PROVE  AllMet(i)'
<1> SUFFICES ASSUME AsChosen(sels'[i])
             PROVE  MetUpTo(i, sels[i].ebuild, Len(deps[sels[i].ebuild]))'
  BY DEF AllMet
<1>1. i \in 1..Len(sels) /\ Follows(sels[i], sels'[i]) /\ deps' = deps
  BY DEF ObjectsOK, Later
<1>2. PICK e : e = sels[i].ebuild
  OBVIOUS
<1>3. e = sels'[i].ebuild /\ AsChosen(sels[i])
  BY <1>1, <1>2 DEF Follows, AsChosen
<1>4. PICK n : n = Len(deps[e])
  OBVIOUS
<1>5. MetUpTo(i, e, n)
  BY <1>2, <1>3, <1>4 DEF AllMet
<1>6. MetUpTo(i, e, n)'
  BY <1>5, MetStays
<1>7. n = Len(deps'[sels'[i].ebuild]) /\ e = sels'[i].ebuild
  BY <1>1, <1>3, <1>4
<1> QED
  BY <1>6, <1>7

\* A call keeps what it has met while another step runs.
LEMMA TurnStays ==
    ASSUME ObjectsOK, ObjectsOK', Later, raised' = raised, NEW f, f.sel \in 1..Len(tree),
           GensLater(f.sel), DirtyStays(f.sel), TurnOf(f)
    PROVE  TurnOf(f)'
<1>1. PICK i \in 1..Len(tree) : i = f.sel
  OBVIOUS
<1>2. i \in 1..Len(sels) /\ Follows(sels[i], sels'[i]) /\ deps' = deps
  BY DEF ObjectsOK, Later
<1>3. AsChosen(sels'[i]) => AsChosen(sels[i]) /\ sels'[i].ebuild = sels[i].ebuild
  BY <1>2 DEF Follows, AsChosen
<1>4. ASSUME f.phase = "deps", ~raised, AsChosen(sels'[i])
      PROVE  MetUpTo(i, f.ebuild, f.at - 1)'
  <2>1. MetUpTo(i, f.ebuild, f.at - 1)
    BY <1>1, <1>3, <1>4 DEF TurnOf
  <2>2. GensLater(i)
    BY <1>1
  <2> QED
    BY <2>1, <2>2, MetStays
<1>5. f.phase = "flush" => f.at = 1
  BY DEF TurnOf
<1>6. f.phase \in {"flush", "deps"} => sels'[i].dirty
  BY <1>1 DEF TurnOf, DirtyStays
<1>7. f.phase = "deps" =>
        f.ebuild \in Ebuilds /\ f.at <= Len(deps[f.ebuild]) + 1
        /\ (AsChosen(sels[i]) => f.ebuild = sels[i].ebuild)
  BY <1>1 DEF TurnOf
<1>8. f.phase = "deps" =>
        f.ebuild \in Ebuilds /\ f.at <= Len(deps'[f.ebuild]) + 1
        /\ (AsChosen(sels'[i]) => f.ebuild = sels'[i].ebuild)
  BY <1>2, <1>3, <1>7
<1> HIDE DEF MetUpTo, AsChosen, Ebuilds
<1> QED
  BY <1>1, <1>4, <1>5, <1>6, <1>8 DEF TurnOf

----------------------------------------------------------------------------
(* What steps have in common *)

\* Flags that are kept are so when more metadata is read.
LEMMA ReadKeeps ==
    ASSUME read \subseteq read', NEW s, FlagsKept(s)
    PROVE  FlagsKept(s)'
<1>1. \A f : HasUse(s, f) => HasUse(s, f)' /\ UseState(s, f)' = UseState(s, f)
  <2>1. \A f : f \in DOMAIN IUseOf(s.ebuild) => s.ebuild \in read
    BY DEF IUseOf, NoFlags
  <2>2. s.ebuild \in read => IUseOf(s.ebuild)' = IUseOf(s.ebuild)
    BY DEF IUseOf
  <2>3. \A f : f \in DOMAIN IUseOf(s.ebuild) => f \in DOMAIN IUseOf(s.ebuild)'
    BY <2>1, <2>2
  <2> QED
    BY <2>1, <2>2, <2>3 DEF HasUse, UseState
<1>2. ASSUME NEW e, Satisfies(s, e) PROVE Satisfies(s, e)'
  <2>1. \A f \in DOMAIN IUse[e] : HasUse(s, f)
    BY <1>2 DEF Satisfies
  <2>2. {f \in DOMAIN IUse[e] : UseState(s, f)'} = {f \in DOMAIN IUse[e] : UseState(s, f)}
    BY <1>1, <2>1
  <2>3. {f \in DOMAIN IUse[e] : UseState(s, f)} \in Required[e]
    BY <1>2 DEF Satisfies
  <2>4. \A f \in DOMAIN IUse[e] : HasUse(s, f)'
    BY <1>1, <2>1
  <2>5. {f \in DOMAIN IUse[e] : UseState(s, f)'} \in Required[e]
    BY <2>2, <2>3
  <2> HIDE DEF HasUse, UseState
  <2> QED
    BY <2>4, <2>5 DEF Satisfies
<1>3. \A k \in DOMAIN s.hooks :
        HasUse(s, s.hooks[k].flag)' /\ UseState(s, s.hooks[k].flag)' = s.hooks[k].state
  BY <1>1 DEF FlagsKept
<1>4. \A k \in DOMAIN s.global : Satisfies(s, s.global[k])'
  BY <1>2 DEF FlagsKept
<1> QED
  BY <1>3, <1>4 DEF FlagsKept

\* Reading more ebuilds breaks no hook.
LEMMA FlagsStayIn ==
    ASSUME read \subseteq read', NEW ss, FlagsIn(ss)
    PROVE  FlagsIn(ss)'
<1> SUFFICES ASSUME NEW i \in 1..Len(ss), AsChosen(ss[i])
             PROVE  FlagsKept(ss[i])'
  BY DEF FlagsIn
<1>1. PICK s : s = ss[i]
  OBVIOUS
<1>2. FlagsKept(s)
  BY <1>1 DEF FlagsIn
<1>3. FlagsKept(s)'
  BY <1>2, ReadKeeps
<1> QED
  BY <1>1, <1>3

\* A step keeps FlagsOK if the selections after it keep their hooks.
LEMMA FlagsOKStays ==
    ASSUME read \subseteq read', raised' = raised, ~raised => FlagsIn(sels')
    PROVE  FlagsOK'
<1>1. PICK ss : ss = sels'
  OBVIOUS
<1>2. ~raised => FlagsIn(ss)
  BY <1>1
<1>3. ~raised => FlagsIn(ss)'
  BY <1>2, FlagsStayIn
<1> QED
  BY <1>1, <1>3 DEF FlagsOK

\* What any step leaves that gives no new generators to a selection there was.
OthersLater(i) ==
    \A j \in 1..Len(tree) : j # i => GensLater(j) /\ DirtyStays(j)

NewOnesDirty ==
    \A j \in 1..Len(sels') : j \in 1..Len(sels) \/ sels'[j].dirty

\* A turn of the frame at the top, which becomes f.
LEMMA TopStep ==
    ASSUME SelectionInv, status = "running", ObjectsOK', Later, NewOnesDirty,
           NEW i, i = Top.sel, NEW f, f.sel = i,
           stack' = [stack EXCEPT ![Len(stack)] = f],
           session' = session, raised' = raised, OthersLater(i),
           TurnOf(f)', ~raised /\ Generated(i)' => AllMet(i)'
    PROVE  TurnOK' /\ GeneratorsOK'
<1> DEFINE n == Depth
<1>1. ResolverInv /\ ObjectsOK /\ Len(sels) = Len(tree)
  BY DEF SelectionInv, ResolverInv, ObjectsOK
<1>2. /\ n \in Nat \ {0} /\ Top = stack[n] /\ IsSeq(stack) /\ i \in 1..Len(tree)
      /\ \A k \in 1..n : stack[k].sel \in 1..Len(tree)
      /\ \A k \in 1..n : k # n => stack[k].sel # i
  <2>1. n \in Nat \ {0} /\ Top = stack[n] /\ i \in 1..Len(tree) /\ IsSeq(stack)
    BY <1>1, TopIs DEF ResolverInv, FramesOK, IsSeq
  <2>2. \A k \in 1..n : stack[k].sel \in 1..Len(tree)
    BY <1>1 DEF ResolverInv, FramesOK, ObjectsOK
  <2>3. \A k \in 1..n : k # n => stack[k].sel # i
    BY <1>1, <2>1 DEF ResolverInv, PathOK
  <2> QED
    BY <2>1, <2>2, <2>3
<1>3. n = Len(stack) /\ n \in 1..n
  BY <1>2 DEF Depth
<1> HIDE DEF n
<1>4. Depth' = n /\ stack'[n] = f /\ \A k \in 1..n : k # n => stack'[k] = stack[k]
  <2> DEFINE t == [stack EXCEPT ![n] = f]
  <2>1. stack' = t
    BY <1>3
  <2>2. Len(t) = n /\ t[n] = f /\ \A k \in 1..n : k # n => t[k] = stack[k]
    BY <1>2, <1>3, PutIs
  <2> HIDE DEF t
  <2> QED
    BY <2>1, <2>2 DEF Depth
<1>5. TurnOK'
  <2> SUFFICES ASSUME NEW k \in 1..n PROVE TurnOf(stack[k])'
    BY <1>4 DEF TurnOK
  <2>1. CASE k = n
    BY <1>4, <2>1
  <2>2. CASE k # n
    <3>1. PICK g : g = stack[k]
      OBVIOUS
    <3>2. g.sel \in 1..Len(tree) /\ GensLater(g.sel) /\ DirtyStays(g.sel)
      BY <1>2, <2>2, <3>1 DEF OthersLater
    <3>3. TurnOf(g)
      BY <3>1 DEF SelectionInv, TurnOK, n
    <3>4. TurnOf(g)'
      BY <1>1, <3>2, <3>3, TurnStays
    <3> QED
      BY <1>4, <2>2, <3>1, <3>4
  <2> QED
    BY <2>1, <2>2
<1>6. GeneratorsOK'
  <2> SUFFICES ASSUME ~raised, NEW j \in 1..Len(sels'), Generated(j)'
               PROVE  AllMet(j)'
    BY DEF GeneratorsOK
  <2>1. CASE j = i
    BY <2>1
  <2>2. CASE j # i
    <3>1. j \in 1..Len(sels)
      <4>1. CASE ~sels'[j].dirty
        BY <4>1 DEF NewOnesDirty
      <4>2. CASE j \in session'
        BY <1>1, <4>2 DEF ObjectsOK
      <4> QED
        BY <4>1, <4>2 DEF Generated
    <3>2. GensLater(j) /\ DirtyStays(j)
      BY <1>1, <2>2, <3>1 DEF OthersLater
    <3>3. Generated(j)
      <4>1. CASE ~sels'[j].dirty
        BY <3>2, <4>1 DEF DirtyStays, Generated
      <4>2. CASE /\ j \in session
                 /\ \A k \in 1..n : stack'[k].sel = j => stack'[k].phase = "children"
        <5>1. \A k \in 1..n : stack[k].sel = j => stack[k].phase = "children"
          <6> TAKE k \in 1..n
          <6>1. CASE k = n
            BY <1>2, <2>2, <6>1
          <6>2. CASE k # n
            BY <1>4, <4>2, <6>2
          <6> QED
            BY <6>1, <6>2
        <5> QED
          BY <4>2, <5>1 DEF Generated, n
      <4> QED
        BY <1>4, <4>1, <4>2 DEF Generated
    <3>4. AllMet(j)
      BY <3>1, <3>3 DEF SelectionInv, GeneratorsOK
    <3> QED
      BY <1>1, <3>1, <3>2, <3>4, AllMetStays
  <2> QED
    BY <2>1, <2>2
<1> QED
  BY <1>5, <1>6

\* A step by which calls begin or return.
LEMMA CallStep ==
    ASSUME SelectionInv, ObjectsOK', Later, NewOnesDirty, raised' = raised,
           \A j \in 1..Len(tree) : GensLater(j) /\ DirtyStays(j),
           \A k \in 1..Depth' : stack'[k].phase = "begin" \/ (k \in 1..Depth /\ stack'[k] = stack[k]),
           \A j \in 1..Len(sels') : Generated(j)' => j \in 1..Len(sels) /\ Generated(j)
    PROVE  TurnOK' /\ GeneratorsOK'
<1>1. ResolverInv /\ ObjectsOK /\ Len(sels) = Len(tree)
  BY DEF SelectionInv, ResolverInv, ObjectsOK
<1>2. TurnOK'
  <2> SUFFICES ASSUME NEW k \in 1..Depth' PROVE TurnOf(stack[k])'
    BY DEF TurnOK
  <2>1. PICK g : g = stack'[k]
    OBVIOUS
  <2>2. CASE g.phase = "begin"
    BY <2>1, <2>2 DEF TurnOf
  <2>3. CASE k \in 1..Depth /\ g = stack[k]
    <3>1. g.sel \in 1..Len(tree)
      BY <1>1, <2>3 DEF ResolverInv, FramesOK, ObjectsOK
    <3>2. TurnOf(g)
      BY <2>3 DEF SelectionInv, TurnOK
    <3>3. TurnOf(g)'
      BY <1>1, <3>1, <3>2, TurnStays
    <3> QED
      BY <2>1, <3>3
  <2> QED
    BY <2>1, <2>2, <2>3
<1>3. GeneratorsOK'
  <2> SUFFICES ASSUME ~raised, NEW j \in 1..Len(sels'), Generated(j)'
               PROVE  AllMet(j)'
    BY DEF GeneratorsOK
  <2>1. j \in 1..Len(tree) /\ Generated(j)
    BY <1>1
  <2>2. AllMet(j)
    BY <1>1, <2>1 DEF SelectionInv, GeneratorsOK
  <2> QED
    BY <1>1, <2>1, <2>2, AllMetStays
<1> QED
  BY <1>2, <1>3

\* After an exception nothing is promised but the tables.
LEMMA RaiseStep ==
    ASSUME Raise
    PROVE  FlagsOK' /\ GeneratorsOK' /\ TurnOK'
<1>1. stack' = <<>> /\ raised' = TRUE
  BY DEF Raise
<1>2. Len(<<>>) = 0
  OBVIOUS
<1>3. Depth' = 0
  BY <1>1, <1>2 DEF Depth
<1> QED
  BY <1>1, <1>3 DEF FlagsOK, GeneratorsOK, TurnOK

\* What resolve_single did, and no flag was required in vain.
LEMMA AnswerStep ==
    ASSUME SelectionInv, NEW a, IsAtom(a), NEW r, r = Resolved(a),
           sels' = r.sels, slots' = r.slots, deps' = deps, read' = read
    PROVE  /\ Later /\ NewOnesDirty /\ SelsOK'
           /\ \A j \in 1..Len(tree) : DirtyStays(j)
           /\ r.how # "raise" /\ ~raised => FlagsIn(sels')
           /\ r.how = "ok" => OtherVersion(a) \/ (r.got # 0 /\ Serves(sels'[r.got], a))
<1>1. ObjectsOK /\ SelsOK /\ FlagsOK /\ Len(sels) = Len(tree)
  BY DEF SelectionInv, ResolverInv, ObjectsOK
<1>2. Answers(a, r)
  BY <1>1, ResolvedAnswers
<1>3. After(sels', slots')
  BY <1>2 DEF Answers
<1>4. Later
  BY <1>3 DEF After, Later
<1>5. NewOnesDirty /\ \A j \in 1..Len(tree) : DirtyStays(j)
  BY <1>1, <1>3 DEF After, NewOnesDirty, DirtyStays
<1>6. SelsOK'
  BY <1>3 DEF After, SelsOK
<1>7. r.how # "raise" /\ ~raised => FlagsIn(sels')
  BY <1>1, <1>2 DEF Answers, FlagsOK
<1>8. r.how = "ok" => OtherVersion(a) \/ (r.got # 0 /\ Serves(sels'[r.got], a))
  BY <1>2 DEF Answers
<1> QED
  BY <1>4, <1>5, <1>6, <1>7, <1>8

\* What is filed stays so when more metadata is read.
LEMMA FiledStays ==
    ASSUME NEW ss, NEW d, NEW R, NEW Q, R \subseteq Q, FiledRight(ss, d, R)
    PROVE  FiledRight(ss, d, Q)
  BY DEF FiledRight, Keyed

\* The selections are as they were.
LEMMA SameStep ==
    ASSUME SelectionInv, UNCHANGED <<deps, sels, slots>>, read \subseteq read'
    PROVE  /\ Later /\ NewOnesDirty /\ SelsOK'
           /\ \A j \in 1..Len(tree) : DirtyStays(j)
           /\ ~raised => FlagsIn(sels')
<1>1. SelsOK /\ FlagsOK
  BY DEF SelectionInv
<1>2. Later
  BY DEF Later, Follows
<1>3. SelsOK'
  BY <1>1, FiledStays DEF SelsOK
<1> QED
  BY <1>1, <1>2, <1>3 DEF NewOnesDirty, DirtyStays, FlagsOK

\* One of them became t.
LEMMA PutStep ==
    ASSUME SelectionInv, NEW i \in 1..Len(tree), NEW t,
           SelectionOK(t), Follows(sels[i], t), t.ebuild = sels[i].ebuild,
           sels' = [sels EXCEPT ![i] = t], UNCHANGED <<deps, slots, read>>
    PROVE  /\ Later /\ NewOnesDirty /\ SelsOK'
           /\ sels'[i] = t /\ Len(sels') = Len(sels) /\ IsSeq(sels')
           /\ \A j \in 1..Len(sels) : j # i => sels'[j] = sels[j]
<1>1. ObjectsOK /\ SelsOK /\ Len(sels) = Len(tree) /\ IsSeq(sels)
  BY DEF SelectionInv, ResolverInv, ObjectsOK
<1>2. /\ sels'[i] = t /\ Len(sels') = Len(sels) /\ IsSeq(sels')
      /\ \A j \in 1..Len(sels) : j # i => sels'[j] = sels[j]
  <2>0. PICK ss : ss = sels
    OBVIOUS
  <2> DEFINE tt == [ss EXCEPT ![i] = t]
  <2>1. i \in 1..Len(ss) /\ sels' = tt /\ IsSeq(ss) /\ ss = sels
    BY <1>1, <2>0
  <2>2. tt[i] = t /\ \A j \in 1..Len(ss) : j # i => tt[j] = ss[j]
    BY <2>1, PutIs
  <2>3. IsSeq(tt) /\ Len(tt) = Len(ss)
    BY <2>1, PutIsSeq, ZenonT(60)
  <2> HIDE DEF tt
  <2> QED
    BY <2>1, <2>2, <2>3
<1>3. FiledRight(sels', slots, read)
  <2>1. t.pkg = sels[i].pkg /\ t.by = sels[i].by /\ (AsChosen(t) \/ Movable(sels[i], i, slots))
    BY DEF Follows, AsChosen, Movable
  <2>2. FiledIn(slots, Len(tree)) /\ FiledRight(sels, slots, read)
    BY <1>1 DEF ObjectsOK, SelsOK
  <2> QED
    BY <1>1, <2>1, <2>2, PutFiled
<1>4. \A j \in 1..Len(sels) : Follows(sels[j], sels'[j]) /\ SelectionOK(sels'[j])
  <2>1. \A s : Follows(s, s)
    BY DEF Follows
  <2> QED
    BY <1>1, <1>2, <2>1 DEF SelsOK
<1>5. Later
  BY <1>2, <1>4 DEF Later
<1>6. NewOnesDirty
  BY <1>2 DEF NewOnesDirty
<1>7. SelsOK'
  BY <1>2, <1>3, <1>4 DEF SelsOK
<1> QED
  BY <1>2, <1>5, <1>6, <1>7

\* The nodes that are written keep what they are resolved to.
LEMMA ResolvedStay ==
    ASSUME GensIn(tree), ResolvedIn(tree), Len(tree') \in Nat, Len(tree) <= Len(tree'),
           \A i \in 1..Len(tree') :
              \/ i \in 1..Len(tree) /\ tree'[i].resolved = tree[i].resolved
              \/ tree'[i].resolved = <<>>
    PROVE  ResolvedIn(tree')
<1>1. Len(tree) \in Nat /\ Len(<<>>) = 0
  BY DEF GensIn
<1> SUFFICES ASSUME NEW i \in 1..Len(tree'), NEW k \in 1..Len(tree'[i].resolved)
             PROVE  tree'[i].resolved[k] \in 1..Len(tree')
  BY DEF ResolvedIn
<1>2. CASE i \in 1..Len(tree) /\ tree'[i].resolved = tree[i].resolved
  BY <1>1, <1>2 DEF ResolvedIn
<1>3. CASE tree'[i].resolved = <<>>
  BY <1>1, <1>3
<1> QED
  BY <1>2, <1>3

\* Nodes that are added leave the others' generators and results.
LEMMA GrownResolved ==
    ASSUME ObjectsOK, ResolvedIn(tree), Grown(tree')
    PROVE  /\ ResolvedIn(tree') /\ Len(tree) <= Len(tree') /\ Len(tree) \in Nat /\ Len(tree') \in Nat
           /\ \A j \in 1..Len(tree) : GensLater(j)
<1>1. /\ GensIn(tree) /\ Len(tree') \in Nat /\ Len(tree) \in Nat /\ Len(tree) <= Len(tree')
      /\ \A i \in 1..Len(tree) : tree'[i] = tree[i]
  BY GrownTree DEF ObjectsOK
<1>2. \A i \in 1..Len(tree') : i \in 1..Len(tree) \/ tree'[i].resolved = <<>>
  <2>1. CASE tree' = tree
    BY <2>1
  <2>2. CASE tree' = Append(tree, NoTree)
    <3>1. Len(tree') = Len(tree) + 1 /\ tree'[Len(tree) + 1] = NoTree
      BY <1>1, <2>2, AppendProperties DEF GensIn
    <3>2. NoTree.resolved = <<>>
      BY DEF NoTree
    <3>3. \A i \in 1..(Len(tree) + 1) : i \in 1..Len(tree) \/ i = Len(tree) + 1
      BY <1>1
    <3> QED
      BY <3>1, <3>2, <3>3
  <2> QED
    BY <2>1, <2>2 DEF Grown
<1>3. ResolvedIn(tree')
  BY <1>1, <1>2, ResolvedStay
<1> QED
  BY <1>1, <1>3 DEF GensLater

\* The call at the top.
LEMMA TopTurn ==
    ASSUME SelectionInv, status = "running"
    PROVE  /\ ResolverInv /\ ObjectsOK /\ Len(sels) = Len(tree) /\ Len(tree) \in Nat
           /\ Top = stack[Len(stack)] /\ TurnOf(Top)
           /\ Top.sel \in 1..Len(tree) /\ Top.sel \in session /\ Top.at \in Nat \ {0}
           /\ Len(stack) \in Nat \ {0} /\ IsSeq(stack)
           /\ \A k \in 1..Len(stack) : k # Len(stack) => stack[k].sel # Top.sel
<1>1. ResolverInv /\ ObjectsOK /\ Len(sels) = Len(tree) /\ Len(tree) \in Nat /\ TurnOK
  BY DEF SelectionInv, ResolverInv, ObjectsOK, GensIn
<1>2. /\ Depth \in Nat \ {0} /\ Top = stack[Depth] /\ Top.sel \in 1..Len(tree)
      /\ Top.sel \in session /\ Top.at \in Nat \ {0} /\ IsSeq(stack)
  BY <1>1, TopIs DEF ResolverInv, FramesOK, IsSeq
<1>3. TurnOf(Top)
  <2>1. Depth \in 1..Depth
    BY <1>2
  <2> QED
    BY <1>1, <1>2, <2>1 DEF TurnOK
<1>4. \A k \in 1..Depth : k # Depth => stack[k].sel # Top.sel
  BY <1>1, <1>2 DEF ResolverInv, PathOK
<1> QED
  BY <1>1, <1>2, <1>3, <1>4 DEF Depth

\* The loop of regenerate goes on to its next dependency.
LEMMA AdvanceStep ==
    ASSUME SelectionInv, MoreDeps, Advance, ObjectsOK', Later, NewOnesDirty,
           session' = session, raised' = raised,
           NEW i, i = Top.sel, OthersLater(i), GensLater(i), DirtyStays(i),
           NEW d, d = Dep, DepMet(i, d)'
    PROVE  TurnOK' /\ GeneratorsOK'
<1>1. status = "running" /\ Top.phase = "deps" /\ Top.at <= Len(deps[Top.ebuild])
  BY DEF MoreDeps, InPhase
<1>0. PICK f : f = [Top EXCEPT !.at = Top.at + 1]
  OBVIOUS
<1>2. /\ ObjectsOK /\ i \in 1..Len(tree) /\ i \in 1..Len(sels) /\ TurnOf(Top)
      /\ Top.at \in Nat \ {0} /\ ResolverInv /\ Top = stack[Len(stack)]
  BY <1>1, TopTurn
<1>3. f.sel = i /\ f.phase = "deps" /\ f.at = Top.at + 1 /\ f.ebuild = Top.ebuild
  BY <1>0, <1>1, <1>2, TopIs DEF FrameOf
<1>4. stack' = [stack EXCEPT ![Len(stack)] = f]
  BY <1>0, <1>2 DEF Advance
<1>5. PICK e, n : e = Top.ebuild /\ n = Top.at
  OBVIOUS
<1>6. /\ e \in Ebuilds /\ sels[i].dirty
      /\ AsChosen(sels[i]) => e = sels[i].ebuild
      /\ ~raised /\ AsChosen(sels[i]) => MetUpTo(i, e, n - 1)
  BY <1>1, <1>2, <1>5 DEF TurnOf
<1>7. sels'[i].dirty /\ Follows(sels[i], sels'[i]) /\ deps' = deps
  BY <1>2, <1>6 DEF DirtyStays, Later
<1>8. AsChosen(sels'[i]) => AsChosen(sels[i]) /\ e = sels'[i].ebuild
  BY <1>6, <1>7 DEF Follows, AsChosen
<1>9. Len(deps[e]) \in Nat /\ n + 1 <= Len(deps[e]) + 1
  <2>1. Len(deps[e]) \in Nat
    BY <1>6, DependenciesAreAtoms DEF SelectionInv, ResultsOK, IsSequence
  <2> QED
    BY <1>1, <1>2, <1>5, <2>1
<1>10. ASSUME ~raised, AsChosen(sels'[i])
       PROVE  MetUpTo(i, e, n)'
  <2>1. MetUpTo(i, e, n - 1)'
    <3>1. PICK m : m = n - 1
      OBVIOUS
    <3>2. MetUpTo(i, e, m)
      BY <1>6, <1>8, <1>10, <3>1
    <3>3. MetUpTo(i, e, m)'
      BY <1>2, <3>2, MetStays
    <3> QED
      BY <3>1, <3>3
  <2>2. d = deps'[e][n]
    BY <1>5, <1>7 DEF Dep
  <2>3. \A k \in 1..n : k \in 1..(n - 1) \/ k = n
    BY <1>2, <1>5
  <2>4. DepMet(i, deps[e][n])'
    BY <2>2
  <2> HIDE DEF DepMet
  <2> QED
    BY <2>1, <2>3, <2>4 DEF MetUpTo
<1>11. TurnOf(f)'
  <2>1. f.at - 1 = n /\ f.at <= Len(deps'[f.ebuild]) + 1
    BY <1>2, <1>3, <1>5, <1>7, <1>9
  <2> QED
    BY <1>3, <1>5, <1>6, <1>7, <1>8, <1>10, <2>1 DEF TurnOf
<1>12. ~Generated(i)'
  <2>1. Len(stack) \in 1..Len(stack) /\ IsSeq(stack)
    BY <1>1, TopTurn
  <2> DEFINE t == [stack EXCEPT ![Len(stack)] = f]
  <2>2. Len(t) = Len(stack) /\ t[Len(stack)] = f
    BY <2>1, PutIs
  <2> HIDE DEF t
  <2>3. stack' = t
    BY <1>4 DEF t
  <2>4. Depth' = Len(stack) /\ stack'[Len(stack)] = f
    BY <2>2, <2>3 DEF Depth
  <2> QED
    BY <1>3, <1>7, <2>1, <2>4 DEF Generated
<1> QED
  BY <1>1, <1>3, <1>4, <1>11, <1>12, TopStep

----------------------------------------------------------------------------
(* Each action, once more *)

\* What a tree has that has grown.
LEMMA GrownNodes ==
    ASSUME ObjectsOK, NEW t, Grown(t)
    PROVE  /\ GensIn(t) /\ Len(t) \in Nat /\ Len(tree) \in Nat /\ Len(tree) <= Len(t)
           /\ \A j \in 1..Len(tree) : j \in 1..Len(t) /\ t[j] = tree[j]
           /\ \A j \in 1..Len(t) : j \in 1..Len(tree) \/ t[j].resolved = <<>>
<1>1. /\ GensIn(tree) /\ GensIn(t) /\ Len(t) \in Nat /\ Len(tree) \in Nat /\ Len(tree) <= Len(t)
      /\ \A j \in 1..Len(tree) : t[j] = tree[j]
  BY GrownTree DEF ObjectsOK
<1>2. \A j \in 1..Len(tree) : j \in 1..Len(t)
  BY <1>1
<1>3. CASE t = tree
  BY <1>1, <1>2, <1>3
<1>4. CASE t = Append(tree, NoTree)
  <2>1. Len(t) = Len(tree) + 1 /\ t[Len(tree) + 1] = NoTree
    BY <1>1, <1>4, AppendProperties DEF GensIn
  <2>2. NoTree.resolved = <<>>
    BY DEF NoTree
  <2>3. \A j \in 1..(Len(tree) + 1) : j \in 1..Len(tree) \/ j = Len(tree) + 1
    BY <1>1
  <2> QED
    BY <1>1, <1>2, <2>1, <2>2, <2>3
<1> QED
  BY <1>3, <1>4 DEF Grown

\* A generator more for one selection, which is the answer about an atom.
LEMMA OneMore ==
    ASSUME ObjectsOK, ResolvedIn(tree), NEW t, Grown(t), NEW i \in 1..Len(tree),
           NEW got \in 1..Len(t), tree' = [t EXCEPT ![i].gens = Append(@, got)]
    PROVE  /\ ResolvedIn(tree') /\ Len(tree') = Len(t)
           /\ \A j \in 1..Len(tree) : GensLater(j)
           /\ \E k \in DOMAIN tree'[i].gens : tree'[i].gens[k] = got
<1> DEFINE old == tree[i].gens
           new == Append(old, got)
           node == [t[i] EXCEPT !.gens = new]
           n == Len(old)
<1>1. /\ GensIn(t) /\ Len(t) \in Nat /\ Len(tree) \in Nat /\ Len(tree) <= Len(t)
      /\ \A j \in 1..Len(tree) : j \in 1..Len(t) /\ t[j] = tree[j]
      /\ \A j \in 1..Len(t) : j \in 1..Len(tree) \/ t[j].resolved = <<>>
  BY GrownNodes
<1>2. i \in 1..Len(t) /\ t[i] \in Node /\ t[i] = tree[i] /\ old \in Seq(Nat) /\ IsSeq(t) /\ got \in Nat
  <2>1. i \in 1..Len(t) /\ t[i] = tree[i] /\ got \in Nat
    BY <1>1
  <2>2. t[i] \in Node
    BY <1>1, <2>1, GensAre
  <2>3. IsSeq(t)
    BY <1>1 DEF GensIn, IsSeq
  <2> QED
    BY <2>1, <2>2, <2>3 DEF Node
<1>3. /\ new \in Seq(Nat) /\ n \in Nat /\ DOMAIN new = 1..(n + 1) /\ Len(new) = n + 1
      /\ new[n + 1] = got /\ \A k \in 1..n : new[k] = old[k]
  BY <1>2, AppendProperties, LenProperties
<1> HIDE DEF new
<1>4. node.gens = new /\ node.resolved = t[i].resolved
  BY <1>2, <1>3, NodeMoves
<1>5. tree' = [t EXCEPT ![i] = node]
  BY <1>2 DEF new
<1> HIDE DEF node, n
<1>6. tree'[i] = node /\ Len(tree') = Len(t) /\ \A j \in 1..Len(t) : j # i => tree'[j] = t[j]
  <2> DEFINE u == [t EXCEPT ![i] = node]
  <2>1. u[i] = node /\ \A j \in 1..Len(t) : j # i => u[j] = t[j]
    BY <1>2, PutIs
  <2>2. Len(u) = Len(t)
    BY <1>2, PutIsSeq
  <2> HIDE DEF u
  <2> QED
    BY <1>5, <2>1, <2>2 DEF u
<1>7. ResolvedIn(tree')
  <2>1. \A j \in 1..Len(t) : tree'[j].resolved = t[j].resolved
    BY <1>4, <1>6
  <2>2. \A j \in 1..Len(tree') :
          \/ j \in 1..Len(tree) /\ tree'[j].resolved = tree[j].resolved
          \/ tree'[j].resolved = <<>>
    BY <1>1, <1>6, <2>1
  <2> QED
    BY <1>1, <1>6, <2>2, ResolvedStay DEF ObjectsOK
<1>8. \A j \in 1..Len(tree) : GensLater(j)
  <2> SUFFICES ASSUME NEW j \in 1..Len(tree), NEW k \in 1..Len(tree[j].gens)
               PROVE  k \in 1..Len(tree'[j].gens) /\ tree'[j].gens[k] = tree[j].gens[k]
    BY DEF GensLater
  <2>1. CASE j = i
    <3>1. k \in 1..n
      BY <2>1 DEF n
    <3>2. k \in 1..(n + 1)
      BY <1>3, <3>1
    <3>3. tree[j].gens = old
      BY <2>1
    <3>4. tree'[j].gens = new
      BY <1>4, <1>6, <2>1
    <3>5. k \in 1..Len(new) /\ new[k] = old[k]
      BY <1>3, <3>1, <3>2
    <3> HIDE DEF old
    <3> QED
      BY <3>3, <3>4, <3>5, Zenon
  <2>2. CASE j # i
    <3>1. tree'[j] = tree[j]
      BY <1>1, <1>6, <2>2
    <3> QED
      BY <3>1
  <2> QED
    BY <2>1, <2>2
<1>9. \E k \in DOMAIN tree'[i].gens : tree'[i].gens[k] = got
  <2>1. n + 1 \in DOMAIN new
    BY <1>3
  <2> QED
    BY <1>3, <1>4, <1>6, <2>1
<1> QED
  BY <1>6, <1>7, <1>8, <1>9

\* What is filed away when a step raises, or does not.
LEMMA Concluded ==
    ASSUME SelectionInv, ResolverInv', SelsOK', ResultsOK',
           \/ Raise
           \/ FlagsOK' /\ TurnOK' /\ GeneratorsOK'
    PROVE  SelectionInv'
<1>1. FlagsOK' /\ TurnOK' /\ GeneratorsOK'
  BY RaiseStep
<1> QED
  BY <1>1 DEF SelectionInv

\* Some dependency is left: it is one of those of an ebuild.
LEMMA DepIs ==
    ASSUME SelectionInv, MoreDeps
    PROVE  Dep.kind = "atom" => IsAtom(Dep.atom)
<1>1. Top.phase = "deps" /\ TurnOf(Top) /\ Top.at \in Nat \ {0} /\ Top.at <= Len(deps[Top.ebuild])
  BY TopTurn DEF MoreDeps, InPhase
<1>2. Top.ebuild \in Ebuilds /\ deps \in Repositories
  BY <1>1 DEF TurnOf, SelectionInv, ResultsOK
<1>3. IsSequence(deps[Top.ebuild])
  BY <1>2, DependenciesAreAtoms
<1>4. Top.at \in DOMAIN deps[Top.ebuild]
  BY <1>1, <1>3 DEF IsSequence
<1> QED
  BY <1>2, <1>4, DependenciesAreAtoms DEF Dep

\* A dependency on an atom is resolved, or raises.
LEMMA DepAtomSelects ==
    ASSUME SelectionInv, ResolverInv', DepAtom
    PROVE  SelectionInv'
<1>1. PICK i, d, r : i = Top.sel /\ d = Dep /\ r = Resolved(d.atom)
  OBVIOUS
<1>2. /\ status = "running" /\ MoreDeps /\ UNCHANGED <<deps, read, session>>
      /\ slots' = r.slots /\ sels' = r.sels
      /\ tree' = IF r.how # "ok" \/ r.got = 0 THEN r.tree
                 ELSE [r.tree EXCEPT ![i].gens = Append(@, r.got)]
      /\ \/ r.how = "raise" /\ Raise
         \/ r.how = "hang" /\ Hang
         \/ r.how = "ok" /\ Advance /\ UNCHANGED <<status, returned, raised>>
  BY <1>1 DEF DepAtom, MoreDeps, InPhase
<1>3. d.kind = "atom" /\ IsAtom(d.atom)
  BY <1>1, <1>2, DepIs DEF DepAtom
<1>4. /\ ResolverInv /\ ObjectsOK /\ ObjectsOK' /\ i \in 1..Len(tree) /\ Len(sels) = Len(tree)
      /\ ResolvedIn(tree)
  BY <1>1, <1>2, TopTurn DEF ResolverInv, SelectionInv, ResultsOK
<1>5. /\ Later /\ NewOnesDirty /\ SelsOK'
      /\ \A j \in 1..Len(tree) : DirtyStays(j)
      /\ r.how # "raise" /\ ~raised => FlagsIn(sels')
      /\ r.how = "ok" => OtherVersion(d.atom) \/ (r.got # 0 /\ Serves(sels'[r.got], d.atom))
  BY <1>1, <1>2, <1>3, AnswerStep
<1>6. Sound(r)
  BY <1>1, <1>4, ResolvedIsSound
<1>7. Grown(r.tree) /\ r.got \in 0..Len(r.tree) /\ Len(r.tree) \in Nat /\ Len(tree) <= Len(r.tree)
      /\ Len(tree) \in Nat
  BY <1>4, <1>6, GrownNodes DEF Sound
<1>8. /\ ResolvedIn(tree') /\ Len(tree) <= Len(tree') /\ \A j \in 1..Len(tree) : GensLater(j)
      /\ r.how = "ok" /\ r.got # 0 =>
            \E k \in DOMAIN tree'[i].gens : tree'[i].gens[k] = r.got
  <2>1. CASE r.how # "ok" \/ r.got = 0
    BY <1>2, <1>4, <1>7, <2>1, GrownResolved
  <2>2. CASE r.how = "ok" /\ r.got # 0
    <3>1. PICK t, got : t = r.tree /\ got = r.got
      OBVIOUS
    <3>2. got \in 1..Len(t) /\ Grown(t)
      BY <1>7, <2>2, <3>1
    <3>3. tree' = [t EXCEPT ![i].gens = Append(@, got)]
      BY <1>2, <2>2, <3>1
    <3>4. /\ ResolvedIn(tree') /\ Len(tree') = Len(t)
          /\ \A j \in 1..Len(tree) : GensLater(j)
          /\ \E k \in DOMAIN tree'[i].gens : tree'[i].gens[k] = got
      <4>1. ObjectsOK /\ ResolvedIn(tree) /\ i \in 1..Len(tree)
        BY <1>4
      <4> QED
        BY <3>2, <3>3, <4>1, OneMore, ZenonT(60)
    <3> QED
      BY <1>7, <3>1, <3>4
  <2> QED
    BY <2>1, <2>2
<1>9. ResultsOK'
  <2>1. returned' \in 0..Len(tree') /\ status' \in {"idle", "running", "hung"}
    <3>1. returned \in 0..Len(tree) /\ status \in {"idle", "running", "hung"}
      BY DEF SelectionInv, ResultsOK
    <3>2. returned' \in {0, returned} /\ status' \in {"idle", "hung", status}
      BY <1>2 DEF Raise, Hang
    <3>3. Len(tree') \in Nat
      BY <1>4 DEF ObjectsOK, GensIn
    <3> QED
      BY <1>7, <1>8, <3>1, <3>2, <3>3
  <2> QED
    BY <1>2, <1>8, <2>1 DEF SelectionInv, ResultsOK
<1>10. CASE Raise
  BY <1>5, <1>9, <1>10, Concluded
<1>11. CASE r.how = "hang" /\ Hang
  <2>1. UNCHANGED <<stack, session, raised>>
    BY <1>2, <1>11 DEF Hang
  <2>2. FlagsOK'
    BY <1>2, <1>5, <1>11, <2>1, FlagsOKStays
  <2>3. \A j \in 1..Len(sels') : Generated(j)' => j \in 1..Len(sels) /\ Generated(j)
    <3> SUFFICES ASSUME NEW j \in 1..Len(sels'), Generated(j)'
                 PROVE  j \in 1..Len(sels) /\ Generated(j)
      OBVIOUS
    <3>1. j \in 1..Len(sels)
      <4>1. session \subseteq 1..Len(tree)
        BY <1>4 DEF ObjectsOK
      <4> QED
        BY <1>4, <1>5, <2>1, <4>1 DEF Generated, NewOnesDirty
    <3>2. DirtyStays(j)
      BY <1>4, <1>5, <3>1
    <3> QED
      BY <2>1, <3>1, <3>2 DEF Generated, DirtyStays, Depth
  <2>4. TurnOK' /\ GeneratorsOK'
    <3>1. \A k \in 1..Depth' : k \in 1..Depth /\ stack'[k] = stack[k]
      BY <2>1 DEF Depth
    <3> QED
      BY <1>4, <1>5, <1>8, <2>1, <2>3, <3>1, CallStep
  <2> QED
    BY <1>5, <1>9, <2>2, <2>4, Concluded
<1>12. CASE r.how = "ok" /\ Advance /\ UNCHANGED <<status, returned, raised>>
  <2>1. FlagsOK'
    BY <1>2, <1>5, <1>12, FlagsOKStays
  <2>2. DepMet(i, d)'
    <3>1. CASE OtherVersion(d.atom)
      <4>1. DepMet(i, d)
        BY <3>1 DEF DepMet
      <4> QED
        BY <1>4, <1>5, <1>8, <4>1, DepStays
    <3>2. CASE r.got # 0 /\ Serves(sels'[r.got], d.atom)
      <4>1. PICK k \in DOMAIN tree'[i].gens : tree'[i].gens[k] = r.got
        BY <1>8, <1>12, <3>2
      <4>2. /\ sels'[r.got].pkg = d.atom.pkg
            /\ sels'[r.got].ebuild = sels'[r.got].by.chosen => sels'[r.got].ebuild \in d.atom.matches
        BY <3>2 DEF Serves, AsChosen
      <4>3. Met(i, d.atom)'
        BY <4>1, <4>2 DEF Met, Unchanged
      <4> QED
        BY <4>3 DEF DepMet
    <3> QED
      BY <1>5, <1>12, <3>1, <3>2
  <2>3. OthersLater(i)
    BY <1>5, <1>8 DEF OthersLater
  <2>4. TurnOK' /\ GeneratorsOK'
    BY <1>1, <1>2, <1>4, <1>5, <1>8, <1>12, <2>2, <2>3, AdvanceStep
  <2> QED
    BY <1>5, <1>9, <2>1, <2>4, Concluded
<1> QED
  BY <1>2, <1>10, <1>11, <1>12

\* A step that neither selects nor writes a node.
LEMMA QuietResults ==
    ASSUME SelectionInv, UNCHANGED <<deps, read, tree>>,
           status' \in {"idle", "running", "hung"}, returned' \in 0..Len(tree)
    PROVE  ResultsOK'
  BY DEF SelectionInv, ResultsOK

\* No generator goes when the tree stays.
LEMMA QuietGens ==
    ASSUME tree' = tree
    PROVE  \A j \in 1..Len(tree) : GensLater(j)
  BY DEF GensLater

\* A dependency that selects nothing: a blocker, a condition that is off.
LEMMA OtherDepSelects ==
    ASSUME SelectionInv, ResolverInv', MoreDeps, Dep.kind = "atom" => Dep.atom.blocks,
           UNCHANGED <<deps, read, sels, tree, slots, session>>,
           \/ Raise
           \/ Advance /\ UNCHANGED <<status, returned, raised>>
    PROVE  SelectionInv'
<1>1. PICK i, d : i = Top.sel /\ d = Dep
  OBVIOUS
<1>2. /\ status = "running" /\ ObjectsOK /\ ObjectsOK' /\ i \in 1..Len(tree)
      /\ Len(tree) \in Nat
  BY <1>1, TopTurn DEF MoreDeps, InPhase, ResolverInv
<1>3. /\ Later /\ NewOnesDirty /\ SelsOK'
      /\ \A j \in 1..Len(tree) : DirtyStays(j) /\ GensLater(j)
      /\ ~raised => FlagsIn(sels')
  BY SameStep, QuietGens
<1>4. ResultsOK'
  <2>1. returned \in 0..Len(tree) /\ returned' \in {0, returned} /\ status' \in {"idle", status}
    BY DEF SelectionInv, ResultsOK, Raise
  <2> QED
    BY <1>2, <2>1, QuietResults
<1>5. CASE Raise
  BY <1>3, <1>4, <1>5, Concluded
<1>6. CASE Advance /\ UNCHANGED <<status, returned, raised>>
  <2>1. FlagsOK'
    BY <1>3, <1>6, FlagsOKStays
  <2>2. DepMet(i, d)'
    BY <1>1 DEF DepMet
  <2>3. OthersLater(i)
    BY <1>3 DEF OthersLater
  <2>4. TurnOK' /\ GeneratorsOK'
    BY <1>1, <1>2, <1>3, <1>6, <2>2, <2>3, AdvanceStep
  <2> QED
    BY <1>3, <1>4, <2>1, <2>4, Concluded
<1> QED
  BY <1>5, <1>6

\* Another node for selection i.
LEMMA NodePut ==
    ASSUME ObjectsOK, NEW i \in 1..Len(tree), NEW node, tree' = [tree EXCEPT ![i] = node]
    PROVE  /\ tree'[i] = node /\ Len(tree') = Len(tree)
           /\ \A j \in 1..Len(tree) : j # i => tree'[j] = tree[j] /\ GensLater(j)
<1>1. IsSeq(tree)
  BY DEF ObjectsOK, GensIn, IsSeq
<1> DEFINE u == [tree EXCEPT ![i] = node]
<1>2. u[i] = node /\ \A j \in 1..Len(tree) : j # i => u[j] = tree[j]
  BY <1>1, PutIs
<1>3. Len(u) = Len(tree)
  BY <1>1, PutIsSeq
<1> HIDE DEF u
<1> QED
  BY <1>2, <1>3 DEF u, GensLater

\* Whatever is resolved is a selection there is.
LEMMA PutResolved ==
    ASSUME ObjectsOK, ResolvedIn(tree), NEW i \in 1..Len(tree), NEW node,
           tree' = [tree EXCEPT ![i] = node],
           \A k \in 1..Len(node.resolved) : node.resolved[k] \in 1..Len(tree)
    PROVE  ResolvedIn(tree')
<1>1. /\ tree'[i] = node /\ Len(tree') = Len(tree)
      /\ \A j \in 1..Len(tree) : j # i => tree'[j] = tree[j]
  BY NodePut
<1> QED
  BY <1>1 DEF ResolvedIn

\* The frame at the top is of another phase than "children": what is scheduled
\* for its selection is to be generated yet.
LEMMA NotGenerated ==
    ASSUME SelectionInv, status = "running", NEW f, f.phase # "children",
           stack' = [stack EXCEPT ![Len(stack)] = f], sels'[f.sel].dirty
    PROVE  ~Generated(f.sel)'
<1>1. Len(stack) \in 1..Len(stack) /\ IsSeq(stack)
  BY TopTurn
<1> DEFINE t == [stack EXCEPT ![Len(stack)] = f]
<1>2. Len(t) = Len(stack) /\ t[Len(stack)] = f
  BY <1>1, PutIs
<1> HIDE DEF t
<1>3. stack' = t
  BY DEF t
<1>4. Depth' = Len(stack) /\ stack'[Len(stack)] = f
  BY <1>2, <1>3 DEF Depth
<1> QED
  BY <1>1, <1>4 DEF Generated

\* A clean selection goes to its children, a dirty one is read.
LEMMA BeginSelects ==
    ASSUME SelectionInv, ResolverInv', Begin
    PROVE  SelectionInv'
<1>1. PICK i : i = Top.sel
  OBVIOUS
<1>2. /\ status = "running" /\ Top.phase = "begin" /\ ResolverInv /\ ObjectsOK /\ ObjectsOK'
      /\ Len(sels) = Len(tree) /\ i \in 1..Len(tree) /\ Len(tree) \in Nat
      /\ ResolvedIn(tree) /\ Self = sels[i] /\ Top = stack[Len(stack)]
  BY <1>1, TopTurn DEF Begin, InPhase, ResolverInv, SelectionInv, ResultsOK, Self
<1>3. UNCHANGED <<deps, sels, slots, session>>
  BY DEF Begin
<1>4. /\ Later /\ NewOnesDirty /\ SelsOK'
      /\ \A j \in 1..Len(tree) : DirtyStays(j)
      /\ ~raised => FlagsIn(sels')
  <2>1. read \subseteq read'
    BY DEF Begin
  <2> QED
    BY <1>3, <2>1, SameStep
<1>5. tree[i] \in Node /\ Top.at = 1
  BY <1>1, <1>2, GensAre, TopIs DEF ObjectsOK
<1>6. PICK E : Top \in FrameOf(E)
  BY <1>2, TopIs
<1>7. CASE ~Self.dirty
  <2>1. PICK node, f : node = [tree[i] EXCEPT !.resolved = <<>>]
                       /\ f = [Top EXCEPT !.phase = "children"]
    OBVIOUS
  <2>2. /\ tree' = [tree EXCEPT ![i] = node] /\ stack' = [stack EXCEPT ![Len(stack)] = f]
        /\ UNCHANGED <<read, status, returned, raised>>
    BY <1>1, <1>2, <1>7, <2>1 DEF Begin
  <2>3. node.gens = tree[i].gens /\ node.resolved = <<>>
    BY <1>5, <2>1, NodeMoves, NoneYet
  <2>4. f.sel = i /\ f.phase = "children"
    BY <1>1, <1>6, <2>1 DEF FrameOf
  <2>5. ResolvedIn(tree') /\ Len(tree') = Len(tree)
    <3>1. \A k \in 1..Len(node.resolved) : node.resolved[k] \in 1..Len(tree)
      BY <2>3, NoneYet
    <3> QED
      BY <1>2, <2>2, <3>1, PutResolved, NodePut
  <2>6. ResultsOK'
    BY <1>3, <2>2, <2>5 DEF SelectionInv, ResultsOK
  <2>7. OthersLater(i) /\ GensLater(i)
    BY <1>2, <1>4, <2>2, <2>3, NodePut DEF OthersLater, GensLater
  <2>8. TurnOf(f)'
    BY <2>4 DEF TurnOf
  <2>9. ~raised => AllMet(i)'
    <3>1. Generated(i)
      BY <1>2, <1>7 DEF Generated
    <3>2. ~raised => AllMet(i)
      BY <1>2, <3>1 DEF SelectionInv, GeneratorsOK
    <3> QED
      BY <1>2, <1>4, <2>7, <3>2, AllMetStays
  <2>10. TurnOK' /\ GeneratorsOK'
    BY <1>1, <1>2, <1>3, <1>4, <2>2, <2>4, <2>7, <2>8, <2>9, TopStep
  <2>11. FlagsOK'
    BY <1>4, <2>2, FlagsOKStays
  <2> QED
    BY <1>4, <2>6, <2>10, <2>11, Concluded
<1>8. CASE Self.dirty
  <2>1. PICK node, f : node = [tree[i] EXCEPT !.gens = <<>>]
                       /\ f = [Top EXCEPT !.phase = "flush"]
    OBVIOUS
  <2>2. /\ tree' = [tree EXCEPT ![i] = node] /\ read' = read \cup {Self.ebuild}
        /\ \/ Raise
           \/ /\ stack' = [stack EXCEPT ![Len(stack)] = f]
              /\ UNCHANGED <<status, returned, raised>>
    BY <1>1, <1>2, <1>8, <2>1 DEF Begin
  <2>3. node.resolved = tree[i].resolved
    BY <1>5, <2>1, NodeMoves, NoneYet
  <2>4. f.sel = i /\ f.phase = "flush" /\ f.at = 1
    BY <1>1, <1>5, <1>6, <2>1 DEF FrameOf
  <2>5. ResolvedIn(tree') /\ Len(tree') = Len(tree)
    <3>1. \A k \in 1..Len(node.resolved) : node.resolved[k] \in 1..Len(tree)
      BY <1>2, <2>3 DEF ResolvedIn
    <3> QED
      BY <1>2, <2>2, <3>1, PutResolved, NodePut
  <2>6. ResultsOK'
    <3>1. read' \subseteq Ebuilds
      BY <1>2, <2>2 DEF SelectionInv, ResultsOK, SelsOK, SelectionOK
    <3>2. status' \in {"idle", "running", "hung"} /\ returned' \in 0..Len(tree)
      <4>1. returned' \in {0, returned} /\ status' \in {"idle", status}
        BY <2>2 DEF Raise
      <4> QED
        BY <1>2, <4>1 DEF SelectionInv, ResultsOK
    <3> QED
      BY <1>3, <2>5, <3>1, <3>2 DEF SelectionInv, ResultsOK
  <2>7. CASE Raise
    BY <1>4, <2>6, <2>7, Concluded
  <2>8. CASE stack' = [stack EXCEPT ![Len(stack)] = f] /\ UNCHANGED <<status, returned, raised>>
    <3>1. OthersLater(i)
      BY <1>2, <1>4, <2>2, NodePut DEF OthersLater
    <3>2. sels'[i].dirty
      BY <1>2, <1>3, <1>8
    <3>3. TurnOf(f)'
      BY <2>4, <3>2 DEF TurnOf
    <3>4. ~Generated(i)'
      BY <1>2, <2>4, <2>8, <3>2, NotGenerated
    <3>5. TurnOK' /\ GeneratorsOK'
      BY <1>1, <1>2, <1>3, <1>4, <2>4, <2>8, <3>1, <3>3, <3>4, TopStep
    <3>6. FlagsOK'
      BY <1>4, <2>2, <2>8, FlagsOKStays
    <3> QED
      BY <1>4, <2>6, <3>5, <3>6, Concluded
  <2> QED
    BY <2>2, <2>7, <2>8
<1> QED
  BY <1>7, <1>8

\* REQUIRED_USE is met: it may be kept from now on.
LEMMA HookAdded ==
    ASSUME NEW s, IsSelection(s), NEW e,
           NEW t, t = [s EXCEPT !.global = Append(@, e)]
    PROVE  /\ IsSelection(t) /\ t.pkg = s.pkg /\ t.ebuild = s.ebuild /\ t.by = s.by
           /\ t.dirty = s.dirty
           /\ FlagsKept(s) /\ Satisfies(t, e) => FlagsKept(t)
<1>1. /\ IsSelection(t) /\ t.pkg = s.pkg /\ t.ebuild = s.ebuild /\ t.by = s.by
      /\ t.dirty = s.dirty /\ t.use = s.use /\ t.hooks = s.hooks
      /\ t.global = Append(s.global, e)
  <2>1. IsSeq(Append(s.global, e))
    BY AppendIsSeq DEF IsSelection
  <2> QED
    BY <2>1 DEF IsSelection, Fields
<1>2. \A g : (HasUse(s, g) <=> HasUse(t, g)) /\ UseState(t, g) = UseState(s, g)
  BY <1>1 DEF HasUse, UseState
<1>3. ASSUME NEW x, Satisfies(s, x) PROVE Satisfies(t, x)
  <2>1. {g \in DOMAIN IUse[x] : UseState(t, g)} = {g \in DOMAIN IUse[x] : UseState(s, g)}
    BY <1>2
  <2> QED
    BY <1>2, <1>3, <2>1 DEF Satisfies
<1>4. ASSUME FlagsKept(s), Satisfies(t, e)
      PROVE  FlagsKept(t)
  <2>1. ASSUME NEW k \in DOMAIN t.global PROVE Satisfies(t, t.global[k])
    <3>1. (k \in DOMAIN s.global /\ t.global[k] = s.global[k]) \/ t.global[k] = e
      BY <1>1, AppendHas DEF IsSelection
    <3> QED
      BY <1>3, <1>4, <3>1 DEF FlagsKept
  <2> QED
    BY <1>1, <1>2, <1>4, <2>1 DEF FlagsKept
<1> QED
  BY <1>1, <1>4

\* A selection with the hook of its REQUIRED_USE.
Hooked(s) ==
    IF Required[s.ebuild] = {} THEN s ELSE [s EXCEPT !.global = Append(@, s.ebuild)]

\* What flush_use and the hook leave of a selection.
LEMMA FlushLeaves ==
    ASSUME NEW s, SelectionOK(s), NEW r, r = FlushUse(s), NEW t, t = Hooked(r.sel)
    PROVE  /\ SelectionOK(r.sel) /\ Follows(s, r.sel) /\ r.sel.ebuild = s.ebuild
           /\ SelectionOK(t) /\ Follows(s, t) /\ (s.dirty => t.dirty) /\ t.ebuild = s.ebuild
           /\ r.ok /\ FlagsKept(s) /\ (Required[t.ebuild] = {} \/ Satisfies(t, t.ebuild))
                => FlagsKept(t)
<1>1. Applied(s, r) /\ IsSelection(s)
  BY FlushUseKeeps DEF SelectionOK
<1>2. Reflagged(s, r.sel) /\ IsSelection(r.sel)
  BY <1>1 DEF Applied, Reflagged
<1>3. SelectionOK(r.sel) /\ Follows(s, r.sel) /\ r.sel.ebuild = s.ebuild
  BY <1>2 DEF Reflagged, SelectionOK, Follows, AsChosen, IsSecond
<1>4. CASE Required[r.sel.ebuild] = {}
  <2>1. t = r.sel
    BY <1>4 DEF Hooked
  <2> QED
    BY <1>1, <1>2, <1>3, <1>4, <2>1 DEF Applied, Reflagged
<1>5. CASE Required[r.sel.ebuild] # {}
  <2>1. PICK e : e = r.sel.ebuild
    OBVIOUS
  <2>2. t = [r.sel EXCEPT !.global = Append(@, e)]
    BY <1>5, <2>1 DEF Hooked
  <2>3. /\ IsSelection(t) /\ t.pkg = r.sel.pkg /\ t.ebuild = r.sel.ebuild /\ t.by = r.sel.by
        /\ t.dirty = r.sel.dirty
        /\ FlagsKept(r.sel) /\ Satisfies(t, e) => FlagsKept(t)
    BY <1>2, <2>2, HookAdded
  <2>4. SelectionOK(t) /\ Follows(s, t) /\ (s.dirty => t.dirty) /\ t.ebuild = s.ebuild
    BY <1>2, <1>3, <2>3 DEF Reflagged, SelectionOK, Follows, AsChosen, IsSecond
  <2> QED
    BY <1>1, <1>3, <1>5, <2>1, <2>3, <2>4 DEF Applied
<1> QED
  BY <1>4, <1>5

\* regenerate applies the scheduled changes.
LEMMA FlushSelects ==
    ASSUME SelectionInv, ResolverInv', Flush
    PROVE  SelectionInv'
<1>1. PICK i, s, r : i = Top.sel /\ s = Self /\ r = FlushUse(s)
  OBVIOUS
<1>2. PICK t : t = Hooked(r.sel)
  OBVIOUS
<1>3. /\ status = "running" /\ Top.phase = "flush" /\ ResolverInv /\ ObjectsOK /\ ObjectsOK'
      /\ Len(sels) = Len(tree) /\ i \in 1..Len(tree) /\ Len(tree) \in Nat
      /\ s = sels[i] /\ Top = stack[Len(stack)] /\ TurnOf(Top)
  BY <1>1, TopTurn DEF Flush, InPhase, ResolverInv, Self
<1>4. SelectionOK(s) /\ s.dirty /\ Top.at = 1
  BY <1>1, <1>3 DEF SelectionInv, SelsOK, TurnOf
<1>5. /\ SelectionOK(r.sel) /\ Follows(s, r.sel) /\ r.sel.ebuild = s.ebuild
      /\ SelectionOK(t) /\ Follows(s, t) /\ t.dirty /\ t.ebuild = s.ebuild
      /\ r.ok /\ FlagsKept(s) /\ (Required[t.ebuild] = {} \/ Satisfies(t, t.ebuild))
           => FlagsKept(t)
  <2>1. SelectionOK(s) /\ r = FlushUse(s)
    BY <1>1, <1>4
  <2>2. /\ SelectionOK(r.sel) /\ Follows(s, r.sel) /\ r.sel.ebuild = s.ebuild
        /\ SelectionOK(t) /\ Follows(s, t) /\ (s.dirty => t.dirty) /\ t.ebuild = s.ebuild
        /\ r.ok /\ FlagsKept(s) /\ (Required[t.ebuild] = {} \/ Satisfies(t, t.ebuild))
             => FlagsKept(t)
    BY <1>2, <2>1, FlushLeaves
  <2> QED
    BY <1>4, <2>2
<1>6. UNCHANGED <<deps, read, tree, slots, session>>
  BY DEF Flush
<1>7. PICK f : f = [Top EXCEPT !.phase = "deps", !.ebuild = t.ebuild]
  OBVIOUS
<1>8. \/ sels' = [sels EXCEPT ![i] = r.sel] /\ Raise
      \/ sels' = [sels EXCEPT ![i] = t] /\ Raise
      \/ /\ r.ok /\ sels' = [sels EXCEPT ![i] = t]
         /\ Required[t.ebuild] = {} \/ Satisfies(t, t.ebuild)
         /\ stack' = [stack EXCEPT ![Len(stack)] = f]
         /\ UNCHANGED <<status, returned, raised>>
  <2>1. CASE ~r.ok
    BY <1>1, <2>1 DEF Flush
  <2>2. CASE r.ok
    <3>1. /\ sels' = [sels EXCEPT ![i] = t]
          /\ IF Required[t.ebuild] = {} \/ Satisfies(t, t.ebuild)
             THEN /\ stack' = [stack EXCEPT ![Len(stack)].phase = "deps",
                                            ![Len(stack)].ebuild = t.ebuild]
                  /\ UNCHANGED <<status, returned, raised>>
             ELSE Raise
      BY <1>1, <1>2, <2>2 DEF Flush, Hooked
    <3>2. CASE Required[t.ebuild] = {} \/ Satisfies(t, t.ebuild)
      <4>1. stack' = [stack EXCEPT ![Len(stack)] = f]
        BY <1>3, <1>7, <3>1, <3>2
      <4> QED
        BY <2>2, <3>1, <3>2, <4>1
    <3> QED
      BY <3>1, <3>2
  <2> QED
    BY <2>1, <2>2
<1>9. ResultsOK'
  <2>1. returned' \in {0, returned} /\ status' \in {"idle", status}
    BY <1>8 DEF Raise
  <2>2. status' \in {"idle", "running", "hung"} /\ returned' \in 0..Len(tree)
    BY <1>3, <2>1 DEF SelectionInv, ResultsOK
  <2> QED
    BY <1>6, <2>2, QuietResults
<1>10. CASE sels' = [sels EXCEPT ![i] = r.sel] /\ Raise
  <2>1. SelsOK'
    BY <1>3, <1>5, <1>6, <1>10, PutStep
  <2> QED
    BY <1>9, <1>10, <2>1, Concluded
<1>11. CASE sels' = [sels EXCEPT ![i] = t]
  <2>1. /\ Later /\ NewOnesDirty /\ SelsOK' /\ sels'[i] = t /\ Len(sels') = Len(sels)
        /\ \A j \in 1..Len(sels) : j # i => sels'[j] = sels[j]
    BY <1>3, <1>5, <1>6, <1>11, PutStep
  <2>2. CASE Raise
    BY <1>9, <2>1, <2>2, Concluded
  <2>3. CASE /\ r.ok /\ (Required[t.ebuild] = {} \/ Satisfies(t, t.ebuild))
             /\ stack' = [stack EXCEPT ![Len(stack)] = f]
             /\ UNCHANGED <<status, returned, raised>>
    <3>1. FlagsOK'
      <4>1. ASSUME ~raised, NEW j \in 1..Len(sels'), AsChosen(sels'[j])
            PROVE  FlagsKept(sels'[j])
        <5>1. FlagsIn(sels)
          BY <4>1 DEF SelectionInv, FlagsOK
        <5>2. CASE j = i
          <6>1. AsChosen(s)
            BY <1>5, <2>1, <4>1, <5>2 DEF Follows, AsChosen
          <6>2. FlagsKept(s)
            BY <1>3, <5>1, <6>1 DEF FlagsIn
          <6> QED
            BY <1>5, <2>1, <2>3, <5>2, <6>2
        <5>3. CASE j # i
          BY <2>1, <4>1, <5>1, <5>3 DEF FlagsIn
        <5> QED
          BY <5>2, <5>3
      <4>2. ~raised => FlagsIn(sels')
        BY <4>1 DEF FlagsIn
      <4> QED
        BY <1>6, <2>3, <4>2, FlagsOKStays
    <3>2. f.sel = i /\ f.phase = "deps" /\ f.at = 1 /\ f.ebuild = t.ebuild
      <4>1. PICK E : Top \in FrameOf(E)
        BY <1>3, TopIs
      <4> QED
        BY <1>1, <1>4, <1>7, <4>1 DEF FrameOf
    <3>3. OthersLater(i)
      BY <1>3, <1>6, <2>1, QuietGens DEF OthersLater, DirtyStays
    <3>4. TurnOf(f)'
      <4>1. t.ebuild \in Ebuilds
        BY <1>5 DEF SelectionOK
      <4>2. Len(deps'[t.ebuild]) \in Nat
        BY <1>6, <4>1, DependenciesAreAtoms DEF SelectionInv, ResultsOK, IsSequence
      <4>3. f.at <= Len(deps'[f.ebuild]) + 1 /\ f.at - 1 = 0
        BY <3>2, <4>2
      <4>4. MetUpTo(f.sel, f.ebuild, 0)'
        BY DEF MetUpTo
      <4> QED
        BY <1>5, <2>1, <3>2, <4>1, <4>3, <4>4 DEF TurnOf
    <3>5. ~Generated(i)'
      BY <1>3, <1>5, <2>1, <2>3, <3>2, NotGenerated
    <3>6. TurnOK' /\ GeneratorsOK'
      BY <1>1, <1>3, <1>6, <2>1, <2>3, <3>2, <3>3, <3>4, <3>5, TopStep
    <3> QED
      BY <1>9, <2>1, <3>1, <3>6, Concluded
  <2> QED
    BY <1>8, <2>2, <2>3
<1> QED
  BY <1>8, <1>10, <1>11

\* The last dependency was met, the children are next.
LEMMA DepsDoneSelects ==
    ASSUME SelectionInv, ResolverInv', DepsDone
    PROVE  SelectionInv'
<1>1. PICK i, s, f : i = Top.sel /\ s = sels[i] /\ f = [Top EXCEPT !.phase = "children", !.at = 1]
  OBVIOUS
<1>2. PICK t, node : t = [s EXCEPT !.dirty = FALSE] /\ node = [tree[i] EXCEPT !.resolved = <<>>]
  OBVIOUS
<1>3. /\ status = "running" /\ Top.phase = "deps" /\ ResolverInv /\ ObjectsOK /\ ObjectsOK'
      /\ Len(sels) = Len(tree) /\ i \in 1..Len(tree) /\ Len(tree) \in Nat
      /\ ResolvedIn(tree) /\ Top = stack[Len(stack)] /\ TurnOf(Top) /\ Top.at \in Nat \ {0}
      /\ Top.at > Len(deps[Top.ebuild])
  BY <1>1, TopTurn DEF DepsDone, InPhase, ResolverInv, SelectionInv, ResultsOK
<1>4. UNCHANGED <<deps, read, slots, session, status, returned, raised>>
  BY DEF DepsDone
<1>5. /\ sels' = [sels EXCEPT ![i] = t] /\ tree' = [tree EXCEPT ![i] = node]
      /\ stack' = [stack EXCEPT ![Len(stack)] = f]
  BY <1>1, <1>2, <1>3 DEF DepsDone
<1>6. tree[i] \in Node
  BY <1>3, GensAre DEF ObjectsOK
<1>7. node.gens = tree[i].gens /\ node.resolved = <<>>
  BY <1>2, <1>6, NodeMoves, NoneYet
<1>8. f.sel = i /\ f.phase = "children" /\ f.at = 1
  <2>1. PICK E : Top \in FrameOf(E)
    BY <1>3, TopIs
  <2> QED
    BY <1>1, <2>1 DEF FrameOf
<1>9. /\ SelectionOK(t) /\ Follows(s, t) /\ (FlagsKept(s) => FlagsKept(t))
      /\ t.ebuild = s.ebuild /\ (AsChosen(t) => AsChosen(s))
  <2>1. SelectionOK(s)
    BY <1>1, <1>3 DEF SelectionInv, SelsOK
  <2>2. /\ IsSelection(t) /\ t.pkg = s.pkg /\ t.ebuild = s.ebuild /\ t.by = s.by
        /\ t.use = s.use /\ t.hooks = s.hooks /\ t.global = s.global
    BY <1>2, <2>1 DEF SelectionOK, IsSelection, Fields
  <2>3. FlagsKept(s) => FlagsKept(t)
    <3>1. \A g : (HasUse(s, g) => HasUse(t, g)) /\ UseState(t, g) = UseState(s, g)
      BY <2>2 DEF HasUse, UseState
    <3> QED
      BY <2>2, <3>1, FlagsStay
  <2> QED
    BY <2>1, <2>2, <2>3 DEF SelectionOK, Follows, AsChosen, IsSecond
<1>10. /\ Later /\ NewOnesDirty /\ SelsOK' /\ sels'[i] = t /\ Len(sels') = Len(sels)
       /\ \A j \in 1..Len(sels) : j # i => sels'[j] = sels[j]
  BY <1>1, <1>3, <1>4, <1>5, <1>9, PutStep
<1>11. ResolvedIn(tree') /\ Len(tree') = Len(tree)
  <2>1. \A k \in 1..Len(node.resolved) : node.resolved[k] \in 1..Len(tree)
    BY <1>7, NoneYet
  <2> QED
    BY <1>3, <1>5, <2>1, PutResolved, NodePut
<1>12. ResultsOK'
  BY <1>4, <1>11 DEF SelectionInv, ResultsOK
<1>13. OthersLater(i) /\ GensLater(i)
  BY <1>3, <1>5, <1>7, <1>10, NodePut DEF OthersLater, GensLater, DirtyStays
<1>14. FlagsOK'
  <2>1. ASSUME ~raised, NEW j \in 1..Len(sels'), AsChosen(sels'[j])
        PROVE  FlagsKept(sels'[j])
    <3>1. FlagsIn(sels)
      BY <2>1 DEF SelectionInv, FlagsOK
    <3>2. CASE j = i
      BY <1>1, <1>3, <1>9, <1>10, <2>1, <3>1, <3>2 DEF FlagsIn
    <3>3. CASE j # i
      BY <1>10, <2>1, <3>1, <3>3 DEF FlagsIn
    <3> QED
      BY <3>2, <3>3
  <2>2. ~raised => FlagsIn(sels')
    BY <2>1 DEF FlagsIn
  <2> QED
    BY <1>4, <2>2, FlagsOKStays
<1>15. ~raised => AllMet(i)'
  <2>1. PICK e, n : e = Top.ebuild /\ n = Len(deps[e])
    OBVIOUS
  <2>2. /\ e \in Ebuilds /\ Top.at <= n + 1 /\ (AsChosen(s) => e = s.ebuild)
        /\ ~raised /\ AsChosen(s) => MetUpTo(i, e, Top.at - 1)
    BY <1>1, <1>3, <2>1 DEF TurnOf
  <2>3. n \in Nat
    BY <2>1, <2>2, DependenciesAreAtoms DEF SelectionInv, ResultsOK, IsSequence
  <2>4. Top.at - 1 = n
    BY <1>3, <2>1, <2>2, <2>3
  <2>5. ~raised /\ AsChosen(s) => MetUpTo(i, e, n)
    BY <2>2, <2>4
  <2>6. ~raised => AllMet(i)
    BY <1>1, <2>1, <2>2, <2>5 DEF AllMet
  <2> QED
    BY <1>3, <1>10, <1>13, <2>6, AllMetStays
<1>16. TurnOf(f)'
  BY <1>8 DEF TurnOf
<1>17. TurnOK' /\ GeneratorsOK'
  BY <1>1, <1>3, <1>4, <1>5, <1>8, <1>10, <1>13, <1>15, <1>16, TopStep
<1> QED
  BY <1>10, <1>12, <1>14, <1>17, Concluded

\* A child that was resolved is skipped.
LEMMA ChildResolvedSelects ==
    ASSUME SelectionInv, ResolverInv', ChildResolved
    PROVE  SelectionInv'
<1>1. PICK i, c : i = Top.sel /\ c = Child
  OBVIOUS
<1>2. PICK f, node : /\ f = [Top EXCEPT !.at = Top.at + 1]
                     /\ node = [tree[i] EXCEPT !.resolved = Append(tree[i].resolved, c)]
  OBVIOUS
<1>3. /\ status = "running" /\ Top.phase = "children" /\ ResolverInv /\ ObjectsOK /\ ObjectsOK'
      /\ Len(sels) = Len(tree) /\ i \in 1..Len(tree) /\ Len(tree) \in Nat /\ i \in session
      /\ ResolvedIn(tree) /\ Top = stack[Len(stack)] /\ Top.at \in Nat \ {0}
      /\ \A k \in 1..Len(stack) : k # Len(stack) => stack[k].sel # i
  BY <1>1, TopTurn DEF ChildResolved, MoreChildren, InPhase, ResolverInv, SelectionInv, ResultsOK
<1>4. UNCHANGED <<deps, read, sels, slots, session, status, returned, raised>>
  BY DEF ChildResolved
<1>5. tree' = [tree EXCEPT ![i] = node] /\ stack' = [stack EXCEPT ![Len(stack)] = f]
  BY <1>1, <1>2, <1>3 DEF ChildResolved, Advance
<1>6. c \in 1..Len(tree)
  BY <1>1, <1>3 DEF ChildResolved, ObjectsOK
<1>7. tree[i] \in Node /\ tree[i].resolved \in Seq(Nat) /\ c \in Nat
  BY <1>3, <1>6, GensAre DEF ObjectsOK, Node
<1>8. /\ node.gens = tree[i].gens
      /\ \A k \in 1..Len(node.resolved) : node.resolved[k] \in 1..Len(tree)
  <2> DEFINE old == tree[i].resolved
             new == Append(old, c)
  <2>1. /\ new \in Seq(Nat) /\ Len(new) = Len(old) + 1 /\ new[Len(old) + 1] = c
        /\ Len(old) \in Nat /\ \A k \in 1..Len(old) : new[k] = old[k]
    BY <1>7, AppendProperties
  <2>2. \A k \in 1..Len(old) : old[k] \in 1..Len(tree)
    BY <1>3 DEF ResolvedIn
  <2> HIDE DEF new
  <2>3. node = [tree[i] EXCEPT !.resolved = new]
    BY <1>2 DEF new
  <2>4. node.gens = tree[i].gens /\ node.resolved = new
    BY <1>7, <2>1, <2>3, NodeMoves
  <2> HIDE DEF old
  <2>5. \A k \in 1..(Len(old) + 1) : k \in 1..Len(old) \/ k = Len(old) + 1
    BY <2>1
  <2> QED
    BY <1>6, <2>1, <2>2, <2>4, <2>5
<1>9. f.sel = i /\ f.phase = "children"
  <2>1. PICK E : Top \in FrameOf(E)
    BY <1>3, TopIs
  <2> QED
    BY <1>1, <1>2, <1>3, <2>1 DEF FrameOf
<1>10. /\ Later /\ NewOnesDirty /\ SelsOK'
       /\ \A j \in 1..Len(tree) : DirtyStays(j)
       /\ ~raised => FlagsIn(sels')
  BY <1>4, SameStep
<1>11. ResolvedIn(tree') /\ Len(tree') = Len(tree)
  BY <1>3, <1>5, <1>8, PutResolved, NodePut
<1>12. ResultsOK'
  BY <1>4, <1>11 DEF SelectionInv, ResultsOK
<1>13. OthersLater(i) /\ GensLater(i)
  BY <1>3, <1>5, <1>8, <1>10, NodePut DEF OthersLater, GensLater
<1>14. FlagsOK'
  BY <1>4, <1>10, FlagsOKStays
<1>15. ~raised => AllMet(i)'
  <2>1. Generated(i)
    BY <1>3 DEF Generated, Depth
  <2>2. ~raised => AllMet(i)
    BY <1>3, <2>1 DEF SelectionInv, GeneratorsOK
  <2> QED
    BY <1>3, <1>10, <1>13, <2>2, AllMetStays
<1>16. TurnOf(f)'
  BY <1>9 DEF TurnOf
<1>17. TurnOK' /\ GeneratorsOK'
  BY <1>1, <1>3, <1>4, <1>5, <1>9, <1>10, <1>13, <1>15, <1>16, TopStep
<1> QED
  BY <1>10, <1>12, <1>14, <1>17, Concluded

\* A call of regenerate begins for selection c, which is in the session from
\* now on; answered by some step before, or not.
LEMMA BegunSelects ==
    ASSUME SelectionInv, ResolverInv', NEW c, c \notin session, Descend(c, stack),
           Later, NewOnesDirty, SelsOK', ResultsOK', FlagsOK', raised' = raised,
           \A j \in 1..Len(tree) : GensLater(j) /\ DirtyStays(j)
    PROVE  SelectionInv'
<1>1. /\ stack' = Append(stack, Frame(c)) /\ session' = session \cup {c}
      /\ ObjectsOK /\ ObjectsOK' /\ Len(sels) = Len(tree)
  BY DEF Descend, SelectionInv, ResolverInv, ObjectsOK
<1>2. PICK n : n = Depth
  OBVIOUS
<1>3. /\ Depth' = n + 1 /\ n \in Nat /\ stack'[n + 1] = Frame(c)
      /\ \A k \in 1..n : stack'[k] = stack[k]
  <2>1. PICK E : stack \in Seq(E)
    BY DEF SelectionInv, ResolverInv, FramesOK
  <2>2. stack \in Seq(E \cup {Frame(c)}) /\ Frame(c) \in E \cup {Frame(c)}
    BY <2>1
  <2> QED
    BY <1>1, <1>2, <2>2, AppendProperties DEF Depth
<1>4. Frame(c).sel = c /\ Frame(c).phase = "begin"
  BY DEF Frame
<1>5. \A k \in 1..(n + 1) : k = n + 1 \/ k \in 1..n
  BY <1>3
<1>6. \A k \in 1..Depth' : stack'[k].phase = "begin" \/ (k \in 1..Depth /\ stack'[k] = stack[k])
  BY <1>2, <1>3, <1>4, <1>5
<1>7. ASSUME NEW j \in 1..Len(sels'), Generated(j)'
      PROVE  j \in 1..Len(sels) /\ Generated(j)
  <2>1. CASE ~sels'[j].dirty
    <3>1. j \in 1..Len(sels)
      BY <2>1 DEF NewOnesDirty
    <3>2. DirtyStays(j)
      BY <1>1, <3>1
    <3> QED
      BY <2>1, <3>1, <3>2 DEF Generated, DirtyStays
  <2>2. CASE /\ j \in session'
             /\ \A k \in 1..(n + 1) : stack'[k].sel = j => stack'[k].phase = "children"
    <3>1. n + 1 \in 1..(n + 1) /\ \A k \in 1..n : k \in 1..(n + 1)
      BY <1>3
    <3>2. j # c
      BY <1>3, <1>4, <2>2, <3>1
    <3>3. j \in session /\ j \in 1..Len(sels)
      BY <1>1, <2>2, <3>2 DEF ObjectsOK
    <3>4. \A k \in 1..n : stack[k].sel = j => stack[k].phase = "children"
      BY <1>3, <2>2, <3>1
    <3> QED
      BY <1>2, <3>3, <3>4 DEF Generated
  <2> QED
    BY <1>3, <1>7, <2>1, <2>2 DEF Generated
<1>8. TurnOK' /\ GeneratorsOK'
  BY <1>1, <1>6, <1>7, CallStep
<1> QED
  BY <1>8, Concluded

\* A child is resolved by a call of its own.
LEMMA ChildDescendSelects ==
    ASSUME SelectionInv, ResolverInv', ChildDescend
    PROVE  SelectionInv'
<1>1. PICK c : c = Child
  OBVIOUS
<1>2. /\ c \notin session /\ Descend(c, stack)
      /\ UNCHANGED <<deps, read, sels, tree, slots, status, returned, raised>>
  BY <1>1 DEF ChildDescend, emerge
<1>3. /\ Later /\ NewOnesDirty /\ SelsOK'
      /\ \A j \in 1..Len(tree) : DirtyStays(j)
      /\ ~raised => FlagsIn(sels')
  BY <1>2, SameStep
<1>4. \A j \in 1..Len(tree) : GensLater(j)
  BY <1>2, QuietGens
<1>5. ResultsOK'
  BY <1>2 DEF SelectionInv, ResultsOK
<1>6. FlagsOK'
  BY <1>2, <1>3, FlagsOKStays
<1> QED
  BY <1>2, <1>3, <1>4, <1>5, <1>6, BegunSelects

\* A step after which fewer calls are under way, or as many; what it leaves of
\* the session was generated before.
LEMMA LeftSelects ==
    ASSUME SelectionInv, ResolverInv', Later, NewOnesDirty, SelsOK', ResultsOK', FlagsOK',
           raised' = raised, session' \subseteq session,
           \A j \in 1..Len(tree) : GensLater(j) /\ DirtyStays(j),
           \A k \in 1..Depth' : k \in 1..Depth /\ stack'[k] = stack[k],
           \A k \in 1..Depth : k \in 1..Depth' \/ stack[k].phase = "children"
    PROVE  SelectionInv'
<1>1. ObjectsOK /\ ObjectsOK' /\ Len(sels) = Len(tree)
  BY DEF SelectionInv, ResolverInv, ObjectsOK
<1>2. ASSUME NEW j \in 1..Len(sels'), Generated(j)'
      PROVE  j \in 1..Len(sels) /\ Generated(j)
  <2>1. CASE ~sels'[j].dirty
    <3>1. j \in 1..Len(sels)
      BY <2>1 DEF NewOnesDirty
    <3>2. DirtyStays(j)
      BY <1>1, <3>1
    <3> QED
      BY <2>1, <3>1, <3>2 DEF Generated, DirtyStays
  <2>2. CASE /\ j \in session'
             /\ \A k \in 1..Depth' : stack'[k].sel = j => stack'[k].phase = "children"
    <3>1. j \in session /\ j \in 1..Len(sels)
      BY <1>1, <2>2 DEF ObjectsOK
    <3>2. \A k \in 1..Depth : stack[k].sel = j => stack[k].phase = "children"
      BY <2>2
    <3> QED
      BY <3>1, <3>2 DEF Generated
  <2> QED
    BY <1>2, <2>1, <2>2 DEF Generated
<1>3. TurnOK' /\ GeneratorsOK'
  BY <1>1, <1>2, CallStep
<1> QED
  BY <1>3, Concluded

\* A call returns to the one that made it.
LEMMA ReturnSelects ==
    ASSUME SelectionInv, ResolverInv', Return
    PROVE  SelectionInv'
<1>1. PICK n : n = Depth
  OBVIOUS
<1>2. /\ status = "running" /\ Top.phase = "children" /\ stack' = Below
      /\ UNCHANGED <<deps, read, sels, tree, slots, session, raised>>
      /\ status' \in {"idle", status} /\ returned' \in {returned, Top.sel}
  BY DEF Return, InPhase, emerge
<1>3. /\ n \in Nat \ {0} /\ Top = stack[n] /\ Top.sel \in 1..Len(tree) /\ Len(tree) \in Nat
  BY <1>1, <1>2, TopTurn DEF Depth
<1>4. Depth' = n - 1 /\ \A k \in 1..(n - 1) : stack'[k] = stack[k]
  <2>1. PICK E : stack \in Seq(E)
    BY DEF SelectionInv, ResolverInv, FramesOK
  <2>2. stack' = SubSeq(stack, 1, n - 1) /\ n = Len(stack)
    BY <1>1, <1>2 DEF Below, Depth
  <2> DEFINE s == SubSeq(stack, 1, n - 1)
  <2>3. Len(s) = n - 1 /\ \A k \in 1..(n - 1) : s[k] = stack[k]
    BY <1>3, <2>1, <2>2, SubSeqProperties
  <2> HIDE DEF s
  <2>4. stack' = s
    BY <2>2 DEF s
  <2> QED
    BY <2>3, <2>4 DEF Depth
<1>5. /\ \A k \in 1..(n - 1) : k \in 1..n
      /\ \A k \in 1..n : k \in 1..(n - 1) \/ k = n
  BY <1>3
<1>6. /\ \A k \in 1..Depth' : k \in 1..Depth /\ stack'[k] = stack[k]
      /\ \A k \in 1..Depth : k \in 1..Depth' \/ stack[k].phase = "children"
  BY <1>1, <1>2, <1>3, <1>4, <1>5
<1>7. /\ Later /\ NewOnesDirty /\ SelsOK'
      /\ \A j \in 1..Len(tree) : DirtyStays(j)
      /\ ~raised => FlagsIn(sels')
  BY <1>2, SameStep
<1>8. \A j \in 1..Len(tree) : GensLater(j)
  BY <1>2, QuietGens
<1>9. ResultsOK'
  <2>1. status' \in {"idle", "running", "hung"} /\ returned' \in 0..Len(tree)
    <3>1. status \in {"idle", "running", "hung"} /\ returned \in 0..Len(tree)
      BY DEF SelectionInv, ResultsOK
    <3> QED
      BY <1>2, <1>3, <3>1
  <2> QED
    BY <1>2, <2>1, QuietResults
<1>10. FlagsOK'
  BY <1>2, <1>7, FlagsOKStays
<1> QED
  BY <1>2, <1>6, <1>7, <1>8, <1>9, <1>10, LeftSelects

\* The session is cleared between requests.
LEMMA ClearSessionSelects ==
    ASSUME SelectionInv, ResolverInv', ClearSession
    PROVE  SelectionInv'
<1>1. /\ UNCHANGED <<deps, read, sels, tree, slots, stack, status, raised>>
      /\ session' = {} /\ returned' = 0
  BY DEF ClearSession, emerge
<1>2. /\ Later /\ NewOnesDirty /\ SelsOK'
      /\ \A j \in 1..Len(tree) : DirtyStays(j)
      /\ ~raised => FlagsIn(sels')
  BY <1>1, SameStep
<1>3. \A j \in 1..Len(tree) : GensLater(j)
  BY <1>1, QuietGens
<1>4. ResultsOK'
  <2>1. status' \in {"idle", "running", "hung"} /\ 0 \in 0..Len(tree)
    BY <1>1 DEF SelectionInv, ResultsOK, ResolverInv, ObjectsOK, GensIn
  <2> QED
    BY <1>1, <2>1, QuietResults
<1>5. FlagsOK'
  BY <1>1, <1>2, FlagsOKStays
<1>6. Depth' = Depth
  BY <1>1 DEF Depth
<1> QED
  BY <1>1, <1>2, <1>3, <1>4, <1>5, <1>6, LeftSelects

\* A new Emerge starts from nothing.
LEMMA NewEmergeSelects ==
    ASSUME SelectionInv, ResolverInv', NewEmerge
    PROVE  SelectionInv'
<1>1. /\ sels' = <<>> /\ tree' = <<>> /\ session' = {} /\ status' = "idle" /\ returned' = 0
      /\ slots' = [p \in Packages |-> <<>>] /\ UNCHANGED <<deps, read, stack>>
      /\ stack = <<>>
  BY DEF NewEmerge, SelectionInv, ResolverInv, RunningOK
<1>2. Len(<<>>) = 0 /\ DOMAIN <<>> = {} /\ 1..0 = {}
  OBVIOUS
<1>3. SelsOK'
  BY <1>1, <1>2 DEF SelsOK, FiledRight
<1>4. ResultsOK'
  BY <1>1, <1>2 DEF SelectionInv, ResultsOK, ResolvedIn
<1>5. FlagsOK' /\ GeneratorsOK'
  BY <1>1, <1>2 DEF FlagsOK, FlagsIn, GeneratorsOK
<1>6. TurnOK'
  BY <1>1, <1>2 DEF TurnOK, Depth
<1> QED
  BY <1>3, <1>4, <1>5, <1>6 DEF SelectionInv

\* The initial states.
LEMMA InitSelects == Init => SelectionInv
<1> SUFFICES ASSUME Init PROVE SelectionInv
  OBVIOUS
<1>1. /\ sels = <<>> /\ tree = <<>> /\ session = {} /\ stack = <<>> /\ status = "idle"
      /\ slots = [p \in Packages |-> <<>>] /\ returned = 0 /\ deps \in Repositories
      /\ read \in Earlier
  BY DEF Init
<1>2. Len(<<>>) = 0 /\ DOMAIN <<>> = {} /\ 1..0 = {}
  OBVIOUS
<1>3. SelsOK
  BY <1>1, <1>2 DEF SelsOK, FiledRight
<1>4. ResultsOK
  BY <1>1, <1>2, EarlierAreEbuilds DEF ResultsOK, ResolvedIn
<1>5. FlagsOK /\ GeneratorsOK
  BY <1>1, <1>2 DEF FlagsOK, FlagsIn, GeneratorsOK
<1>6. TurnOK
  BY <1>1, <1>2 DEF TurnOK, Depth
<1> QED
  BY <1>3, <1>4, <1>5, <1>6, InitInv DEF SelectionInv
\* Nothing happens to the selections.
LEMMA QuietSelects ==
    ASSUME SelectionInv, ResolverInv', returned' \in {0, returned},
           UNCHANGED <<deps, read, sels, tree, slots, session, stack, status, raised>>
    PROVE  SelectionInv'
<1>1. /\ Later /\ NewOnesDirty /\ SelsOK'
      /\ \A j \in 1..Len(tree) : DirtyStays(j)
      /\ ~raised => FlagsIn(sels')
  BY SameStep
<1>2. \A j \in 1..Len(tree) : GensLater(j)
  BY QuietGens
<1>3. ResultsOK'
  <2>1. /\ status' \in {"idle", "running", "hung"} /\ 0 \in 0..Len(tree)
        /\ returned \in 0..Len(tree)
    BY DEF SelectionInv, ResultsOK, ResolverInv, ObjectsOK, GensIn
  <2> QED
    BY <2>1, QuietResults
<1>4. FlagsOK'
  BY <1>1, FlagsOKStays
<1>5. Depth' = Depth
  BY DEF Depth
<1> QED
  BY <1>1, <1>2, <1>3, <1>4, <1>5, LeftSelects

\* A request of the user selects an atom and resolves it.
LEMMA RequestSelects ==
    ASSUME SelectionInv, ResolverInv', NEW a \in Requests, Request(a)
    PROVE  SelectionInv'
<1>1. /\ ObjectsOK /\ ObjectsOK' /\ status = "idle" /\ stack = <<>> /\ IsAtom(a)
      /\ Len(sels) = Len(tree) /\ ResolvedIn(tree) /\ UNCHANGED <<deps, read>>
  BY RequestsAreAtoms
     DEF Request, SelectionInv, ResolverInv, RunningOK, ObjectsOK, ResultsOK
<1>2. CASE a.blocks
  <2>1. /\ UNCHANGED <<sels, tree, slots, session, stack, status, raised>>
        /\ returned' = 0
    BY <1>2 DEF Request
  <2> QED
    BY <1>1, <2>1, QuietSelects
<1>3. CASE ~a.blocks
  <2>1. PICK r : r = Resolved(a)
    OBVIOUS
  <2>2. /\ sels' = r.sels /\ tree' = r.tree /\ slots' = r.slots
        /\ \/ Raise
           \/ r.how = "hang" /\ Hang /\ UNCHANGED session
           \/ /\ r.how = "ok" /\ returned' = r.got
              /\ UNCHANGED <<session, stack, status, raised>>
           \/ /\ r.how = "ok" /\ r.got # 0 /\ r.got \notin session
              /\ Descend(r.got, <<>>)
              /\ status' = "running" /\ returned' = 0 /\ UNCHANGED raised
    BY <1>3, <2>1 DEF Request
  <2>3. /\ Later /\ NewOnesDirty /\ SelsOK'
        /\ \A j \in 1..Len(tree) : DirtyStays(j)
        /\ r.how # "raise" /\ ~raised => FlagsIn(sels')
    BY <1>1, <2>1, <2>2, AnswerStep
  <2>4. Sound(r)
    BY <1>1, <2>1, ResolvedIsSound
  <2>5. Grown(tree') /\ r.got \in 0..Len(tree')
    BY <2>2, <2>4 DEF Sound
  <2>6. /\ ResolvedIn(tree') /\ Len(tree) <= Len(tree') /\ Len(tree) \in Nat /\ Len(tree') \in Nat
        /\ \A j \in 1..Len(tree) : GensLater(j)
    BY <1>1, <2>5, GrownResolved
  <2>7. ResultsOK'
    <3>1. returned \in 0..Len(tree) /\ status \in {"idle", "running", "hung"}
      BY DEF SelectionInv, ResultsOK
    <3>2. returned' \in {0, returned, r.got} /\ status' \in {"idle", "running", "hung"}
      BY <1>1, <2>2 DEF Raise, Hang
    <3>3. returned' \in 0..Len(tree')
      BY <2>5, <2>6, <3>1, <3>2
    <3> QED
      BY <1>1, <2>6, <3>2, <3>3 DEF SelectionInv, ResultsOK
  <2>8. CASE Raise
    BY <2>3, <2>7, <2>8, Concluded
  <2>9. CASE r.how # "raise" /\ UNCHANGED <<session, stack, raised>>
    <3>1. FlagsOK'
      BY <1>1, <2>3, <2>9, FlagsOKStays
    <3>2. Depth' = Depth
      BY <2>9 DEF Depth
    <3> QED
      BY <2>3, <2>6, <2>7, <2>9, <3>1, <3>2, LeftSelects
  <2>10. CASE /\ r.how = "ok" /\ r.got # 0 /\ r.got \notin session
              /\ Descend(r.got, <<>>) /\ UNCHANGED raised
    <3>1. FlagsOK'
      BY <1>1, <2>3, <2>10, FlagsOKStays
    <3>2. PICK c : c = r.got
      OBVIOUS
    <3>3. c \notin session /\ Descend(c, stack)
      BY <1>1, <2>10, <3>2
    <3> QED
      BY <2>3, <2>6, <2>7, <2>10, <3>1, <3>3, BegunSelects
  <2>11. Hang => UNCHANGED <<stack, raised>>
    BY DEF Hang
  <2> QED
    BY <2>2, <2>8, <2>9, <2>10, <2>11
<1> QED
  BY <1>2, <1>3

\* Every step keeps that, too.
LEMMA StepSelects == SelectionInv /\ [Next]_vars => SelectionInv'
<1> SUFFICES ASSUME SelectionInv, [Next]_vars PROVE SelectionInv'
  OBVIOUS
<1>0. ResolverInv'
  BY StepKeeps DEF SelectionInv
<1>1. CASE NewEmerge
  BY <1>0, <1>1, NewEmergeSelects
<1>2. CASE ClearSession
  BY <1>0, <1>2, ClearSessionSelects
<1>3. CASE \E a \in Requests : Request(a)
  BY <1>0, <1>3, RequestSelects
<1>4. CASE Begin
  BY <1>0, <1>4, BeginSelects
<1>5. CASE Flush
  BY <1>0, <1>5, FlushSelects
<1>6. CASE DepAtom
  BY <1>0, <1>6, DepAtomSelects
<1>7. CASE DepBlock
  <2>1. /\ MoreDeps /\ (Dep.kind = "atom" => Dep.atom.blocks) /\ Advance
        /\ UNCHANGED <<deps, read, sels, tree, slots, session>>
        /\ UNCHANGED <<status, returned, raised>>
    BY <1>7 DEF DepBlock
  <2> QED
    BY <1>0, <2>1, OtherDepSelects
<1>8. CASE DepConditional
  <2>1. /\ MoreDeps /\ (Dep.kind = "atom" => Dep.atom.blocks)
        /\ UNCHANGED <<deps, read, sels, tree, slots, session>>
        /\ Raise \/ (Advance /\ UNCHANGED <<status, returned, raised>>)
    BY <1>8 DEF DepConditional, emerge
  <2> QED
    BY <1>0, <2>1, OtherDepSelects
<1>9. CASE DepGroup
  <2>1. /\ MoreDeps /\ (Dep.kind = "atom" => Dep.atom.blocks) /\ Advance
        /\ UNCHANGED <<deps, read, sels, tree, slots, session>>
        /\ UNCHANGED <<status, returned, raised>>
    BY <1>9 DEF DepGroup, emerge
  <2> QED
    BY <1>0, <2>1, OtherDepSelects
<1>10. CASE DepsDone
  BY <1>0, <1>10, DepsDoneSelects
<1>11. CASE ChildResolved
  BY <1>0, <1>11, ChildResolvedSelects
<1>12. CASE ChildDescend
  BY <1>0, <1>12, ChildDescendSelects
<1>13. CASE Return
  BY <1>0, <1>13, ReturnSelects
<1>14. CASE UNCHANGED vars
  BY <1>0, <1>14, QuietSelects DEF vars, emerge
<1> QED
  BY <1>1, <1>2, <1>3, <1>4, <1>5, <1>6, <1>7, <1>8, <1>9, <1>10, <1>11, <1>12, <1>13, <1>14
     DEF Next, User, Regenerate

\* So SelectionInv holds in every reachable state.
LEMMA SelectionInvHolds == Spec => []SelectionInv
  BY InitSelects, StepSelects, PTL DEF Spec

\* The selections and the calls are sequences.
LEMMA Domains ==
    ASSUME SelectionInv
    PROVE  /\ Sels = 1..Len(sels) /\ DOMAIN stack = 1..Depth /\ DOMAIN tree = 1..Len(tree)
           /\ Len(sels) = Len(tree) /\ Len(tree) \in Nat
<1>1. IsSeq(sels) /\ tree \in Seq(Node) /\ \E E : stack \in Seq(E)
  BY DEF SelectionInv, ResolverInv, ObjectsOK, GensIn, FramesOK
<1>2. DOMAIN sels = 1..Len(sels) /\ DOMAIN stack = 1..Depth /\ DOMAIN tree = 1..Len(tree)
  BY <1>1, LenProperties DEF IsSeq, Depth
<1> QED
  BY <1>2, TopTurn DEF Sels, SelectionInv, ResolverInv, ObjectsOK, GensIn

\* A sequence whose elements are in S is one over S.
LEMMA SeqOver ==
    ASSUME NEW T, NEW s \in Seq(T), NEW S, \A k \in 1..Len(s) : s[k] \in S
    PROVE  s \in Seq(S)
<1>1. s \in [1..Len(s) -> S] /\ Len(s) \in Nat
  <2>1. s \in [1..Len(s) -> T] /\ Len(s) \in Nat
    BY LenProperties
  <2> QED
    BY <2>1
<1> QED
  BY <1>1

\* The types of the resolver's state, whatever raised: every generator, every
\* result and every slot of the dictionary is a selection of this Emerge, and
\* what is filed under a package is one of that package.
THEOREM TypeCorrect == Spec => []TypeOK
<1>1. SelectionInv => TypeOK
  <2> SUFFICES ASSUME SelectionInv PROVE TypeOK
    OBVIOUS
  <2>1. /\ ObjectsOK /\ FramesOK /\ SelsOK /\ ResultsOK
        /\ GensIn(tree) /\ ResolvedIn(tree) /\ session \subseteq 1..Len(tree)
    BY DEF SelectionInv, ResolverInv, ObjectsOK, ResultsOK
  <2>2. ASSUME NEW i \in Sels
        PROVE  /\ sels[i].ebuild \in Ebuilds /\ sels[i].dirty \in BOOLEAN
               /\ tree[i].gens \in Seq(Sels) /\ tree[i].resolved \in Seq(Sels)
    <3>1. i \in 1..Len(sels) /\ i \in 1..Len(tree)
      BY Domains
    <3>2. SelectionOK(sels[i])
      BY <2>1, <3>1 DEF SelsOK
    <3>3. tree[i] \in Node
      BY <2>1, <3>1, GensAre
    <3>4. tree[i].gens \in Seq(Nat) /\ tree[i].resolved \in Seq(Nat)
      BY <3>3 DEF Node
    <3>5. \A k \in 1..Len(tree[i].gens) : tree[i].gens[k] \in Sels
      BY <2>1, <3>1, Domains DEF GensIn
    <3>6. \A k \in 1..Len(tree[i].resolved) : tree[i].resolved[k] \in Sels
      BY <2>1, <3>1, Domains DEF ResolvedIn
    <3> HIDE DEF Sels
    <3>7. tree[i].gens \in Seq(Sels) /\ tree[i].resolved \in Seq(Sels)
      BY <3>4, <3>5, <3>6, SeqOver
    <3> QED
      BY <3>2, <3>7 DEF SelectionOK, IsSelection
  <2>3. ASSUME NEW p \in Packages, NEW k \in DOMAIN slots[p]
        PROVE  slots[p][k].sel \in Sels /\ sels[slots[p][k].sel].pkg = p
    BY <2>1, FiledSelection, Domains DEF SelsOK, FiledRight
  <2>4. \A k \in DOMAIN stack : stack[k].sel \in Sels
    BY <2>1, Domains DEF FramesOK
  <2>5. session \subseteq Sels /\ DOMAIN tree = Sels
    BY <2>1, Domains
  <2>6. returned \in Sels \cup {0}
    BY <2>1, Domains DEF ResultsOK
  <2>7. read \subseteq Ebuilds /\ status \in {"idle", "running", "hung"}
    BY <2>1 DEF ResultsOK
  <2> QED
    BY <2>2, <2>3, <2>4, <2>5, <2>6, <2>7 DEF TypeOK
<1> QED
  BY <1>1, SelectionInvHolds, PTL

\* As long as no request raised: whatever was selected for another atom or
\* changed meanwhile, a selection that get_resolved has given back has among
\* its generators one for each atom that its ebuild depends on, save the
\* blockers and the packages that have another version.
THEOREM DependenciesMetHolds == Spec => []DependenciesMet
<1>1. SelectionInv => DependenciesMet
  <2> SUFFICES ASSUME SelectionInv, ~raised, NEW i \in session \ OnStack, Unchanged(i),
                      NEW a \in AtomDeps(sels[i].ebuild), ~a.blocks
               PROVE  Met(i, a) \/ OtherVersion(a)
    BY DEF DependenciesMet
  <2>1. PICK e : e = sels[i].ebuild
    OBVIOUS
  <2>2. PICK k \in DOMAIN deps[e] : deps[e][k].kind = "atom" /\ deps[e][k].atom = a
    BY <2>1 DEF AtomDeps
  <2>3. i \in 1..Len(sels) /\ \A j \in 1..Depth : stack[j].sel # i
    BY Domains DEF SelectionInv, ResolverInv, ObjectsOK, OnStack
  <2>4. AllMet(i)
    BY <2>3 DEF Generated, SelectionInv, GeneratorsOK
  <2>5. MetUpTo(i, e, Len(deps[e]))
    BY <2>1, <2>4 DEF AllMet, AsChosen, Unchanged
  <2>6. e \in Ebuilds /\ deps \in Repositories
    BY <2>1, <2>3 DEF SelectionInv, SelsOK, SelectionOK, ResultsOK
  <2>7. k \in 1..Len(deps[e])
    BY <2>2, <2>6, DependenciesAreAtoms DEF IsSequence
  <2>8. DepMet(i, deps[e][k])
    BY <2>5, <2>7 DEF MetUpTo
  <2> QED
    BY <2>2, <2>8 DEF DepMet
<1> QED
  BY <1>1, SelectionInvHolds, PTL

\* As long as no request raised: no flag of a selection is in another state
\* than an atom that chose it required, and its REQUIRED_USE is met, however
\* many atoms and queued changes came in between.
THEOREM UseRequirementsKeptHolds == Spec => []UseRequirementsKept
<1>1. SelectionInv => UseRequirementsKept
  <2> SUFFICES ASSUME SelectionInv, ~raised, NEW i \in Sels, Unchanged(i)
               PROVE  FlagsKept(sels[i])
    BY DEF UseRequirementsKept, FlagsKept
  <2> QED
    BY Domains DEF SelectionInv, FlagsOK, FlagsIn, AsChosen, Unchanged
<1> QED
  BY <1>1, SelectionInvHolds, PTL
============================================================================
