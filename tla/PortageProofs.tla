--------------------------- MODULE PortageProofs ---------------------------
(***************************************************************************)
(* Theorems about Portage, for any files, keys, packages and atoms.        *)
(*                                                                         *)
(* The first part is about AtomVersion: Compare puts every set of versions *)
(* that is Orderly in order.  That the numbers of two nodes are compared   *)
(* with zeroes added to either or not, as they have a leading zero or not, *)
(* is why this is not plain.                                               *)
(*                                                                         *)
(* The second is about EbuildList, for any ebuilds whose versions Compare  *)
(* puts in order: add_ebuild keeps a list sorted, and match_atom chooses   *)
(* the best ebuild of a sorted list.  The third is about the tables.       *)
(***************************************************************************)
EXTENDS Portage, LeastNumber, SequenceTheorems, FiniteSetTheorems

LOCAL Seqs == INSTANCE SequencesExt

----------------------------------------------------------------------------
(* Versions *)

Digits == Seq(0..9)

\* The digit at a place of a sequence to which zeroes are added.
DigitAt(d, i) == IF i <= Len(d) THEN d[i] ELSE 0

\* The sequence filled up with zeroes, or cut, to n digits; its value.
Filled(d, n) == [i \in 1..n |-> DigitAt(d, i)]
ValueUpTo(d, n) == Value(Filled(d, n))

----------------------------------------------------------------------------
(* The value of digits *)

\* What strtol has read after each digit.
Reads(d, f) ==
    /\ f \in [0..Len(d) -> Nat] /\ f[0] = 0
    /\ \A i \in 1..Len(d) : f[i] = 10 * f[i - 1] + d[i]

\* The digits of a number can be read from the left, one after the other.
LEMMA ReadsExists ==
    ASSUME NEW d \in Digits
    PROVE  \E f : Reads(d, f)
<1> DEFINE N == Len(d)
           Partly(n, f) == /\ f \in [0..n -> Nat] /\ f[0] = 0
                           /\ \A i \in 1..n : f[i] = 10 * f[i - 1] + d[i]
           S == {n \in Nat : n <= N => \E f : Partly(n, f)}
<1>1. N \in Nat /\ \A i \in 1..N : d[i] \in 0..9
  BY LenProperties, ElementOfSeq DEF Digits
<1> HIDE DEF N
<1>2. 0 \in S
  <2>1. Partly(0, [i \in 0..0 |-> 0])
    OBVIOUS
  <2> QED
    BY <2>1
<1>3. ASSUME NEW n \in Nat, n \in S
      PROVE  n + 1 \in S
  <2> SUFFICES ASSUME n + 1 <= N PROVE \E f : Partly(n + 1, f)
    BY <1>3
  <2>1. PICK f : Partly(n, f)
    BY <1>1, <1>3
  <2> DEFINE last == 10 * f[n] + d[n + 1]
             g == [i \in 0..(n + 1) |-> IF i = n + 1 THEN last ELSE f[i]]
  <2>2. last \in Nat
    <3>1. n \in 0..n /\ n + 1 \in 1..N
      BY <1>1
    <3>2. f[n] \in Nat
      BY <2>1, <3>1
    <3>3. d[n + 1] \in Nat
      BY <1>1, <3>1
    <3> QED
      BY <3>2, <3>3
  <2> HIDE DEF last
  <2>3. g \in [0..(n + 1) -> Nat] /\ g[0] = 0 /\ g[n + 1] = last
        /\ \A i \in 0..n : g[i] = f[i]
    BY <2>1, <2>2
  <2>4. \A i \in 1..(n + 1) : g[i] = 10 * g[i - 1] + d[i]
    <3> HIDE DEF g
    <3>1. \A i \in 1..n : i \in 0..n /\ i - 1 \in 0..n
      OBVIOUS
    <3>2. \A i \in 1..n : g[i] = 10 * g[i - 1] + d[i]
      BY <2>1, <2>3, <3>1
    <3>3. g[n + 1] = 10 * g[(n + 1) - 1] + d[n + 1]
      BY <2>3 DEF last
    <3>4. \A i \in 1..(n + 1) : i \in 1..n \/ i = n + 1
      OBVIOUS
    <3> QED
      BY <3>2, <3>3, <3>4
  <2>5. Partly(n + 1, g)
    BY <2>3, <2>4
  <2> QED
    BY <2>5
<1> HIDE DEF S
<1>4. N \in S
  BY <1>1, <1>2, <1>3, Induction
<1> QED
  BY <1>1, <1>4 DEF S, N, Reads

\* Two readings of sequences that agree up to n agree up to n.
LEMMA ReadsAgree ==
    ASSUME NEW d \in Digits, NEW e \in Digits, NEW f, NEW g, Reads(d, f), Reads(e, g),
           NEW n \in Nat, n <= Len(d), n <= Len(e), \A i \in 1..n : d[i] = e[i]
    PROVE  f[n] = g[n]
<1> DEFINE S == {m \in Nat : m <= n => f[m] = g[m]}
<1>1. Len(d) \in Nat /\ Len(e) \in Nat
  BY LenProperties DEF Digits
<1>2. 0 \in S
  BY DEF Reads
<1>3. ASSUME NEW m \in Nat, m \in S PROVE m + 1 \in S
  <2> SUFFICES ASSUME m + 1 <= n PROVE f[m + 1] = g[m + 1]
    OBVIOUS
  <2>1. f[m] = g[m]
    BY <1>3
  <2>2. m + 1 \in 1..Len(d) /\ m + 1 \in 1..Len(e) /\ m + 1 \in 1..n /\ (m + 1) - 1 = m
    BY <1>1
  <2> QED
    BY <2>1, <2>2 DEF Reads
<1> HIDE DEF S
<1>4. n \in S
  BY <1>2, <1>3, Induction
<1> QED
  BY <1>4 DEF S

\* Value, which folds over the digits, is what such a reading ends with.
LEMMA ValueIsRead ==
    ASSUME NEW d \in Digits
    PROVE  \E f : Reads(d, f) /\ Value(d) = f[Len(d)]
<1> DEFINE N == Len(d)
           F(f) == [i \in 0..N |-> IF i = 0 THEN 0 ELSE 10 * f[i - 1] + d[i]]
           v == CHOOSE f : f = F(f)
<1>1. N \in Nat /\ \A i \in 1..N : d[i] \in 0..9
  BY LenProperties, ElementOfSeq DEF Digits
<1>2. Value(d) = v[N]
  BY DEF Value
<1> HIDE DEF N
<1>3. PICK g : Reads(d, g)
  BY ReadsExists
<1>4. g = F(g)
  BY <1>1, <1>3 DEF Reads, N
<1>5. v = F(v)
  BY <1>4
<1> HIDE DEF v
<1>6. v[0] = 0 /\ DOMAIN v = 0..N /\ \A i \in 1..N : v[i] = 10 * v[i - 1] + d[i]
  BY <1>1, <1>5
<1> DEFINE S == {n \in Nat : n <= N => v[n] \in Nat}
<1>7. N \in Nat /\ \A n \in Nat : n \in S
  <2>1. 0 \in S
    BY <1>6
  <2>2. ASSUME NEW n \in Nat, n \in S PROVE n + 1 \in S
    <3> SUFFICES ASSUME n + 1 <= N PROVE v[n + 1] \in Nat
      OBVIOUS
    <3>1. n + 1 \in 1..N /\ v[n] \in Nat /\ (n + 1) - 1 = n
      BY <1>1, <2>2
    <3>2. v[n + 1] = 10 * v[n] + d[n + 1] /\ d[n + 1] \in 0..9
      BY <1>1, <1>6, <3>1
    <3> QED
      BY <3>1, <3>2
  <2> HIDE DEF S
  <2> QED
    BY <1>1, <2>1, <2>2, Induction
<1>8. v \in [0..N -> Nat]
  <2>1. \A n \in 0..N : v[n] \in Nat
    BY <1>7
  <2>2. v = [n \in 0..N |-> v[n]]
    BY <1>5
  <2> QED
    BY <2>1, <2>2
<1>9. Reads(d, v)
  BY <1>6, <1>8 DEF Reads, N
<1> QED
  BY <1>2, <1>9 DEF N

\* The digits with zeroes behind them are what DigitAt says of each place.
LEMMA FilledIs ==
    ASSUME NEW d \in Digits, NEW n \in Nat
    PROVE  /\ Filled(d, n) \in Digits /\ Len(Filled(d, n)) = n
           /\ \A i \in 1..n : Filled(d, n)[i] = DigitAt(d, i)
           /\ \A i \in Nat \ {0} : DigitAt(d, i) \in 0..9
<1>1. Len(d) \in Nat /\ \A i \in 1..Len(d) : d[i] \in 0..9
  BY LenProperties, ElementOfSeq DEF Digits
<1>2. \A i \in Nat \ {0} : DigitAt(d, i) \in 0..9
  BY <1>1 DEF DigitAt
<1> QED
  BY <1>2 DEF Filled, Digits

\* One digit more is ten times the number, and the digit.
LEMMA ValueUpToLaws ==
    ASSUME NEW d \in Digits, NEW n \in Nat
    PROVE  /\ ValueUpTo(d, n) \in Nat /\ ValueUpTo(d, 0) = 0
           /\ ValueUpTo(d, n + 1) = 10 * ValueUpTo(d, n) + DigitAt(d, n + 1)
           /\ DigitAt(d, n + 1) \in 0..9
<1> DEFINE m == n + 1
           none == Filled(d, 0)
           less == Filled(d, n)
           more == Filled(d, m)
<1>1. m \in Nat /\ 0 \in Nat /\ m \in Nat \ {0}
  OBVIOUS
<1>2. /\ none \in Digits /\ Len(none) = 0
      /\ less \in Digits /\ Len(less) = n /\ \A i \in 1..n : less[i] = DigitAt(d, i)
      /\ more \in Digits /\ Len(more) = m /\ \A i \in 1..m : more[i] = DigitAt(d, i)
      /\ DigitAt(d, m) \in 0..9
  BY <1>1, FilledIs
<1> HIDE DEF none, less, more
<1>3. PICK z : Reads(none, z) /\ Value(none) = z[Len(none)]
  BY <1>2, ValueIsRead
<1>4. PICK f : Reads(less, f) /\ Value(less) = f[Len(less)]
  BY <1>2, ValueIsRead
<1>5. PICK g : Reads(more, g) /\ Value(more) = g[Len(more)]
  BY <1>2, ValueIsRead
<1>6. f[n] = g[n]
  <2>1. n <= Len(less) /\ n <= Len(more) /\ \A i \in 1..n : less[i] = more[i]
    BY <1>2
  <2> QED
    BY <1>2, <1>4, <1>5, <2>1, ReadsAgree
<1>7. f[n] \in Nat /\ z[0] = 0
  BY <1>2, <1>3, <1>4 DEF Reads
<1>8. g[m] = 10 * g[n] + DigitAt(d, m)
  <2>1. m \in 1..m /\ m - 1 = n
    OBVIOUS
  <2>2. g[m] = 10 * g[m - 1] + more[m] /\ more[m] = DigitAt(d, m)
    BY <1>2, <1>5, <2>1 DEF Reads
  <2> QED
    BY <2>1, <2>2
<1> QED
  BY <1>2, <1>3, <1>4, <1>5, <1>6, <1>7, <1>8 DEF ValueUpTo, none, less, more

\* A number is its value up to its last digit.
LEMMA ValueIsUpTo ==
    ASSUME NEW d \in Digits
    PROVE  Value(d) = ValueUpTo(d, Len(d)) /\ Len(d) \in Nat /\ Value(d) \in Nat
<1> DEFINE n == Len(d)
           filled == Filled(d, n)
<1>1. n \in Nat
  BY LenProperties DEF Digits
<1>2. filled \in Digits /\ Len(filled) = n /\ \A i \in 1..n : filled[i] = DigitAt(d, i)
  BY <1>1, FilledIs
<1> HIDE DEF filled
<1>3. \A i \in 1..n : d[i] = filled[i]
  BY <1>2 DEF DigitAt
<1>4. d = filled
  BY <1>2, <1>3, SeqEqual DEF Digits
<1>5. Value(d) = ValueUpTo(d, n)
  BY <1>4 DEF filled, ValueUpTo
<1> QED
  BY <1>1, <1>5, ValueUpToLaws

\* More zeroes after both do not change which is greater.
LEMMA LaterZeroes ==
    ASSUME NEW d \in Digits, NEW e \in Digits, NEW m \in Nat, Len(d) <= m, Len(e) <= m,
           NEW n \in Nat, m <= n
    PROVE  ValueUpTo(d, n) > ValueUpTo(e, n) <=> ValueUpTo(d, m) > ValueUpTo(e, m)
<1> DEFINE V(k) == ValueUpTo(d, k)
           W(k) == ValueUpTo(e, k)
           S == {k \in Nat : m <= k => (V(k) > W(k) <=> V(m) > W(m))}
<1>1. Len(d) \in Nat /\ Len(e) \in Nat
  BY LenProperties DEF Digits
<1>2. \A k \in Nat : /\ V(k) \in Nat /\ V(k + 1) = 10 * V(k) + DigitAt(d, k + 1)
                     /\ W(k) \in Nat /\ W(k + 1) = 10 * W(k) + DigitAt(e, k + 1)
  BY ValueUpToLaws
<1> HIDE DEF V, W
<1>3. 0 \in S
  <2>1. m <= 0 => m = 0
    OBVIOUS
  <2> QED
    BY <2>1
<1>4. ASSUME NEW k \in Nat, k \in S PROVE k + 1 \in S
  <2> SUFFICES ASSUME m <= k + 1 PROVE V(k + 1) > W(k + 1) <=> V(m) > W(m)
    OBVIOUS
  <2>1. CASE m = k + 1
    BY <2>1
  <2>2. CASE m <= k
    <3>1. DigitAt(d, k + 1) = 0 /\ DigitAt(e, k + 1) = 0
      BY <1>1, <2>2 DEF DigitAt
    <3>2. V(k) > W(k) <=> V(m) > W(m)
      BY <1>4, <2>2
    <3>3. /\ V(k) \in Nat /\ V(k + 1) = 10 * V(k) + DigitAt(d, k + 1)
          /\ W(k) \in Nat /\ W(k + 1) = 10 * W(k) + DigitAt(e, k + 1)
      BY <1>2
    <3>4. V(k + 1) = 10 * V(k) /\ W(k + 1) = 10 * W(k)
      BY <3>1, <3>3
    <3> QED
      BY <3>2, <3>3, <3>4
  <2> QED
    BY <2>1, <2>2
<1> HIDE DEF S
<1>5. n \in S
  BY <1>3, <1>4, Induction
<1> QED
  BY <1>5 DEF S, V, W

\* A greater first digit is enough.
LEMMA FirstDigitTells ==
    ASSUME NEW d \in Digits, NEW e \in Digits, ValueUpTo(d, 1) > ValueUpTo(e, 1),
           NEW n \in Nat, 1 <= n
    PROVE  ValueUpTo(d, n) > ValueUpTo(e, n)
<1> DEFINE V(k) == ValueUpTo(d, k)
           W(k) == ValueUpTo(e, k)
           S == {k \in Nat : 1 <= k => V(k) > W(k)}
<1>1. \A k \in Nat :
        /\ V(k) \in Nat /\ V(k + 1) = 10 * V(k) + DigitAt(d, k + 1) /\ DigitAt(d, k + 1) \in 0..9
        /\ W(k) \in Nat /\ W(k + 1) = 10 * W(k) + DigitAt(e, k + 1) /\ DigitAt(e, k + 1) \in 0..9
  BY ValueUpToLaws
<1>2. V(1) > W(1)
  OBVIOUS
<1> HIDE DEF V, W
<1>3. 0 \in S
  OBVIOUS
<1>4. ASSUME NEW k \in Nat, k \in S PROVE k + 1 \in S
  <2>1. CASE k = 0
    BY <1>2, <2>1
  <2>2. CASE k # 0
    <3>1. V(k) > W(k)
      BY <1>4, <2>2
    <3> DEFINE v == V(k)
               w == W(k)
               x == DigitAt(d, k + 1)
               y == DigitAt(e, k + 1)
    <3>2. /\ v \in Nat /\ V(k + 1) = 10 * v + x /\ x \in 0..9
          /\ w \in Nat /\ W(k + 1) = 10 * w + y /\ y \in 0..9 /\ v > w
      BY <1>1, <3>1
    <3> HIDE DEF v, w, x, y
    <3>3. 10 * v + x > 10 * w + y
      BY <3>2
    <3> QED
      BY <3>2, <3>3
  <2> QED
    BY <2>1, <2>2
<1> HIDE DEF S
<1>5. n \in S
  BY <1>3, <1>4, Induction
<1> QED
  BY <1>5 DEF S, V, W

\* Zeroes after nothing, or after a zero, are nothing.
LEMMA NothingRemains ==
    ASSUME NEW d \in Digits, Len(d) <= 1, ValueUpTo(d, 1) = 0, NEW n \in Nat
    PROVE  ValueUpTo(d, n) = 0
<1> DEFINE V(k) == ValueUpTo(d, k)
           S == {k \in Nat : V(k) = 0}
<1>1. /\ \A k \in Nat : V(k) \in Nat /\ V(k + 1) = 10 * V(k) + DigitAt(d, k + 1)
      /\ V(0) = 0 /\ Len(d) \in Nat
  BY ValueUpToLaws, LenProperties DEF Digits
<1>2. V(1) = 0
  OBVIOUS
<1> HIDE DEF V
<1>3. 0 \in S
  BY <1>1
<1>4. ASSUME NEW k \in Nat, k \in S PROVE k + 1 \in S
  <2>1. CASE k = 0
    BY <1>2, <2>1
  <2>2. CASE k # 0
    <3>1. DigitAt(d, k + 1) = 0
      BY <1>1, <2>2 DEF DigitAt
    <3>2. V(k + 1) = 0
      BY <1>1, <1>4, <3>1
    <3> QED
      BY <3>2
  <2> QED
    BY <2>1, <2>2
<1> HIDE DEF S
<1>5. n \in S
  BY <1>3, <1>4, Induction
<1> QED
  BY <1>5 DEF S, V

----------------------------------------------------------------------------
(* The numbers of two nodes without letters *)

Lettered(n) == n.letter > 0
Big(n) == ValueUpTo(n.digits, 1) > 0

\* What a leading zero means for the value.
LEMMA NodeFacts ==
    ASSUME NEW n \in Nodes, ~Lettered(n)
    PROVE  /\ n.digits \in Digits /\ Len(n.digits) \in Nat /\ Length(n) = Len(n.digits)
           /\ Value(n.digits) \in Nat /\ ValueUpTo(n.digits, 1) \in Nat
           /\ LeadingZero(n) => Len(n.digits) > 1 /\ ~Big(n)
           /\ ~LeadingZero(n) /\ ~Big(n) =>
                Value(n.digits) = 0 /\ \A k \in Nat : ValueUpTo(n.digits, k) = 0
           /\ Big(n) => Value(n.digits) > 0
<1> DEFINE d == n.digits
<1>1. d \in Digits /\ n.letter = 0
  BY DEF Nodes, Digits, Lettered
<1> HIDE DEF d
<1>2. /\ Len(d) \in Nat /\ Value(d) = ValueUpTo(d, Len(d)) /\ Value(d) \in Nat
      /\ \A i \in 1..Len(d) : d[i] \in 0..9
  BY <1>1, ValueIsUpTo, ElementOfSeq DEF Digits
<1>3. ValueUpTo(d, 1) = DigitAt(d, 1) /\ DigitAt(d, 1) \in 0..9
  <2>1. 0 \in Nat /\ 0 + 1 = 1
    OBVIOUS
  <2>2. /\ ValueUpTo(d, 0) = 0 /\ ValueUpTo(d, 0 + 1) = 10 * ValueUpTo(d, 0) + DigitAt(d, 0 + 1)
        /\ DigitAt(d, 0 + 1) \in 0..9
    BY <1>1, <2>1, ValueUpToLaws
  <2> QED
    BY <2>1, <2>2
<1>4. Length(n) = Len(d)
  BY <1>1, <1>2 DEF Length, d
<1>5. LeadingZero(n) <=> Len(d) > 1 /\ d[1] = 0
  <2>1. d # <<>> <=> Len(d) # 0
    BY <1>1, EmptySeq DEF Digits
  <2> QED
    BY <1>2, <1>4, <2>1 DEF LeadingZero, d
<1>6. LeadingZero(n) => Len(d) > 1 /\ ~Big(n)
  BY <1>2, <1>3, <1>5 DEF DigitAt, Big, d
<1>7. ASSUME ~LeadingZero(n), ~Big(n)
      PROVE  Value(d) = 0 /\ \A k \in Nat : ValueUpTo(d, k) = 0
  <2>1. ValueUpTo(d, 1) = 0
    BY <1>3, <1>7 DEF Big, d
  <2>2. Len(d) <= 1
    BY <1>2, <1>3, <1>5, <1>7, <2>1 DEF DigitAt
  <2> QED
    BY <1>1, <1>2, <2>1, <2>2, NothingRemains
<1>8. ASSUME Big(n) PROVE Value(d) > 0
  <2> DEFINE e == <<>>
  <2>1. e \in Digits /\ Len(e) <= 1 /\ Len(e) = 0
    BY DEF Digits
  <2> HIDE DEF e
  <2>2. ValueUpTo(e, 1) = 0
    <3>1. 0 \in Nat /\ 0 + 1 = 1
      OBVIOUS
    <3>2. ValueUpTo(e, 0) = 0 /\ ValueUpTo(e, 0 + 1) = 10 * ValueUpTo(e, 0) + DigitAt(e, 0 + 1)
      BY <2>1, <3>1, ValueUpToLaws
    <3>3. DigitAt(e, 1) = 0
      BY <2>1 DEF DigitAt
    <3> QED
      BY <3>1, <3>2, <3>3
  <2>3. \A k \in Nat : ValueUpTo(e, k) = 0
    BY <2>1, <2>2, NothingRemains
  <2>4. 1 <= Len(d) /\ ValueUpTo(d, 1) > ValueUpTo(e, 1)
    BY <1>2, <1>3, <1>8, <2>2 DEF Big, DigitAt, d
  <2>5. ValueUpTo(d, Len(d)) > ValueUpTo(e, Len(d))
    BY <1>1, <1>2, <2>1, <2>4, FirstDigitTells
  <2> QED
    BY <1>2, <2>3, <2>5
<1> QED
  BY <1>1, <1>2, <1>3, <1>4, <1>6, <1>7, <1>8 DEF d

\* The zeroes that atom_version_compare adds to the shorter text lead to
\* the value up to the longer one's last digit.
LEMMA PaddedIs ==
    ASSUME NEW n \in Nodes, ~Lettered(n), NEW l \in Nat, Len(n.digits) <= l
    PROVE  Padded(n, l) = ValueUpTo(n.digits, l)
<1> DEFINE d == n.digits
           k == l - Len(d)
           zeroes == [i \in 1..k |-> 0]
           padded == d \o zeroes
           filled == Filled(d, l)
<1>1. d \in Digits /\ Len(d) \in Nat
  BY NodeFacts
<1>2. zeroes \in Digits /\ Len(zeroes) = k /\ (\A i \in 1..k : zeroes[i] = 0) /\ k \in Nat
  BY <1>1 DEF Digits
<1>3. Padded(n, l) = Value(padded)
  BY DEF Padded, Lettered
<1> HIDE DEF d, zeroes
<1>4. /\ padded \in Digits /\ Len(padded) = Len(d) + k
      /\ \A i \in 1..(Len(d) + k) : padded[i] = IF i <= Len(d) THEN d[i] ELSE zeroes[i - Len(d)]
  BY <1>1, <1>2, ConcatProperties DEF Digits
<1>5. Len(d) + k = l /\ Len(d) \in Nat
  BY <1>1
<1>6. \A i \in 1..l : ~(i <= Len(d)) => i - Len(d) \in 1..k
  BY <1>1, <1>2, <1>5
<1>7. filled \in Digits /\ Len(filled) = l /\ \A i \in 1..l : filled[i] = DigitAt(d, i)
  BY <1>1, FilledIs
<1> HIDE DEF padded, filled, k
<1>8. \A i \in 1..l : padded[i] = filled[i]
  BY <1>2, <1>4, <1>5, <1>6, <1>7 DEF DigitAt
<1>9. padded = filled
  BY <1>4, <1>5, <1>7, <1>8, SeqEqual DEF Digits
<1> QED
  BY <1>3, <1>9 DEF filled, ValueUpTo, d

\* How two numbers compare: those that begin with a zero, and 0, are less
\* than the others and are compared like the digits after a decimal point.
LEMMA NumberSign ==
    ASSUME NEW f \in Nodes, NEW s \in Nodes, ~Lettered(f), ~Lettered(s),
           NEW l \in Nat, Len(f.digits) <= l, Len(s.digits) <= l
    PROVE  /\ Number(f, s) \in Nat
           /\ Number(f, s) > Number(s, f) <=>
                \/ Big(f) /\ ~Big(s)
                \/ Big(f) /\ Big(s) /\ Value(f.digits) > Value(s.digits)
                \/ ~Big(f) /\ ~Big(s) /\ ValueUpTo(f.digits, l) > ValueUpTo(s.digits, l)
<1> DEFINE d == f.digits
           e == s.digits
           m == IF Len(d) > Len(e) THEN Len(d) ELSE Len(e)
<1>1. /\ d \in Digits /\ Len(d) \in Nat /\ Value(d) \in Nat
      /\ LeadingZero(f) => Len(d) > 1 /\ ~Big(f)
      /\ ~LeadingZero(f) /\ ~Big(f) => Value(d) = 0 /\ \A k \in Nat : ValueUpTo(d, k) = 0
      /\ Big(f) => Value(d) > 0
  BY NodeFacts
<1>2. /\ e \in Digits /\ Len(e) \in Nat /\ Value(e) \in Nat
      /\ LeadingZero(s) => Len(e) > 1 /\ ~Big(s)
      /\ ~LeadingZero(s) /\ ~Big(s) => Value(e) = 0 /\ \A k \in Nat : ValueUpTo(e, k) = 0
      /\ Big(s) => Value(e) > 0
  BY NodeFacts
<1>3. /\ m \in Nat /\ Len(d) <= m /\ Len(e) <= m /\ m <= l
      /\ MaxLength(f, s) = m /\ MaxLength(s, f) = m
  <2>1. Length(f) = Len(d) /\ Length(s) = Len(e)
    BY NodeFacts
  <2> QED
    BY <1>1, <1>2, <2>1 DEF MaxLength
<1>4. Padded(f, m) = ValueUpTo(d, m) /\ Padded(s, m) = ValueUpTo(e, m)
  BY <1>3, PaddedIs
<1>5. ValueUpTo(d, m) \in Nat /\ ValueUpTo(e, m) \in Nat /\ ValueUpTo(d, 1) \in Nat /\ ValueUpTo(e, 1) \in Nat
  BY <1>1, <1>2, <1>3, ValueUpToLaws
<1>6. CASE LeadingZero(f) \/ LeadingZero(s)
  <2>1. Number(f, s) = ValueUpTo(d, m) /\ Number(s, f) = ValueUpTo(e, m)
    BY <1>3, <1>4, <1>6 DEF Number
  <2>2. 1 <= m
    BY <1>1, <1>2, <1>3, <1>6
  <2>3. CASE Big(f) /\ ~Big(s)
    <3>1. ValueUpTo(d, 1) > ValueUpTo(e, 1)
      BY <1>5, <2>3 DEF Big
    <3> QED
      BY <1>1, <1>2, <1>3, <1>5, <2>1, <2>2, <2>3, <3>1, FirstDigitTells
  <2>4. CASE ~Big(f) /\ Big(s)
    <3>1. ValueUpTo(e, 1) > ValueUpTo(d, 1)
      BY <1>5, <2>4 DEF Big
    <3>2. ValueUpTo(e, m) > ValueUpTo(d, m)
      BY <1>1, <1>2, <1>3, <2>2, <3>1, FirstDigitTells
    <3> QED
      BY <1>5, <2>1, <2>4, <3>2
  <2>5. CASE ~Big(f) /\ ~Big(s)
    <3>1. ValueUpTo(d, l) > ValueUpTo(e, l) <=> ValueUpTo(d, m) > ValueUpTo(e, m)
      BY <1>1, <1>2, <1>3, LaterZeroes
    <3> QED
      BY <1>5, <2>1, <2>5, <3>1
  <2> QED
    BY <1>1, <1>2, <1>6, <2>3, <2>4, <2>5
<1>7. CASE ~LeadingZero(f) /\ ~LeadingZero(s)
  <2>1. Number(f, s) = Value(d) /\ Number(s, f) = Value(e)
    BY <1>7 DEF Number
  <2> QED
    BY <1>1, <1>2, <1>7, <2>1
<1> QED
  BY <1>6, <1>7

\* Nodes without letters compare in one order, whatever each is padded to.
LEMMA NumbersInOrder ==
    ASSUME NEW f \in Nodes, NEW s \in Nodes, NEW t \in Nodes,
           ~Lettered(f), ~Lettered(s), ~Lettered(t),
           Number(f, s) >= Number(s, f), Number(s, t) >= Number(t, s)
    PROVE  Number(f, t) >= Number(t, f)
<1> DEFINE a == Len(f.digits)
           b == Len(s.digits)
           c == Len(t.digits)
           l == a + b + c
           V(n) == Value(n.digits)
           U(n) == ValueUpTo(n.digits, l)
           Sign(n, m) == \/ Big(n) /\ ~Big(m)
                         \/ Big(n) /\ Big(m) /\ V(n) > V(m)
                         \/ ~Big(n) /\ ~Big(m) /\ U(n) > U(m)
<1>1. a \in Nat /\ b \in Nat /\ c \in Nat
  BY NodeFacts
<1>2. l \in Nat /\ a <= l /\ b <= l /\ c <= l
  <2> HIDE DEF a, b, c
  <2> QED
    BY <1>1
<1>3. /\ Number(f, s) \in Nat /\ Number(s, f) \in Nat /\ (Number(s, f) > Number(f, s) <=> Sign(s, f))
      /\ Number(t, s) \in Nat /\ Number(s, t) \in Nat /\ (Number(t, s) > Number(s, t) <=> Sign(t, s))
      /\ Number(f, t) \in Nat /\ Number(t, f) \in Nat /\ (Number(t, f) > Number(f, t) <=> Sign(t, f))
  <2> HIDE DEF l
  <2> QED
    BY <1>2, NumberSign
<1>4. ~Sign(s, f) /\ ~Sign(t, s)
  <2> DEFINE p == Number(f, s)
             q == Number(s, f)
             x == Number(s, t)
             y == Number(t, s)
  <2>1. p \in Nat /\ q \in Nat /\ p >= q /\ x \in Nat /\ y \in Nat /\ x >= y
    BY <1>3
  <2> HIDE DEF p, q, x, y
  <2>2. ~(q > p) /\ ~(y > x)
    BY <2>1
  <2> HIDE DEF Sign
  <2> QED
    BY <1>3, <2>2 DEF p, q, x, y
<1>5. /\ V(f) \in Nat /\ V(s) \in Nat /\ V(t) \in Nat
      /\ U(f) \in Nat /\ U(s) \in Nat /\ U(t) \in Nat
  <2>1. f.digits \in Digits /\ s.digits \in Digits /\ t.digits \in Digits
    BY NodeFacts
  <2> HIDE DEF l
  <2> QED
    BY <1>2, <2>1, NodeFacts, ValueUpToLaws
<1> HIDE DEF V, U
<1>6. ~Sign(t, f)
  BY <1>4, <1>5
<1> HIDE DEF Sign
<1>7. Number(f, t) \in Nat /\ Number(t, f) \in Nat /\ ~(Number(t, f) > Number(f, t))
  BY <1>3, <1>6
<1> QED
  BY <1>7

----------------------------------------------------------------------------
(* Two nodes *)

\* A number that fits an I32 is what it is.
LEMMA FitsIsSame ==
    ASSUME NEW n \in Int, -(WordRange \div 2) <= n, n < WordRange \div 2
    PROVE  ToI32(n) = n
<1> DEFINE h == WordRange \div 2
<1>1. h \in Nat \ {0} /\ WordRange = 2 * h /\ WordRange \in Nat \ {0}
  BY WordIsEven
<1> HIDE DEF h
<1>2. n + h \in 0..(WordRange - 1)
  BY <1>1 DEF h
<1>3. \A x \in 0..(WordRange - 1) : x % WordRange = x
  BY <1>1
<1>4. (n + h) % WordRange = n + h
  BY <1>2, <1>3
<1> QED
  BY <1>1, <1>4 DEF ToI32, h

\* What a comparison by several criteria returns.
LEMMA FirstNonZeroIs ==
    ASSUME NEW n \in Nat, NEW x \in [1..n -> Int]
    PROVE  \/ (\A i \in 1..n : x[i] = 0) /\ FirstNonZero(x) = 0
           \/ \E i \in 1..n : /\ x[i] # 0 /\ \A j \in 1..(i - 1) : x[j] = 0
                              /\ FirstNonZero(x) = x[i]
<1>1. CASE \A i \in 1..n : x[i] = 0
  BY <1>1 DEF FirstNonZero
<1>2. CASE ~ \A i \in 1..n : x[i] = 0
  <2> DEFINE S == {i \in 1..n : x[i] # 0}
             First(i) == i \in 1..n /\ x[i] # 0 /\ \A j \in 1..(i - 1) : x[j] = 0
             k == CHOOSE i \in DOMAIN x : x[i] # 0 /\ \A j \in 1..(i - 1) : x[j] = 0
  <2>1. S \in SUBSET Nat /\ S # {}
    BY <1>2
  <2>2. PICK i \in S : \A j \in S : i <= j
    BY <2>1, HasLeast
  <2>3. First(i)
    <3>1. ASSUME NEW j \in 1..(i - 1) PROVE x[j] = 0
      <4>1. j \in 1..n /\ ~(i <= j)
        BY <2>2
      <4> QED
        BY <2>2, <4>1
    <3> QED
      BY <2>2, <3>1
  <2>4. k \in DOMAIN x /\ x[k] # 0 /\ \A j \in 1..(k - 1) : x[j] = 0
    BY <2>3
  <2>5. FirstNonZero(x) = x[k]
    BY <1>2 DEF FirstNonZero
  <2> HIDE DEF k
  <2> QED
    BY <2>4, <2>5
<1> QED
  BY <1>1, <1>2

\* Nodes in the order in which NodeCompare looks at them.
NodeOrder(f, s) ==
    IF f.prefix # s.prefix THEN f.prefix - s.prefix
    ELSE IF Number(f, s) # Number(s, f) THEN Number(f, s) - Number(s, f)
    ELSE f.letter - s.letter

\* Either no node has a letter, or none has a leading zero.
OneKind(T) == (\A n \in T : ~Lettered(n)) \/ (\A n \in T : ~LeadingZero(n))

\* What two nodes of one kind are compared as are natural numbers.
LEMMA NumberIsNatural ==
    ASSUME NEW f \in Nodes, NEW s \in Nodes, OneKind({f, s})
    PROVE  Number(f, s) \in Nat
<1>1. CASE ~Lettered(f) /\ ~Lettered(s)
  <2> DEFINE a == Len(f.digits)
             b == Len(s.digits)
  <2>1. a \in Nat /\ b \in Nat
    BY <1>1, NodeFacts
  <2> HIDE DEF a, b
  <2>2. a + b \in Nat /\ a <= a + b /\ b <= a + b
    BY <2>1
  <2> QED
    BY <1>1, <2>2, NumberSign DEF a, b
<1>2. CASE ~LeadingZero(f) /\ ~LeadingZero(s)
  BY <1>2, ValueIsUpTo DEF Number, Nodes, Digits
<1> QED
  BY <1>1, <1>2 DEF OneKind

\* The comparison of two nodes of one kind is antisymmetric and transitive.
LEMMA NodesInOrder ==
    ASSUME NEW T \in SUBSET Nodes, OneKind(T), NEW f \in T, NEW s \in T, NEW t \in T
    PROVE  /\ NodeOrder(f, s) \in Int /\ NodeOrder(s, f) = -NodeOrder(f, s)
           /\ NodeOrder(f, s) >= 0 /\ NodeOrder(s, t) >= 0 => NodeOrder(f, t) >= 0
<1> DEFINE N(n, m) == Number(n, m)
<1>1. \A n, m \in T : N(n, m) \in Nat
  BY NumberIsNatural DEF OneKind
<1>2. \A n, m, o \in T : N(n, m) >= N(m, n) /\ N(m, o) >= N(o, m) => N(n, o) >= N(o, n)
  <2>1. CASE \A n \in T : ~Lettered(n)
    BY <2>1, NumbersInOrder
  <2>2. CASE \A n \in T : ~LeadingZero(n)
    <3>1. \A n, m \in T : N(n, m) = Value(n.digits)
      BY <2>2 DEF Number
    <3>2. \A n \in T : Value(n.digits) \in Nat
      BY ValueIsUpTo DEF Nodes, Digits
    <3> QED
      BY <3>1, <3>2
  <2> QED
    BY <2>1, <2>2 DEF OneKind
<1>3. \A n \in T : n.prefix \in 0..5 /\ n.letter \in Nat
  BY DEF Nodes
<1>4. \A n, m \in T :
        NodeOrder(n, m) = IF n.prefix # m.prefix THEN n.prefix - m.prefix
                          ELSE IF N(n, m) # N(m, n) THEN N(n, m) - N(m, n)
                          ELSE n.letter - m.letter
  BY DEF NodeOrder
<1> HIDE DEF N
<1>5. NodeOrder(f, s) \in Int /\ NodeOrder(s, f) = -NodeOrder(f, s)
  <2>1. NodeOrder(f, s) = IF f.prefix # s.prefix THEN f.prefix - s.prefix
                          ELSE IF N(f, s) # N(s, f) THEN N(f, s) - N(s, f)
                          ELSE f.letter - s.letter
    BY <1>4
  <2>2. NodeOrder(s, f) = IF s.prefix # f.prefix THEN s.prefix - f.prefix
                          ELSE IF N(s, f) # N(f, s) THEN N(s, f) - N(f, s)
                          ELSE s.letter - f.letter
    BY <1>4
  <2>3. /\ f.prefix \in Int /\ s.prefix \in Int /\ f.letter \in Int /\ s.letter \in Int
        /\ N(f, s) \in Int /\ N(s, f) \in Int
    BY <1>1, <1>3
  <2> QED
    BY <2>1, <2>2, <2>3
<1>6. ASSUME NodeOrder(f, s) >= 0, NodeOrder(s, t) >= 0
      PROVE  NodeOrder(f, t) >= 0
  <2> DEFINE a == f.prefix  b == s.prefix  c == t.prefix
             p == f.letter  q == s.letter  r == t.letter
             fs == N(f, s)  sf == N(s, f)  st == N(s, t)  ts == N(t, s)  ft == N(f, t)  tf == N(t, f)
  <2>1. /\ a \in Int /\ b \in Int /\ c \in Int /\ p \in Int /\ q \in Int /\ r \in Int
        /\ fs \in Int /\ sf \in Int /\ st \in Int /\ ts \in Int /\ ft \in Int /\ tf \in Int
    BY <1>1, <1>3
  <2>2. fs >= sf /\ st >= ts => ft >= tf
    BY <1>2
  <2>3. ts >= st /\ sf >= fs => tf >= ft
    BY <1>2
  <2>4. tf >= ft /\ fs >= sf => ts >= st
    BY <1>2
  <2>5. st >= ts /\ tf >= ft => sf >= fs
    BY <1>2
  <2>6. /\ NodeOrder(f, s) = IF a # b THEN a - b ELSE IF fs # sf THEN fs - sf ELSE p - q
        /\ NodeOrder(s, t) = IF b # c THEN b - c ELSE IF st # ts THEN st - ts ELSE q - r
        /\ NodeOrder(f, t) = IF a # c THEN a - c ELSE IF ft # tf THEN ft - tf ELSE p - r
    BY <1>4
  <2> HIDE DEF a, b, c, p, q, r, fs, sf, st, ts, ft, tf
  <2>7. a >= b /\ b >= c
    BY <1>6, <2>1, <2>6
  <2>8. CASE a > b \/ b > c
    <3>1. a > c
      BY <2>1, <2>7, <2>8
    <3> QED
      BY <2>1, <2>6, <3>1
  <2>9. CASE a = b /\ b = c
    <3>1. fs >= sf /\ st >= ts
      BY <1>6, <2>1, <2>6, <2>9
    <3>2. CASE fs > sf \/ st > ts
      <4>1. ft > tf
        BY <2>1, <2>2, <2>4, <2>5, <3>1, <3>2
      <4> QED
        BY <2>1, <2>6, <2>9, <4>1
    <3>3. CASE fs = sf /\ st = ts
      <4>1. ft = tf
        BY <2>1, <2>2, <2>3, <3>3
      <4>2. p >= q /\ q >= r
        BY <1>6, <2>1, <2>6, <2>9, <3>3
      <4> QED
        BY <2>1, <2>6, <2>9, <4>1, <4>2
    <3> QED
      BY <2>1, <3>1, <3>2, <3>3
  <2> QED
    BY <2>1, <2>7, <2>8, <2>9
<1> QED
  BY <1>5, <1>6

----------------------------------------------------------------------------
(* Two versions *)

\* What Orderly says of a set, of which NoVersion may be one.
Comparable(S) ==
    /\ S \subseteq Versions
    /\ \A v, w \in S : Fits(v, w)
    /\ \A v \in S : NoStars(v)
    /\ \A v, w \in S : \A i \in DOMAIN v.nodes : v.nodes[i].letter > 0 => ~(i < Len(w.nodes))
    /\ (\A v \in S : NoLetters(v)) \/ (\A v \in S : NoLeadingZeroes(v))

\* The versions of an Orderly set are Comparable.
LEMMA OrderlyIsComparable ==
    ASSUME NEW S \in SUBSET Versions, Orderly(S \ {NoVersion})
    PROVE  Comparable(S)
<1>1. Len(NoVersion.nodes) = 0 /\ DOMAIN NoVersion.nodes = {}
  BY DEF NoVersion
<1>2. \A v \in S : v.nodes \in Seq(Nodes) /\ Len(v.nodes) \in Nat /\ DOMAIN v.nodes = 1..Len(v.nodes)
  BY LenProperties DEF Versions
<1>3. \A v, w \in S : Fits(v, w)
  BY <1>1 DEF Orderly, Fits
<1>4. \A v \in S : NoStars(v)
  BY <1>1 DEF Orderly, NoStars
<1>5. ASSUME \A v \in S \ {NoVersion} : NoLetters(v)
      PROVE  Comparable(S)
  <2>1. \A v \in S : NoLetters(v)
    BY <1>1, <1>5 DEF NoLetters
  <2>2. \A v \in S : \A i \in DOMAIN v.nodes : ~(v.nodes[i].letter > 0)
    BY <2>1 DEF NoLetters
  <2> QED
    BY <1>3, <1>4, <2>1, <2>2 DEF Comparable
<1>6. ASSUME \A v, w \in S \ {NoVersion} :
               /\ Len(v.nodes) = Len(w.nodes)
               /\ NoLeadingZeroes(v)
               /\ \A i \in DOMAIN v.nodes : v.nodes[i].letter > 0 => i = Len(v.nodes)
      PROVE  Comparable(S)
  <2>1. \A v \in S : NoLeadingZeroes(v)
    BY <1>1, <1>6 DEF NoLeadingZeroes
  <2>2. ASSUME NEW v \in S, NEW w \in S, NEW i \in DOMAIN v.nodes, v.nodes[i].letter > 0
        PROVE  ~(i < Len(w.nodes))
    <3>1. v # NoVersion /\ i \in 1..Len(v.nodes) /\ i = Len(v.nodes)
      BY <1>1, <1>2, <1>6, <2>2
    <3>2. CASE w = NoVersion
      BY <1>1, <1>2, <3>1, <3>2
    <3>3. CASE w # NoVersion
      BY <1>2, <1>6, <3>1, <3>3
    <3> QED
      BY <3>2, <3>3
  <2> QED
    BY <1>3, <1>4, <2>1, <2>2 DEF Comparable
<1> QED
  BY <1>5, <1>6 DEF Orderly

\* The i-th nodes, where a version that has none is older.
At(v, w, i) ==
    IF i <= Len(v.nodes)
    THEN IF i <= Len(w.nodes) THEN NodeOrder(v.nodes[i], w.nodes[i]) ELSE 1
    ELSE IF i <= Len(w.nodes) THEN -1 ELSE 0

Places == Nat \ {0}

\* The comparison at each place of such versions is antisymmetric and
\* transitive.
LEMMA PlacesInOrder ==
    ASSUME NEW S, Comparable(S), NEW u \in S, NEW v \in S, NEW w \in S, NEW i \in Places
    PROVE  /\ At(u, v, i) \in Int /\ At(v, u, i) = -At(u, v, i)
           /\ At(u, v, i) >= 0 /\ At(v, w, i) >= 0 => At(u, w, i) >= 0
<1> DEFINE T == {x.nodes[i] : x \in {y \in S : i <= Len(y.nodes)}}
           a == Len(u.nodes)
           b == Len(v.nodes)
           c == Len(w.nodes)
           f == u.nodes[i]
           s == v.nodes[i]
           t == w.nodes[i]
<1>1. \A x \in S : /\ x.nodes \in Seq(Nodes) /\ Len(x.nodes) \in Nat
                   /\ i <= Len(x.nodes) => i \in DOMAIN x.nodes /\ x.nodes[i] \in Nodes
  BY LenProperties, ElementOfSeq DEF Comparable, Versions, Places
<1>2. T \in SUBSET Nodes
  BY <1>1
<1>3. OneKind(T)
  <2>1. CASE \A x \in S : NoLetters(x)
    BY <1>1, <2>1 DEF OneKind, NoLetters, Lettered
  <2>2. CASE \A x \in S : NoLeadingZeroes(x)
    BY <1>1, <2>2 DEF OneKind, NoLeadingZeroes
  <2> QED
    BY <2>1, <2>2 DEF Comparable
<1>4. /\ i <= a => f \in T
      /\ i <= b => s \in T
      /\ i <= c => t \in T
  OBVIOUS
<1>5. a \in Nat /\ b \in Nat /\ c \in Nat /\ i \in Nat
  BY <1>1 DEF Places
<1>6. /\ At(u, v, i) = IF i <= a THEN IF i <= b THEN NodeOrder(f, s) ELSE 1
                       ELSE IF i <= b THEN -1 ELSE 0
      /\ At(v, u, i) = IF i <= b THEN IF i <= a THEN NodeOrder(s, f) ELSE 1
                       ELSE IF i <= a THEN -1 ELSE 0
      /\ At(v, w, i) = IF i <= b THEN IF i <= c THEN NodeOrder(s, t) ELSE 1
                       ELSE IF i <= c THEN -1 ELSE 0
      /\ At(u, w, i) = IF i <= a THEN IF i <= c THEN NodeOrder(f, t) ELSE 1
                       ELSE IF i <= c THEN -1 ELSE 0
  BY DEF At
<1> HIDE DEF a, b, c, f, s, t, T
<1>7. i <= a /\ i <= b => NodeOrder(f, s) \in Int /\ NodeOrder(s, f) = -NodeOrder(f, s)
  BY <1>2, <1>3, <1>4, NodesInOrder
<1>8. i <= a /\ i <= b /\ i <= c /\ NodeOrder(f, s) >= 0 /\ NodeOrder(s, t) >= 0
        => NodeOrder(f, t) >= 0
  BY <1>2, <1>3, <1>4, NodesInOrder
<1> QED
  BY <1>5, <1>6, <1>7, <1>8

\* NodeCompare is the order of nodes.
LEMMA NodeCompareIs ==
    ASSUME NEW S, Comparable(S), NEW v \in S, NEW w \in S,
           NEW i \in DOMAIN v.nodes \cap DOMAIN w.nodes
    PROVE  NodeCompare(v, w, i) = At(v, w, i) /\ At(v, w, i) \in Int
<1> DEFINE f == v.nodes[i]
           s == w.nodes[i]
<1>1. /\ v.nodes \in Seq(Nodes) /\ w.nodes \in Seq(Nodes)
      /\ i \in 1..Len(v.nodes) /\ i \in 1..Len(w.nodes)
      /\ Len(v.nodes) \in Nat /\ Len(w.nodes) \in Nat
  BY LenProperties DEF Comparable, Versions
<1>2. f \in Nodes /\ s \in Nodes
  BY <1>1, ElementOfSeq
<1>3. ~f.star /\ ~s.star
  BY DEF Comparable, NoStars
<1>4. /\ ~(f.letter > 0 /\ i < Len(w.nodes))
      /\ ~(s.letter > 0 /\ i < Len(v.nodes))
  BY DEF Comparable
<1>5. Number(f, s) < WordRange \div 2 /\ Number(s, f) < WordRange \div 2
  BY DEF Comparable, Fits
<1>6. OneKind({f, s}) /\ OneKind({s, f})
  BY DEF Comparable, NoLetters, NoLeadingZeroes, OneKind, Lettered
<1>7. Number(f, s) \in Nat /\ Number(s, f) \in Nat
  BY <1>2, <1>6, NumberIsNatural
<1>8. At(v, w, i) = NodeOrder(f, s)
  BY <1>1 DEF At
<1> DEFINE p == Number(f, s)
           q == Number(s, f)
           h == WordRange \div 2
<1>9. NumberDifference(f, s) = p - q
  <2>1. h \in Nat
    BY WordIsEven
  <2>2. NumberDifference(f, s) = ToI32(ToI32(p) - ToI32(q))
    BY DEF NumberDifference
  <2>3. p \in Nat /\ q \in Nat /\ p < h /\ q < h
    BY <1>5, <1>7
  <2> HIDE DEF p, q, h
  <2>4. /\ p \in Int /\ -h <= p /\ p < h /\ q \in Int /\ -h <= q /\ q < h
        /\ p - q \in Int /\ -h <= p - q /\ p - q < h
    BY <2>1, <2>3
  <2>5. ToI32(p) = p /\ ToI32(q) = q /\ ToI32(p - q) = p - q
    BY <2>4, FitsIsSame DEF h
  <2> QED
    BY <2>2, <2>5
<1> DEFINE a == f.prefix - s.prefix
           c == f.letter - s.letter
           x == <<a, 0, 0, p - q, c>>
<1>10. NodeCompare(v, w, i) = FirstNonZero(x)
  BY <1>3, <1>4, <1>9 DEF NodeCompare
<1>11. a \in Int /\ c \in Int /\ p \in Int /\ q \in Int
  <2>1. /\ f.prefix \in Int /\ s.prefix \in Int
        /\ f.letter \in Int /\ s.letter \in Int
    BY <1>2 DEF Nodes
  <2>2. p \in Int /\ q \in Int
    BY <1>7
  <2> HIDE DEF f, s, p, q
  <2> QED
    BY <2>1, <2>2
<1>12. NodeOrder(f, s) = IF a # 0 THEN a ELSE IF p - q # 0 THEN p - q ELSE c
  <2>1. /\ f.prefix \in Int /\ s.prefix \in Int
    BY <1>2 DEF Nodes
  <2>2. f.prefix # s.prefix <=> a # 0
    BY <2>1
  <2>3. p # q <=> p - q # 0
    BY <1>11
  <2> QED
    BY <2>2, <2>3 DEF NodeOrder
<1> HIDE DEF a, c, p, q, f, s
<1>13. x \in [1..5 -> Int] /\ x[1] = a /\ x[2] = 0 /\ x[3] = 0 /\ x[4] = p - q /\ x[5] = c
  BY <1>11
<1> HIDE DEF x
<1>14. FirstNonZero(x) = IF a # 0 THEN a ELSE IF p - q # 0 THEN p - q ELSE c
  <2>1. CASE (\A j \in 1..5 : x[j] = 0) /\ FirstNonZero(x) = 0
    BY <1>13, <2>1
  <2>2. CASE \E j \in 1..5 : /\ x[j] # 0 /\ \A k \in 1..(j - 1) : x[k] = 0
                             /\ FirstNonZero(x) = x[j]
    <3>1. PICK j \in 1..5 : /\ x[j] # 0 /\ \A k \in 1..(j - 1) : x[k] = 0
                            /\ FirstNonZero(x) = x[j]
      BY <2>2
    <3>2. j = 1 \/ j = 4 \/ j = 5
      BY <1>13, <3>1
    <3>3. CASE j = 1
      BY <1>13, <3>1, <3>3
    <3>4. CASE j = 4
      BY <1>13, <3>1, <3>4
    <3>5. CASE j = 5
      BY <1>13, <3>1, <3>5
    <3> QED
      BY <3>2, <3>3, <3>4, <3>5
  <2> QED
    BY <1>13, <2>1, <2>2, FirstNonZeroIs
<1> QED
  BY <1>8, <1>10, <1>11, <1>12, <1>14 DEF f, s

\* The first place at which two versions differ.
Leads(v, w, i) == At(v, w, i) # 0 /\ \A j \in 1..(i - 1) : At(v, w, j) = 0

\* Compare decides by that place, or else by the revisions.
Decides(v, w, c) ==
    \/ \E i \in Places : Leads(v, w, i) /\ (c > 0 <=> At(v, w, i) > 0) /\ (c < 0 <=> At(v, w, i) < 0)
    \/ (\A i \in Places : At(v, w, i) = 0) /\ c = v.revision - w.revision

\* atom_version_compare gives what the first place decides at which two
\* versions differ, and the revisions where none does.
LEMMA CompareDecides ==
    ASSUME NEW S, Comparable(S), NEW v \in S, NEW w \in S
    PROVE  Compare(v, w) \in Int /\ Decides(v, w, Compare(v, w))
<1> DEFINE a == Len(v.nodes)
           b == Len(w.nodes)
           m == IF a <= b THEN a ELSE b
           d == a - b
           r == v.revision - w.revision
           first == [i \in 1..m |-> NodeCompare(v, w, i)]
           x == first \o <<d, r>>
<1>1. /\ a \in Nat /\ b \in Nat /\ DOMAIN v.nodes = 1..a /\ DOMAIN w.nodes = 1..b
      /\ v.revision \in Int /\ w.revision \in Int
  BY LenProperties DEF Comparable, Versions
<1>2. Starred(v, w) = {} /\ SharedNodes(v, w) = 1..m
  <2>1. Starred(v, w) = {}
    BY DEF Starred, Comparable, NoStars
  <2>2. (1..a) \cap (1..b) = 1..m
    BY <1>1
  <2> QED
    BY <1>1, <2>1, <2>2 DEF SharedNodes
<1>3. Compare(v, w) = FirstNonZero(x)
  BY <1>2 DEF Compare
<1>4. \A i \in 1..m : NodeCompare(v, w, i) = At(v, w, i) /\ At(v, w, i) \in Int
  <2>1. \A i \in 1..m : i \in DOMAIN v.nodes \cap DOMAIN w.nodes
    BY <1>1
  <2> HIDE DEF m
  <2> QED
    BY <2>1, NodeCompareIs
<1>5. /\ a - b \in Int /\ d = a - b /\ r \in Int /\ m \in Nat
      /\ m <= a /\ m <= b /\ (m = a \/ m = b)
  BY <1>1
<1> HIDE DEF a, b, m, d, r
<1>6. first \in Seq(Int) /\ Len(first) = m /\ \A i \in 1..m : first[i] = At(v, w, i)
  BY <1>4, <1>5
<1> HIDE DEF first
<1>7. /\ x \in Seq(Int) /\ Len(x) = m + 2
      /\ (\A i \in 1..m : x[i] = At(v, w, i)) /\ x[m + 1] = d /\ x[m + 2] = r
  <2> DEFINE y == <<d, r>>
  <2>1. y \in Seq(Int) /\ Len(y) = 2 /\ y[1] = d /\ y[2] = r
    BY <1>5
  <2> HIDE DEF y
  <2>2. /\ first \o y \in Seq(Int) /\ Len(first \o y) = m + 2
        /\ \A i \in 1..(m + 2) : (first \o y)[i] = IF i <= m THEN first[i] ELSE y[i - m]
    <3>1. first \in Seq(Int) /\ y \in Seq(Int)
      BY <1>6, <2>1
    <3>2. /\ first \o y \in Seq(Int) /\ Len(first \o y) = Len(first) + Len(y)
          /\ \A i \in 1..(Len(first) + Len(y)) :
               (first \o y)[i] = IF i <= Len(first) THEN first[i] ELSE y[i - Len(first)]
      BY <3>1, ConcatProperties
    <3> QED
      BY <1>6, <2>1, <3>2
  <2>3. (m + 1) - m = 1 /\ (m + 2) - m = 2 /\ m + 1 \in 1..(m + 2) /\ m + 2 \in 1..(m + 2)
        /\ ~(m + 1 <= m) /\ ~(m + 2 <= m) /\ \A i \in 1..m : i \in 1..(m + 2) /\ i <= m
    BY <1>5
  <2> QED
    BY <1>6, <2>1, <2>2, <2>3 DEF y
<1> HIDE DEF x
<1>8. x \in [1..(m + 2) -> Int] /\ m + 2 \in Nat
  BY <1>5, <1>7, LenProperties
\* behind the nodes that both have
<1>9. \A i \in Places : m < i =>
        At(v, w, i) = IF i <= a THEN 1 ELSE IF i <= b THEN -1 ELSE 0
  BY <1>1, <1>5 DEF At, Places, a, b
<1>10. CASE (\A i \in 1..(m + 2) : x[i] = 0) /\ FirstNonZero(x) = 0
  <2>1. d = 0 /\ r = 0
    BY <1>5, <1>7, <1>10
  <2>2. a = m /\ b = m
    BY <1>1, <1>5, <2>1
  <2>3. \A i \in Places : At(v, w, i) = 0
    <3>1. \A i \in Places : m < i => At(v, w, i) = 0
      BY <1>5, <1>9, <2>2 DEF Places
    <3>2. \A i \in Places : ~(m < i) => i \in 1..m /\ i \in 1..(m + 2)
      BY <1>5 DEF Places
    <3> QED
      BY <1>7, <1>10, <3>1, <3>2
  <2> QED
    BY <1>3, <1>10, <2>1, <2>3 DEF Decides, r
<1>11. CASE \E i \in 1..(m + 2) : /\ x[i] # 0 /\ \A j \in 1..(i - 1) : x[j] = 0
                                  /\ FirstNonZero(x) = x[i]
  <2>1. PICK i \in 1..(m + 2) : /\ x[i] # 0 /\ \A j \in 1..(i - 1) : x[j] = 0
                                /\ FirstNonZero(x) = x[i]
    BY <1>11
  <2>2. CASE i \in 1..m
    <3>1. At(v, w, i) = Compare(v, w) /\ At(v, w, i) \in Int
      BY <1>3, <1>4, <1>7, <2>1, <2>2
    <3>2. \A j \in 1..(i - 1) : j \in 1..m
      BY <1>5, <2>2
    <3>3. Leads(v, w, i) /\ i \in Places
      BY <1>5, <1>7, <2>1, <2>2, <3>2 DEF Leads, Places
    <3> QED
      BY <3>1, <3>3 DEF Decides
  <2>3. CASE i = m + 1
    <3>1. d # 0 /\ Compare(v, w) = d /\ i \in Places /\ m < i
      BY <1>3, <1>5, <1>7, <2>1, <2>3 DEF Places
    <3>2. At(v, w, i) = IF i <= a THEN 1 ELSE IF i <= b THEN -1 ELSE 0
      BY <1>9, <3>1
    <3>3. (d > 0 /\ At(v, w, i) = 1) \/ (d < 0 /\ At(v, w, i) = -1)
      BY <1>1, <1>5, <2>3, <3>1, <3>2
    <3>4. \A j \in 1..(i - 1) : j \in 1..m
      BY <1>5, <2>3
    <3>5. Leads(v, w, i)
      BY <1>7, <2>1, <3>3, <3>4 DEF Leads
    <3> QED
      BY <1>5, <3>1, <3>3, <3>5 DEF Decides
  <2>4. CASE i = m + 2
    <3>1. d = 0 /\ Compare(v, w) = r
      <4>1. m + 1 \in 1..(i - 1)
        BY <1>5, <2>4
      <4> QED
        BY <1>3, <1>7, <2>1, <2>4, <4>1
    <3>2. a = m /\ b = m
      BY <1>1, <1>5, <3>1
    <3>3. \A j \in Places : At(v, w, j) = 0
      <4>1. \A j \in Places : m < j => At(v, w, j) = 0
        BY <1>5, <1>9, <3>2 DEF Places
      <4>2. \A j \in Places : ~(m < j) => j \in 1..m /\ j \in 1..(i - 1)
        BY <1>5, <2>4 DEF Places
      <4> QED
        BY <1>7, <2>1, <4>1, <4>2
    <3> QED
      BY <1>5, <3>1, <3>3 DEF Decides, r
  <2> QED
    BY <1>5, <2>2, <2>3, <2>4
<1> QED
  BY <1>8, <1>10, <1>11, FirstNonZeroIs

\* First places that differ put the versions in one order.
LEMMA ComparableIsOrdered ==
    ASSUME NEW S, Comparable(S)
    PROVE  IsPreorder(S)
<1>1. \A v, w \in S : Compare(v, w) \in Int /\ Decides(v, w, Compare(v, w))
  BY CompareDecides
<1>2. \A v \in S : v.revision \in Int
  BY DEF Comparable, Versions
<1>3. \A i \in Places : i \in Nat /\ i >= 1
  BY DEF Places
<1>4. \A i, j \in Places : i < j \/ i = j \/ j < i
  BY DEF Places
<1>5. \A i, j \in Places : j < i => j \in 1..(i - 1)
  BY DEF Places
<1>6. ASSUME NEW v \in S, NEW w \in S
      PROVE  Compare(v, w) > 0 <=> Compare(w, v) < 0
  <2> DEFINE c == Compare(v, w)
             e == Compare(w, v)
  <2>1. c \in Int /\ e \in Int /\ Decides(v, w, c) /\ Decides(w, v, e)
    BY <1>1
  <2>2. \A i \in Places : At(v, w, i) \in Int /\ At(w, v, i) = -At(v, w, i)
    BY PlacesInOrder
  <2> HIDE DEF c, e
  <2>3. CASE \A i \in Places : At(v, w, i) = 0
    <3>1. \A i \in Places : At(w, v, i) = 0
      BY <2>2, <2>3
    <3>2. c = v.revision - w.revision /\ e = w.revision - v.revision
      BY <2>1, <2>3, <3>1 DEF Decides, Leads
    <3> QED
      BY <1>2, <3>2 DEF c, e
  <2>4. CASE ~ \A i \in Places : At(v, w, i) = 0
    <3>1. PICK i \in Places : Leads(v, w, i) /\ (c > 0 <=> At(v, w, i) > 0)
      BY <2>1, <2>4 DEF Decides
    <3>2. ~ \A j \in Places : At(w, v, j) = 0
      BY <2>2, <2>4
    <3>3. PICK j \in Places : Leads(w, v, j) /\ (e < 0 <=> At(w, v, j) < 0)
      BY <2>1, <3>2 DEF Decides
    <3>4. At(w, v, i) # 0 /\ At(v, w, j) # 0
      BY <2>2, <3>1, <3>3 DEF Leads
    <3>5. i = j
      BY <1>4, <1>5, <3>1, <3>3, <3>4 DEF Leads
    <3> QED
      BY <2>2, <3>1, <3>3, <3>5 DEF c, e
  <2> QED
    BY <2>3, <2>4
<1>7. ASSUME NEW u \in S, NEW v \in S, NEW w \in S, Compare(u, v) >= 0, Compare(v, w) >= 0
      PROVE  Compare(u, w) >= 0
  <2> DEFINE c == Compare(u, v)
             d == Compare(v, w)
             e == Compare(u, w)
  <2>1. /\ c \in Int /\ d \in Int /\ e \in Int /\ c >= 0 /\ d >= 0
        /\ Decides(u, v, c) /\ Decides(v, w, d) /\ Decides(u, w, e)
    BY <1>1, <1>7
  <2>2. \A i \in Places :
          /\ At(u, v, i) \in Int /\ At(v, w, i) \in Int /\ At(u, w, i) \in Int
          /\ At(u, v, i) >= 0 /\ At(v, w, i) >= 0 => At(u, w, i) >= 0
          /\ At(v, u, i) = -At(u, v, i) /\ At(w, v, i) = -At(v, w, i) /\ At(w, u, i) = -At(u, w, i)
          /\ At(w, v, i) >= 0 /\ At(v, u, i) >= 0 => At(w, u, i) >= 0
          /\ At(w, u, i) >= 0 /\ At(u, v, i) >= 0 => At(w, v, i) >= 0
          /\ At(v, w, i) >= 0 /\ At(w, u, i) >= 0 => At(v, u, i) >= 0
    BY PlacesInOrder
  <2> HIDE DEF c, d, e
  \* at one place
  <2>3. \A i \in Places :
          /\ At(u, v, i) = 0 /\ At(v, w, i) = 0 => At(u, w, i) = 0
          /\ At(u, v, i) >= 0 /\ At(v, w, i) >= 0 /\ (At(u, v, i) > 0 \/ At(v, w, i) > 0) => At(u, w, i) > 0
    BY <2>2
  \* where one of u, v and v, w differs first, its difference counts
  <2>4. ASSUME NEW i \in Places, Leads(u, v, i)
        PROVE  At(u, v, i) > 0
    <3>1. PICK j \in Places : Leads(u, v, j) /\ (c < 0 <=> At(u, v, j) < 0)
      BY <2>1, <2>4 DEF Decides, Leads
    <3>2. i = j
      BY <1>4, <1>5, <2>4, <3>1 DEF Leads
    <3> QED
      BY <2>1, <2>2, <3>1, <3>2 DEF Leads
  <2>5. ASSUME NEW i \in Places, Leads(v, w, i)
        PROVE  At(v, w, i) > 0
    <3>1. PICK j \in Places : Leads(v, w, j) /\ (d < 0 <=> At(v, w, j) < 0)
      BY <2>1, <2>5 DEF Decides, Leads
    <3>2. i = j
      BY <1>4, <1>5, <2>5, <3>1 DEF Leads
    <3> QED
      BY <2>1, <2>2, <3>1, <3>2 DEF Leads
  <2>6. CASE \A i \in Places : At(u, v, i) = 0 /\ At(v, w, i) = 0
    <3>1. \A i \in Places : At(u, w, i) = 0
      BY <2>3, <2>6
    <3>2. /\ c = u.revision - v.revision /\ d = v.revision - w.revision
          /\ e = u.revision - w.revision
      BY <2>1, <2>6, <3>1 DEF Decides, Leads
    <3> QED
      BY <1>2, <2>1, <3>2 DEF e
  <2>7. CASE \E i \in Places : At(u, v, i) # 0 \/ At(v, w, i) # 0
    <3> DEFINE D == {i \in Places : At(u, v, i) # 0 \/ At(v, w, i) # 0}
    <3>1. D \in SUBSET Nat /\ D # {}
      BY <1>3, <2>7
    <3>2. PICK i \in D : \A j \in D : i <= j
      BY <3>1, HasLeast
    <3>3. i \in Places /\ (At(u, v, i) # 0 \/ At(v, w, i) # 0)
      BY <3>2
    <3>4. \A j \in 1..(i - 1) : j \in Places /\ j \notin D
      BY <3>2, <3>3 DEF Places
    <3>5. \A j \in 1..(i - 1) : At(u, v, j) = 0 /\ At(v, w, j) = 0
      BY <3>4
    <3> HIDE DEF D
    <3>6. /\ At(u, v, i) # 0 => At(u, v, i) > 0
          /\ At(v, w, i) # 0 => At(v, w, i) > 0
      BY <2>4, <2>5, <3>3, <3>5 DEF Leads
    <3>7. At(u, w, i) > 0
      BY <2>2, <2>3, <3>3, <3>6
    <3>8. Leads(u, w, i)
      BY <2>3, <3>4, <3>5, <3>7 DEF Leads
    <3>9. PICK j \in Places : Leads(u, w, j) /\ (e < 0 <=> At(u, w, j) < 0)
      BY <2>1, <3>3, <3>8 DEF Decides, Leads
    <3>10. i = j
      BY <1>4, <1>5, <3>3, <3>8, <3>9 DEF Leads
    <3> QED
      BY <2>1, <2>2, <3>3, <3>7, <3>9, <3>10 DEF e
  <2> QED
    BY <2>6, <2>7
<1> QED
  BY <1>1, <1>6, <1>7 DEF IsPreorder

\* atom_version_compare puts versions in order, whatever their number, their
\* nodes and their revisions are, as long as they are Orderly: any two of them
\* one way round, and any three of them transitively.  Packages are sorted by
\* it, and the newest of their ebuilds is chosen by it.
THEOREM OrderlyIsOrdered ==
    ASSUME NEW S \in SUBSET Versions, Orderly(S \ {NoVersion})
    PROVE  IsPreorder(S)
BY OrderlyIsComparable, ComparableIsOrdered

----------------------------------------------------------------------------
(* Lists of ebuilds *)

VersionsOf(s) == {VersionOf[e] : e \in Elements(s)}

\* A list as add_ebuild makes it of the ebuilds that were given.
WellFormed(s, given) ==
    /\ HoldsAll(s, given)
    /\ IsPreorder(VersionsOf(s)) => SortedStably(s, given)

----------------------------------------------------------------------------
(* Orders and sequences *)

\* The sign of a comparison, both ways round.
LEMMA PreorderLaws ==
    ASSUME NEW S, IsPreorder(S), NEW u \in S, NEW v \in S, NEW w \in S
    PROVE  /\ Compare(u, v) \in Int /\ Compare(v, u) \in Int /\ Compare(u, u) = 0
           /\ Compare(u, v) > 0 <=> Compare(v, u) < 0
           /\ Compare(u, v) = 0 <=> Compare(v, u) = 0
           /\ Compare(u, v) > 0 /\ Compare(v, w) >= 0 => Compare(u, w) > 0
<1>1. /\ Compare(u, v) \in Int /\ Compare(v, u) \in Int /\ Compare(u, u) \in Int
      /\ Compare(u, w) \in Int /\ Compare(w, u) \in Int
      /\ Compare(v, w) \in Int /\ Compare(w, v) \in Int
  BY DEF IsPreorder
<1>2. /\ Compare(u, v) > 0 <=> Compare(v, u) < 0
      /\ Compare(v, u) > 0 <=> Compare(u, v) < 0
      /\ Compare(u, u) > 0 <=> Compare(u, u) < 0
      /\ Compare(w, u) > 0 <=> Compare(u, w) < 0
      /\ Compare(u, w) > 0 <=> Compare(w, u) < 0
  BY DEF IsPreorder
<1>3. Compare(v, w) >= 0 /\ Compare(w, u) >= 0 => Compare(v, u) >= 0
  BY DEF IsPreorder
<1> QED
  BY <1>1, <1>2, <1>3

\* Some of the versions in order are in order.
LEMMA PreorderOfSubset ==
    ASSUME NEW S, IsPreorder(S), NEW T \in SUBSET S
    PROVE  IsPreorder(T)
BY DEF IsPreorder

\* A set of positions has a first one.
LEMMA FirstIsLeast ==
    ASSUME NEW S \in SUBSET Nat, S # {}
    PROVE  FirstOf(S) \in S /\ \A i \in S : FirstOf(S) <= i
BY HasLeast, Zenon DEF FirstOf

\* The elements of a sequence into which one was inserted.
LEMMA InsertedElements ==
    ASSUME NEW s \in Seq(Ebuilds), NEW e \in Ebuilds, NEW p \in 1..(Len(s) + 1)
    PROVE  LET t == Seqs!InsertAt(s, p, e) IN
           /\ t \in Seq(Ebuilds) /\ Len(t) = Len(s) + 1
           /\ \A i \in 1..(p - 1) : t[i] = s[i]
           /\ t[p] = e
           /\ \A i \in (p + 1)..(Len(s) + 1) : t[i] = s[i - 1]
<1> DEFINE n == Len(s)
           left == SubSeq(s, 1, p - 1)
           right == SubSeq(s, p, n)
           one == <<e>>
<1>1. n \in Nat /\ p \in Nat /\ \A i \in 1..n : s[i] \in Ebuilds
  BY LenProperties, ElementOfSeq
<1>2. /\ left \in Seq(Ebuilds) /\ Len(left) = p - 1
      /\ \A i \in 1..(p - 1) : left[i] = s[i]
  BY <1>1, SubSeqProperties
<1>3. /\ right \in Seq(Ebuilds) /\ Len(right) = n - p + 1
      /\ \A i \in 1..(n - p + 1) : right[i] = s[p + i - 1]
  BY <1>1, SubSeqProperties
<1>4. one \in Seq(Ebuilds) /\ Len(one) = 1 /\ one[1] = e
  OBVIOUS
<1>5. Seqs!InsertAt(s, p, e) = left \o one \o right
  BY DEF Seqs!InsertAt
<1> HIDE DEF left, right, one
<1> DEFINE start == left \o one
<1>6. /\ start \in Seq(Ebuilds) /\ Len(start) = p
      /\ \A i \in 1..p : start[i] = IF i <= p - 1 THEN left[i] ELSE one[i - (p - 1)]
  <2>1. /\ start \in Seq(Ebuilds) /\ Len(start) = Len(left) + Len(one)
        /\ \A i \in 1..(Len(left) + Len(one)) :
             start[i] = IF i <= Len(left) THEN left[i] ELSE one[i - Len(left)]
    BY <1>2, <1>4, ConcatProperties
  <2> QED
    BY <1>1, <1>2, <1>4, <2>1
<1>7. Seqs!InsertAt(s, p, e) = start \o right
  BY <1>5
<1> HIDE DEF start
<1>8. /\ start \o right \in Seq(Ebuilds) /\ Len(start \o right) = n + 1
      /\ \A i \in 1..(n + 1) :
           (start \o right)[i] = IF i <= p THEN start[i] ELSE right[i - p]
  <2>1. /\ start \o right \in Seq(Ebuilds) /\ Len(start \o right) = Len(start) + Len(right)
        /\ \A i \in 1..(Len(start) + Len(right)) :
             (start \o right)[i] = IF i <= Len(start) THEN start[i] ELSE right[i - Len(start)]
    BY <1>3, <1>6, ConcatProperties
  <2>2. Len(start) = p /\ Len(start) + Len(right) = n + 1
    BY <1>1, <1>3, <1>6
  <2> QED
    BY <2>1, <2>2
<1> DEFINE t == start \o right
<1> HIDE DEF t
<1>9. ASSUME NEW i \in 1..(p - 1) PROVE t[i] = s[i]
  <2>1. t[i] = start[i] /\ start[i] = left[i]
    BY <1>1, <1>6, <1>8 DEF t
  <2> QED
    BY <1>2, <2>1
<1>10. t[p] = e
  <2>1. t[p] = start[p] /\ start[p] = one[p - (p - 1)]
    BY <1>1, <1>6, <1>8 DEF t
  <2> QED
    BY <1>1, <1>4, <2>1
<1>11. ASSUME NEW i \in (p + 1)..(n + 1) PROVE t[i] = s[i - 1]
  <2>1. t[i] = right[i - p] /\ i - p \in 1..(n - p + 1) /\ p + (i - p) - 1 = i - 1
    BY <1>1, <1>8 DEF t
  <2> QED
    BY <1>3, <2>1
<1> QED
  BY <1>7, <1>8, <1>9, <1>10, <1>11 DEF t

----------------------------------------------------------------------------
(* The list *)

\* The elements of a list are what its places have.
LEMMA ElementsOf ==
    ASSUME NEW s \in Seq(Ebuilds)
    PROVE  /\ Len(s) \in Nat /\ DOMAIN s = 1..Len(s)
           /\ \A i \in DOMAIN s : s[i] \in Ebuilds /\ s[i] \in Elements(s)
           /\ Elements(s) = {s[i] : i \in 1..Len(s)}
BY LenProperties, ElementOfSeq DEF Elements

\* An ebuild put at the end leaves the others in their places.
LEMMA Appended ==
    ASSUME NEW s \in Seq(Ebuilds), NEW e \in Ebuilds
    PROVE  LET t == Append(s, e) IN
           /\ t \in Seq(Ebuilds) /\ Len(t) = Len(s) + 1
           /\ \A i \in 1..Len(s) : t[i] = s[i]
           /\ t[Len(s) + 1] = e
           /\ Len(s) \in Nat /\ DOMAIN s = 1..Len(s)
           /\ DOMAIN t = 1..(Len(s) + 1)
BY AppendProperties, LenProperties

\* A list has finitely many ebuilds.
LEMMA ElementsAreFinite ==
    ASSUME NEW s \in Seq(Ebuilds)
    PROVE  IsFiniteSet(Elements(s))
<1>1. Len(s) \in Nat /\ s \in [1..Len(s) -> Elements(s)]
  BY ElementsOf, LenProperties
<1>2. s \in Surjection(1..Len(s), Elements(s))
  BY <1>1, ElementsOf DEF Surjection
<1>3. IsFiniteSet(1..Len(s))
  BY <1>1, FS_Interval
<1> QED
  BY <1>2, <1>3, FS_Surjection, Zenon

\* A new package has no ebuilds.
LEMMA EmptyIsWellFormed == WellFormed(<<>>, <<>>)
<1> DEFINE s == <<>>
<1>1. s \in Seq(Ebuilds) /\ Len(s) = 0 /\ DOMAIN s = {}
  OBVIOUS
<1> HIDE DEF s
<1>2. Elements(s) = {} /\ SortedStably(s, s)
  BY <1>1 DEF Elements, SortedStably
<1> QED
  BY <1>1, <1>2, FS_EmptySet DEF WellFormed, HoldsAll, s

\* The package that initialize_repository makes has one.
LEMMA OneIsWellFormed ==
    ASSUME NEW e \in Ebuilds
    PROVE  WellFormed(<<e>>, <<e>>) /\ Elements(<<e>>) = {e}
<1> DEFINE s == <<e>>
<1>1. s \in Seq(Ebuilds) /\ Len(s) = 1 /\ DOMAIN s = 1..1 /\ s[1] = e
  OBVIOUS
<1> HIDE DEF s
<1>2. Elements(s) = {e}
  BY <1>1 DEF Elements
<1>3. HoldsAll(s, s)
  <2>1. Cardinality({e}) = 1
    BY FS_Singleton
  <2> QED
    BY <1>1, <1>2, <2>1 DEF HoldsAll
<1>4. SortedStably(s, s)
  BY <1>1 DEF SortedStably
<1> QED
  BY <1>2, <1>3, <1>4 DEF WellFormed, s

\* Where an ebuild goes: after those that it is not newer than, before one
\* that it is newer than.
LEMMA PlaceOf ==
    ASSUME NEW s \in Seq(Ebuilds), NEW e
    PROVE  /\ Place(s, e) \in 1..(Len(s) + 1)
           /\ \A i \in 1..(Place(s, e) - 1) : ~(Compare(VersionOf[e], VersionOf[s[i]]) > 0)
           /\ Place(s, e) <= Len(s) =>
                Compare(VersionOf[e], VersionOf[s[Place(s, e)]]) > 0
<1> DEFINE n == Len(s)
           older == {i \in DOMAIN s : Compare(VersionOf[e], VersionOf[s[i]]) > 0}
           S == older \cup {n + 1}
<1>1. n \in Nat /\ DOMAIN s = 1..n
  BY ElementsOf
<1>2. S \in SUBSET Nat /\ S # {}
  BY <1>1
<1>3. Place(s, e) = FirstOf(S)
  BY DEF Place
<1> HIDE DEF S
<1>4. Place(s, e) \in S /\ \A i \in S : Place(s, e) <= i
  <2>1. FirstOf(S) \in S /\ \A i \in S : FirstOf(S) <= i
    BY <1>2, FirstIsLeast, Zenon
  <2> QED
    BY <1>3, <2>1, Zenon
<1> USE DEF S
<1> QED
  BY <1>1, <1>4

\* add_ebuild keeps a list well formed.
LEMMA InsertedIsWellFormed ==
    ASSUME NEW s, NEW given, WellFormed(s, given), NEW e \in Ebuilds, e \notin Elements(s)
    PROVE  /\ WellFormed(Inserted(s, e), Append(given, e))
           /\ Elements(Inserted(s, e)) = Elements(s) \cup {e}
<1> DEFINE p == Place(s, e)
           n == Len(s)
           t == Inserted(s, e)
           more == Append(given, e)
           C(f, g) == Compare(VersionOf[f], VersionOf[g])
<1>1. /\ s \in Seq(Ebuilds) /\ given \in Seq(Ebuilds)
      /\ Elements(s) = Elements(given) /\ Len(s) = Len(given)
      /\ Len(s) = Cardinality(Elements(s))
  BY DEF WellFormed, HoldsAll
<1>2. /\ n \in Nat /\ DOMAIN s = 1..n
      /\ \A i \in 1..n : s[i] \in Ebuilds /\ s[i] \in Elements(s)
  BY <1>1, ElementsOf
<1>3. /\ p \in 1..(n + 1)
      /\ \A i \in 1..(p - 1) : ~(C(e, s[i]) > 0)
      /\ p <= n => C(e, s[p]) > 0
  BY <1>1, PlaceOf
<1> HIDE DEF p
<1>4. /\ t \in Seq(Ebuilds) /\ Len(t) = n + 1
      /\ \A i \in 1..(p - 1) : t[i] = s[i]
      /\ t[p] = e
      /\ \A i \in (p + 1)..(n + 1) : t[i] = s[i - 1]
  <2>1. t = Seqs!InsertAt(s, p, e)
    BY DEF Inserted, p
  <2> HIDE DEF t
  <2> DEFINE u == Seqs!InsertAt(s, p, e)
  <2>2. /\ u \in Seq(Ebuilds) /\ Len(u) = Len(s) + 1
        /\ \A i \in 1..(p - 1) : u[i] = s[i]
        /\ u[p] = e
        /\ \A i \in (p + 1)..(Len(s) + 1) : u[i] = s[i - 1]
    <3>1. s \in Seq(Ebuilds) /\ p \in 1..(Len(s) + 1)
      BY <1>1, <1>3
    <3> QED
      BY <3>1, InsertedElements, SMTT(60)
  <2> HIDE DEF u
  <2> QED
    BY <2>1, <2>2 DEF u
<1> HIDE DEF t
<1>5. DOMAIN t = 1..(n + 1) /\ \A i \in 1..(n + 1) : t[i] \in Elements(t)
  BY <1>2, <1>4, ElementsOf
<1>6. /\ more \in Seq(Ebuilds) /\ Len(more) = Len(given) + 1
      /\ \A i \in 1..Len(given) : more[i] = given[i]
      /\ more[Len(given) + 1] = e
      /\ Len(given) \in Nat /\ DOMAIN given = 1..Len(given)
      /\ DOMAIN more = 1..(Len(given) + 1)
  <2>1. given \in Seq(Ebuilds)
    BY <1>1
  <2> QED
    BY <2>1, Appended
<1> HIDE DEF more
<1>7. Elements(more) = Elements(given) \cup {e}
  <2>1. Elements(more) = {more[i] : i \in 1..(Len(given) + 1)}
    BY <1>6, ElementsOf
  <2>2. Elements(given) = {given[i] : i \in 1..Len(given)}
    BY <1>1, ElementsOf
  <2> QED
    BY <1>6, <2>1, <2>2
<1>8. Elements(t) = Elements(s) \cup {e}
  <2>1. Elements(t) \subseteq Elements(s) \cup {e}
    <3>1. ASSUME NEW i \in 1..(n + 1) PROVE t[i] \in Elements(s) \cup {e}
      <4>1. CASE i < p
        BY <1>2, <1>3, <1>4, <4>1
      <4>2. CASE i = p
        BY <1>4, <4>2
      <4>3. CASE i > p
        BY <1>2, <1>3, <1>4, <4>3
      <4> QED
        BY <1>3, <4>1, <4>2, <4>3
    <3> QED
      BY <1>5, <3>1 DEF Elements
  <2>2. e \in Elements(t)
    BY <1>3, <1>4, <1>5
  <2>3. ASSUME NEW i \in 1..n PROVE s[i] \in Elements(t)
    <3>1. CASE i < p
      BY <1>2, <1>3, <1>4, <1>5, <3>1
    <3>2. CASE i >= p
      <4>1. i + 1 \in (p + 1)..(n + 1) /\ i + 1 \in 1..(n + 1) /\ (i + 1) - 1 = i
        BY <1>2, <1>3, <3>2
      <4>2. t[i + 1] = s[i]
        BY <1>4, <4>1
      <4> QED
        BY <1>5, <4>1, <4>2
    <3> QED
      BY <1>2, <1>3, <3>1, <3>2
  <2> QED
    BY <1>2, <2>1, <2>2, <2>3 DEF Elements
<1>9. ASSUME IsPreorder(VersionsOf(t)) PROVE SortedStably(t, more)
  <2>1. /\ VersionsOf(t) = {VersionOf[f] : f \in Elements(t)}
        /\ VersionsOf(s) = {VersionOf[f] : f \in Elements(s)}
    BY DEF VersionsOf
  <2>2. SortedStably(s, given)
    BY <1>8, <1>9, <2>1, PreorderOfSubset DEF WellFormed
  <2>3. \A i \in 1..(n + 1) : VersionOf[t[i]] \in VersionsOf(t)
    BY <1>5, <2>1
  <2>4. \A i, j \in 1..n : i < j =>
          \/ C(s[i], s[j]) > 0
          \/ C(s[i], s[j]) = 0 /\ Before(given, s[i], s[j])
    BY <1>2, <2>2 DEF SortedStably
  <2>5. \A f, g : Before(given, f, g) => Before(more, f, g)
    BY <1>6 DEF Before
  <2>6. \A f \in Elements(s) : Before(more, f, e)
    <3>1. ASSUME NEW f \in Elements(s) PROVE Before(more, f, e)
      <4>1. PICK i \in 1..Len(given) : given[i] = f
        BY <1>1, <1>6 DEF Elements
      <4>2. /\ i \in DOMAIN more /\ Len(given) + 1 \in DOMAIN more /\ i < Len(given) + 1
            /\ more[i] = f /\ more[Len(given) + 1] = e
        BY <1>6, <4>1
      <4> QED
        BY <4>2, Zenon DEF Before
    <3> QED
      BY <3>1
  <2>7. ASSUME NEW i \in 1..(n + 1), NEW j \in 1..(n + 1), i < j
        PROVE  \/ C(t[i], t[j]) > 0
               \/ /\ C(t[i], t[j]) = 0
                  /\ Before(more, t[i], t[j])
    <3>1. CASE j < p
      <4>1. t[i] = s[i] /\ t[j] = s[j] /\ i \in 1..n /\ j \in 1..n
        BY <1>2, <1>3, <1>4, <2>7, <3>1
      <4> QED
        BY <2>4, <2>5, <2>7, <4>1
    <3>2. CASE j = p
      <4>1. i \in 1..(p - 1) /\ i \in 1..n /\ t[i] = s[i] /\ t[j] = e
        BY <1>2, <1>3, <1>4, <2>7, <3>2
      <4>2. ~(C(e, s[i]) > 0)
        BY <1>3, <4>1
      <4>3. C(s[i], e) > 0 \/ C(s[i], e) = 0
        <5>1. VersionOf[s[i]] \in VersionsOf(t) /\ VersionOf[e] \in VersionsOf(t)
          BY <2>3, <4>1
        <5> QED
          BY <1>9, <4>2, <5>1, PreorderLaws
      <4>4. Before(more, s[i], e)
        BY <1>2, <2>6, <4>1
      <4> QED
        BY <4>1, <4>3, <4>4
    <3>3. CASE i = p
      <4>1. /\ j \in (p + 1)..(n + 1) /\ j - 1 \in 1..n /\ p \in 1..n
            /\ t[i] = e /\ t[j] = s[j - 1]
        BY <1>2, <1>3, <1>4, <2>7, <3>3
      <4>2. C(e, s[p]) > 0
        BY <1>3, <4>1
      <4>3. /\ VersionOf[e] \in VersionsOf(t) /\ VersionOf[s[j - 1]] \in VersionsOf(t)
            /\ VersionOf[s[p]] \in VersionsOf(t)
        BY <1>2, <1>8, <2>1, <2>3, <4>1
      <4>4. C(s[p], s[j - 1]) >= 0
        <5>1. CASE j - 1 = p
          BY <1>9, <4>3, <5>1, PreorderLaws
        <5>2. CASE j - 1 # p
          <6>1. p < j - 1
            BY <1>3, <4>1, <5>2
          <6>2. C(s[p], s[j - 1]) > 0 \/ C(s[p], s[j - 1]) = 0
            BY <2>4, <4>1, <6>1
          <6> QED
            BY <1>9, <4>3, <6>2, PreorderLaws
        <5> QED
          BY <5>1, <5>2
      <4>5. C(e, s[j - 1]) > 0
        BY <1>9, <4>2, <4>3, <4>4, PreorderLaws
      <4> QED
        BY <4>1, <4>5
    <3>4. CASE i < p /\ p < j
      <4>1. /\ t[i] = s[i] /\ t[j] = s[j - 1]
            /\ i \in 1..n /\ j - 1 \in 1..n /\ i < j - 1
        <5>1. /\ i \in 1..(p - 1) /\ j \in (p + 1)..(n + 1)
              /\ i \in 1..n /\ j - 1 \in 1..n /\ i < j - 1
          BY <1>2, <1>3, <2>7, <3>4
        <5> QED
          BY <1>4, <5>1
      <4> QED
        BY <2>4, <2>5, <4>1
    <3>5. CASE p < i
      <4>1. /\ t[i] = s[i - 1] /\ t[j] = s[j - 1]
            /\ i - 1 \in 1..n /\ j - 1 \in 1..n /\ i - 1 < j - 1
        BY <1>2, <1>3, <1>4, <2>7, <3>5
      <4> QED
        BY <2>4, <2>5, <4>1
    <3> QED
      BY <1>3, <2>7, <3>1, <3>2, <3>3, <3>4, <3>5
  <2> QED
    BY <1>5, <2>7 DEF SortedStably
<1>10. Len(t) = Cardinality(Elements(t))
  <2>1. IsFiniteSet(Elements(s))
    BY <1>1, ElementsAreFinite
  <2>2. Cardinality(Elements(s) \cup {e}) = Cardinality(Elements(s)) + 1
    BY <2>1, FS_AddElement
  <2> QED
    BY <1>1, <1>4, <1>8, <2>2
<1>11. HoldsAll(t, more)
  BY <1>1, <1>4, <1>6, <1>7, <1>8, <1>10 DEF HoldsAll
<1> QED
  BY <1>8, <1>9, <1>11 DEF WellFormed, t, more

----------------------------------------------------------------------------
(* The choice *)

\* The walk of match_atom and atom.matches, which compare in opposite
\* directions, accept the same s.
LEMMA HitsMatch ==
    ASSUME NEW a, NEW e, NEW S, IsPreorder(S), a.version \in S, VersionOf[e] \in S
    PROVE  AtomMatches(a, e) <=> Accepts(a.range, Compare(VersionOf[e], a.version))
<1> DEFINE c == Compare(VersionOf[e], a.version)
           d == Compare(a.version, VersionOf[e])
<1>1. c \in Int /\ d \in Int /\ (c > 0 <=> d < 0) /\ (d > 0 <=> c < 0) /\ (c = 0 <=> d = 0)
  BY PreorderLaws
<1> HIDE DEF c, d
<1>2. Accepts(a.range, -d) <=> Accepts(a.range, c)
  BY <1>1 DEF Accepts
<1> QED
  BY <1>2 DEF AtomMatches, c, d

\* In a sorted list the first ebuild that is accepted is best, and the walk
\* ends before it for = and ~ only.
LEMMA FirstHitIsBest ==
    ASSUME NEW s, NEW given, WellFormed(s, given), NoEbuild \notin Ebuilds, NEW a, a.range \in Operators,
           IsPreorder(VersionsOf(s) \cup {a.version})
    PROVE  BestFor(s, a)
<1> DEFINE n == Len(s)
           S == VersionsOf(s) \cup {a.version}
           V(i) == VersionOf[s[i]]
           hits == Hits(s, a)
           stops == Stops(s, a)
           chosen == MatchAtom(s, a)
<1>1. /\ n \in Nat /\ DOMAIN s = 1..n
      /\ \A i \in 1..n : s[i] \in Ebuilds /\ s[i] \in Elements(s)
      /\ Elements(s) = {s[i] : i \in 1..n}
  BY ElementsOf DEF WellFormed, HoldsAll
<1>2. a.version \in S /\ \A i \in 1..n : V(i) \in S
  BY <1>1 DEF VersionsOf
<1>3. \A i, j \in 1..n : i < j => Compare(V(i), V(j)) > 0 \/ Compare(V(i), V(j)) = 0
  <2>1. SortedStably(s, given)
    BY PreorderOfSubset DEF WellFormed, HoldsAll
  <2> QED
    BY <1>1, <2>1 DEF SortedStably
<1>4. \A i \in 1..n : AtomMatches(a, s[i]) <=> i \in hits
  <2>1. ASSUME NEW i \in 1..n PROVE AtomMatches(a, s[i]) <=> i \in hits
    BY <1>1, <1>2, HitsMatch DEF Hits
  <2> QED
    BY <2>1
<1>5. hits \in SUBSET (1..n) /\ stops \in SUBSET (1..n)
  BY <1>1 DEF Hits, Stops
<1>6. chosen = IF hits # {} /\ FirstOf(hits \cup stops) \in hits
               THEN s[FirstOf(hits)] ELSE NoEbuild
  BY DEF MatchAtom, Walk
<1>7. CASE hits # {} /\ FirstOf(hits \cup stops) \in hits
  <2> DEFINE k == FirstOf(hits)
  <2>1. k \in hits /\ \A i \in hits : k <= i
    BY <1>5, <1>7, FirstIsLeast
  <2>2. k \in 1..n /\ chosen = s[k]
    BY <1>5, <1>6, <1>7, <2>1
  <2> HIDE DEF k
  <2>3. chosen # NoEbuild /\ AtomMatches(a, chosen)
    BY <1>1, <1>4, <2>1, <2>2
  <2>4. ASSUME NEW i \in hits PROVE Compare(V(i), V(k)) <= 0
    <3>1. i \in 1..n /\ k <= i
      BY <1>5, <2>1
    <3>2. CASE i = k
      BY <1>2, <2>2, <3>2, PreorderLaws
    <3>3. CASE i # k
      <4>1. Compare(V(k), V(i)) > 0 \/ Compare(V(k), V(i)) = 0
        BY <1>3, <2>2, <3>1, <3>3
      <4>2. V(i) \in S /\ V(k) \in S /\ IsPreorder(S)
        BY <1>2, <2>2, <3>1
      <4> HIDE DEF V, S
      <4> QED
        BY <4>1, <4>2, PreorderLaws
    <3> QED
      BY <3>2, <3>3
  <2>5. ASSUME NEW e \in Elements(s), AtomMatches(a, e)
        PROVE  Compare(VersionOf[e], VersionOf[chosen]) <= 0
    <3>1. PICK i \in 1..n : e = s[i]
      BY <1>1
    <3> QED
      BY <1>4, <2>2, <2>4, <2>5, <3>1
  <2> QED
    BY <2>3, <2>5 DEF BestFor
<1>8. CASE hits # {} /\ FirstOf(hits \cup stops) \notin hits
  <2> DEFINE k == FirstOf(hits \cup stops)
  <2>1. k \in stops /\ k \notin hits
    BY <1>5, <1>8, FirstIsLeast
  <2> HIDE DEF k
  <2>2. k \in 1..n /\ Compare(V(k), a.version) > 0 /\ "L" \notin a.range
    BY <1>5, <2>1 DEF Stops
  <2>3. "G" \notin a.range
    BY <1>1, <2>1, <2>2 DEF Hits, Accepts
  <2>4. a.range \in {E, Rev}
    BY <2>2, <2>3 DEF Operators, E, L, G, Rev, All, GE, LE
  <2>5. chosen = NoEbuild
    BY <1>6, <1>8
  <2> QED
    BY <2>4, <2>5 DEF BestFor
<1>9. CASE hits = {}
  <2>1. chosen = NoEbuild
    BY <1>6, <1>9
  <2>2. \A e \in Elements(s) : ~AtomMatches(a, e)
    BY <1>1, <1>4, <1>9
  <2> QED
    BY <2>1, <2>2 DEF BestFor
<1> QED
  BY <1>7, <1>8, <1>9

\* What match_atom chooses is in the list.
LEMMA ChoiceIsHeld ==
    ASSUME NEW s \in Seq(Ebuilds), NEW a, MatchAtom(s, a) # NoEbuild
    PROVE  MatchAtom(s, a) \in Elements(s)
<1>1. Hits(s, a) \in SUBSET Nat /\ Hits(s, a) \subseteq DOMAIN s
  BY ElementsOf DEF Hits
<1>2. Hits(s, a) # {} /\ MatchAtom(s, a) = s[FirstOf(Hits(s, a))]
  BY DEF MatchAtom, Walk
<1>3. FirstOf(Hits(s, a)) \in DOMAIN s
  BY <1>1, <1>2, FirstIsLeast
<1> QED
  BY <1>2, <1>3 DEF Elements

----------------------------------------------------------------------------
(* The same for versions that are Orderly *)

EbuildsHaveVersions == \A e \in Ebuilds : VersionOf[e] \in Versions \ {NoVersion}

\* Only NULL versions are left out of VersionsWith, and no ebuild has one.
LEMMA SortedIfOrderly ==
    ASSUME EbuildsHaveVersions, NEW s, NEW given, WellFormed(s, given)
    PROVE  StablySorted(s, given)
<1>1. \A e \in Elements(s) : e \in Ebuilds
  BY ElementsOf DEF WellFormed, HoldsAll, Elements
<1>2. VersionsOf(s) \in SUBSET Versions
  BY <1>1 DEF VersionsOf, EbuildsHaveVersions
<1>3. VersionsWith(s, NoVersion) = VersionsOf(s) \ {NoVersion}
  BY DEF VersionsWith, VersionsOf
<1>4. Orderly(VersionsOf(s) \ {NoVersion}) => IsPreorder(VersionsOf(s))
  BY <1>2, OrderlyIsOrdered
<1> QED
  BY <1>3, <1>4 DEF StablySorted, WellFormed

\* match_atom finds the best match in every list that add_ebuild made, if
\* the versions are orderly.
LEMMA BestIfOrderly ==
    ASSUME EbuildsHaveVersions, NoEbuild \notin Ebuilds,
           \A a \in Atoms : a.version \in Versions /\ a.range \in Operators,
           NEW s, NEW given, WellFormed(s, given)
    PROVE  MatchesBest(s)
<1> SUFFICES ASSUME NEW a \in Atoms, Orderly(VersionsWith(s, a.version))
             PROVE  BestFor(s, a)
  BY DEF MatchesBest, OrderlyAtoms
<1>1. \A e \in Elements(s) : e \in Ebuilds
  BY ElementsOf DEF WellFormed, HoldsAll, Elements
<1> DEFINE S == VersionsOf(s) \cup {a.version}
<1>2. S \in SUBSET Versions
  BY <1>1 DEF VersionsOf, EbuildsHaveVersions
<1>3. VersionsWith(s, a.version) = S \ {NoVersion}
  BY DEF VersionsWith, VersionsOf
<1>4. IsPreorder(S)
  BY <1>2, <1>3, OrderlyIsOrdered
<1> QED
  BY <1>4, FirstHitIsBest

----------------------------------------------------------------------------
(* The table and its packages *)

Lut == INSTANCE LUTProofs WITH Data <- Packages, NoData <- NoPackage

----------------------------------------------------------------------------
(* The inductive invariant *)

Allocated == {p \in Packages : key[p] # NoKey}

TableInv == Lut!TableInv /\ freed = FALSE

LoadsTypeOK == loads \in [Files -> 0..MaxLoads]

ObjectsTypeOK ==
    /\ key \in [Packages -> Keys \cup {NoKey}]
    /\ id \in [Packages -> Table!Ids \cup {Table!NoId}]
    /\ DOMAIN lists = Packages /\ lists = [p \in Packages |-> lists[p]]
    /\ DOMAIN added = Packages /\ added = [p \in Packages |-> added[p]]
    /\ owned \subseteq Packages
    /\ LoadsTypeOK
    /\ scan = NoScan \/ scan \in [left : SUBSET Files, loaded : SUBSET Ebuilds,
                                  refused : SUBSET Files]

\* The ebuilds of a package are of its key, and in no other package.
Lists ==
    /\ \A p \in Packages :
         /\ WellFormed(lists[p], added[p])
         /\ \A e \in Elements(lists[p]) : e \in Made /\ KeyOf(e) = key[p]
    /\ \A p, q \in Packages : Elements(lists[p]) \cap Elements(lists[q]) # {} => p = q

\* A package in the table has the key and the identifier of its node.
Linked ==
    \A i \in DOMAIN nodes :
        key[nodes[i].data] = nodes[i].key /\ id[nodes[i].data] = nodes[i].id

Live == Stored \cup owned = Allocated

\* The ebuilds of a call are in the packages of their keys.
LoadedKept ==
    scan # NoScan => \A e \in scan.loaded : \E i \in DOMAIN nodes :
        nodes[i].key = KeyOf(e) /\ e \in Elements(lists[nodes[i].data])

\* Also the identifier of another table has the hash of its key.
HeldKept ==
    held # NoHolder =>
        /\ held.id.hash = Hash[held.key]
        /\ held.exists => \E i \in DOMAIN nodes : nodes[i].id = held.id /\ nodes[i].key = held.key

PortageInv ==
    /\ TableInv /\ ObjectsTypeOK /\ Lists /\ Linked /\ Live /\ LoadedKept /\ HeldKept

----------------------------------------------------------------------------
(* The lemmas of LUTProofs for the table of Portage. *)

\* Both instances of the table count with the same FiniteSets.
LEMMA SameCounts ==
    /\ \A S : Lut!IsFiniteSet(S) = IsFiniteSet(S) /\ Lut!Cardinality(S) = Cardinality(S)
    /\ \A S : Table!Cardinality(S) = Cardinality(S)
BY DEF Lut!IsFiniteSet, IsFiniteSet, Lut!Cardinality, Table!Cardinality, Cardinality

\* What LUT assumes of its keys and its hash follows from what Portage
\* assumes of the keys of packages.
LEMMA LutAssumptions ==
    Lut!HashIsNatural /\ Lut!SizeIsPositive /\ Lut!NoDataIsNoData /\ Lut!FewCollisions
BY SameCounts, HashIsNatural, SizeIsPositive, NoPackageIsNoPackage, FewCollisions
DEF Lut!HashIsNatural, Lut!SizeIsPositive, Lut!NoDataIsNoData, Lut!FewCollisions

\* Lookups in the two instances of the table are the same.
LEMMA SameReads ==
    /\ \A k : Lut!Exists(k) = Table!Exists(k) /\ Lut!IdOf(k) = Table!IdOf(k)
    /\ \A i : Lut!WithId(i) = Table!WithId(i) /\ Lut!Get(i) = Table!Get(i)
    /\ \A S : Lut!First(S) = Table!First(S)
BY SameCounts
DEF Lut!Exists, Lut!SameHash, Lut!Chain, Lut!IdOf, Lut!First, Lut!WithId, Lut!Get,
    Table!Exists, Table!SameHash, Table!Chain, Table!IdOf, Table!First, Table!WithId, Table!Get

\* So are insertions.
LEMMA SameWrites ==
    ASSUME NEW k, NEW d
    PROVE  /\ Lut!InsertNew(k, d) = Table!InsertNew(k, d)
           /\ Lut!InsertExisting(k, d) = Table!InsertExisting(k, d)
           /\ Lut!Lookup(k) = Table!Lookup(k)
BY SameReads
DEF Lut!InsertNew, Lut!InsertExisting, Lut!Lookup,
    Lut!Rehashed, Lut!Grown, Lut!Full, Lut!ReallocAt,
    Table!InsertNew, Table!InsertExisting, Table!Lookup,
    Table!Rehashed, Table!Grown, Table!Full, Table!ReallocAt

\* So are the table's start and its properties, which LUTProofs shows.
LEMMA SameProperties ==
    /\ Lut!Init = Table!Init /\ Lut!TypeOK = Table!TypeOK
    /\ Lut!RefsExact = Table!RefsExact /\ Lut!HeldStaysValid = Table!HeldStaysValid
    /\ Lut!Ids = Table!Ids /\ Lut!NoId = Table!NoId
BY SameReads, SameCounts
DEF Lut!Init, Lut!TypeOK, Lut!RefsExact, Lut!HeldStaysValid,
    Lut!Nodes, Lut!Ids, Lut!NoId, Lut!Holders,
    Table!Init, Table!TypeOK, Table!RefsExact, Table!HeldStaysValid,
    Table!Nodes, Table!Ids, Table!NoId, Table!Holders

NodesAreOfTable ==
    \A i \in DOMAIN nodes :
        /\ nodes[i].key \in Keys /\ nodes[i].data \in Packages
        /\ nodes[i].id \in Table!Ids /\ nodes[i].id.hash = Hash[nodes[i].key]
        /\ Table!Exists(nodes[i].key) /\ Table!IdOf(nodes[i].key) = nodes[i].id
        /\ Table!Get(nodes[i].id) = nodes[i].data
        /\ \A j \in DOMAIN nodes : nodes[i].key = nodes[j].key => i = j

\* The nodes of the table have keys of packages and identifiers that differ.
LEMMA NodesOfTable == Lut!TableInv => NodesAreOfTable
<1> USE LutAssumptions
    DEF Lut!HashIsNatural, Lut!SizeIsPositive, Lut!NoDataIsNoData, Lut!FewCollisions
<1> SUFFICES ASSUME Lut!TableInv, NEW i \in DOMAIN nodes
             PROVE  /\ nodes[i].key \in Keys /\ nodes[i].data \in Packages
                    /\ nodes[i].id \in Table!Ids /\ nodes[i].id.hash = Hash[nodes[i].key]
                    /\ Table!Exists(nodes[i].key) /\ Table!IdOf(nodes[i].key) = nodes[i].id
                    /\ Table!Get(nodes[i].id) = nodes[i].data
                    /\ \A j \in DOMAIN nodes : nodes[i].key = nodes[j].key => i = j
  BY DEF NodesAreOfTable
<1>1. Lut!TypeOK /\ Lut!Placed /\ Lut!KeysDistinct
  BY DEF Lut!TableInv
<1>2. nodes[i].key \in Keys /\ nodes[i].data \in Packages /\ nodes[i].id \in Table!Ids
  BY <1>1, Lut!NodeType, SameProperties
<1>3. /\ Table!Exists(nodes[i].key) /\ Table!IdOf(nodes[i].key) = nodes[i].id
      /\ Table!Get(nodes[i].id) = nodes[i].data
  BY Lut!FindsNode, SameReads
<1> QED
  BY <1>1, <1>2, <1>3 DEF Lut!Placed, Lut!KeysDistinct

\* So they have after a step.
LEMMA NodesOfTableNext == Lut!TableInv' => NodesAreOfTable'
<1>1. Lut!TableInv => NodesAreOfTable
  BY NodesOfTable
<1> QED
  BY <1>1, PTL

\* lut_get_id finds a key when a node has it.
LEMMA ExistsIsPresent ==
    ASSUME Lut!TableInv, NEW k \in Keys
    PROVE  Table!Exists(k) <=> \E i \in DOMAIN nodes : nodes[i].key = k
BY Lut!ExistsIsPresent, LutAssumptions, SameReads
DEF Lut!TableInv, Lut!HashIsNatural, Lut!SizeIsPositive, Lut!NoDataIsNoData, Lut!FewCollisions

----------------------------------------------------------------------------
(* What a step does to the table *)

\* What does not touch the table keeps its invariant.
LEMMA TableAlone == TableInv /\ UNCHANGED table => TableInv'
<1> USE LutAssumptions
    DEF Lut!HashIsNatural, Lut!SizeIsPositive, Lut!NoDataIsNoData, Lut!FewCollisions
<1> SUFFICES ASSUME TableInv, UNCHANGED table PROVE TableInv'
  OBVIOUS
<1>1. UNCHANGED <<size, nodes, refs, held, freed>>
  BY DEF table
<1>2. Lut!TableInv'
  BY <1>1, Lut!TableInvStep DEF TableInv, Lut!vars
<1> QED
  BY <1>1, <1>2 DEF TableInv

\* Position n of the nodes gets d, under its key k; the others stay.
Put(n, k, d) ==
    /\ nodes'[n].key = k /\ nodes'[n].id = Table!IdOf(k) /\ nodes'[n].data = d
    /\ n \in DOMAIN nodes => nodes[n].key = k
    /\ \A i \in DOMAIN nodes' \ {n} : i \in DOMAIN nodes /\ nodes'[i].data = nodes[i].data
    /\ \A i \in DOMAIN nodes :
         /\ i \in DOMAIN nodes'
         /\ nodes'[i].key = nodes[i].key /\ nodes'[i].id = nodes[i].id

\* lut_insert of a new key,
LEMMA InsertingNew ==
    ASSUME TableInv, NEW k \in Keys, NEW d \in Packages, Table!InsertNew(k, d)
    PROVE  /\ TableInv' /\ UNCHANGED <<held, freed>>
           /\ \E n \in DOMAIN nodes' : n \notin DOMAIN nodes /\ Put(n, k, d)
<1> USE LutAssumptions
    DEF Lut!HashIsNatural, Lut!SizeIsPositive, Lut!NoDataIsNoData, Lut!FewCollisions
<1> DEFINE n == Len(nodes) + 1
<1>1. Lut!TableInv /\ Lut!InsertNew(k, d) /\ freed = FALSE
  BY SameWrites DEF TableInv
<1>2. /\ DOMAIN nodes' = 1..n /\ DOMAIN nodes = 1..(n - 1) /\ Len(nodes) \in Nat
      /\ \A i \in DOMAIN nodes :
           /\ nodes'[i].key = nodes[i].key /\ nodes'[i].id = nodes[i].id
           /\ nodes'[i].data = nodes[i].data
      /\ nodes'[n].key = k /\ nodes'[n].id = Lut!IdOf(k) /\ nodes'[n].data = d
  BY <1>1, Lut!InsertNewNodes DEF Lut!TableInv, Lut!TypeOK
<1>3. UNCHANGED <<held, freed>>
  BY <1>1 DEF Lut!InsertNew
<1>4. TableInv'
  BY <1>1, <1>3, Lut!InsertNewKeeps DEF TableInv
<1> HIDE DEF n
<1>5. n \in DOMAIN nodes' /\ n \notin DOMAIN nodes
  BY <1>2 DEF n
<1>6. \A i \in DOMAIN nodes' \ {n} : i \in DOMAIN nodes
  BY <1>2 DEF n
<1>7. \A i \in DOMAIN nodes : i \in DOMAIN nodes'
  BY <1>2 DEF n
<1>8. Put(n, k, d)
  BY <1>2, <1>5, <1>6, <1>7, SameReads DEF Put
<1> QED
  BY <1>3, <1>4, <1>5, <1>8

\* and of one that is there.
LEMMA InsertingExisting ==
    ASSUME TableInv, NEW k \in Keys, NEW d \in Packages, Table!InsertExisting(k, d)
    PROVE  /\ TableInv' /\ UNCHANGED <<held, freed>>
           /\ \E n \in DOMAIN nodes' : Put(n, k, d)
<1> USE LutAssumptions
    DEF Lut!HashIsNatural, Lut!SizeIsPositive, Lut!NoDataIsNoData, Lut!FewCollisions
<1>1. Lut!TableInv /\ Lut!InsertExisting(k, d) /\ freed = FALSE
  BY SameWrites DEF TableInv
<1>2. PICK n \in DOMAIN nodes : nodes[n].key = k
  BY <1>1, ExistsIsPresent, SameReads DEF Lut!InsertExisting
<1>3. /\ DOMAIN nodes' = DOMAIN nodes
      /\ \A i \in DOMAIN nodes :
           /\ nodes'[i].key = nodes[i].key /\ nodes'[i].id = nodes[i].id
           /\ i # n => nodes'[i].data = nodes[i].data
      /\ nodes'[n].data = d
  BY <1>1, <1>2, Lut!InsertExistingNodes
<1>4. UNCHANGED <<held, freed>>
  BY <1>1 DEF Lut!InsertExisting
<1>5. TableInv'
  BY <1>1, <1>4, Lut!InsertExistingKeeps DEF TableInv
<1>6. nodes[n].id = Table!IdOf(k)
  BY <1>1, <1>2, NodesOfTable DEF NodesAreOfTable
<1>7. Put(n, k, d)
  BY <1>2, <1>3, <1>6 DEF Put
<1> QED
  BY <1>2, <1>3, <1>4, <1>5, <1>7

\* A package that the table has no reference to is not in it.
RefsAreOfStored == \A p \in Packages : refs[p] = 0 <=> p \notin Stored

\* The table refers to a package when a node of it leads there, and not else.
LEMMA ZeroRefs == TableInv => RefsAreOfStored
<1> USE LutAssumptions
    DEF Lut!HashIsNatural, Lut!SizeIsPositive, Lut!NoDataIsNoData, Lut!FewCollisions
<1> SUFFICES ASSUME TableInv, NEW p \in Packages
             PROVE  refs[p] = 0 <=> p \notin Stored
  BY DEF RefsAreOfStored
<1> DEFINE holding == {i \in DOMAIN nodes : nodes[i].data = p}
<1>1. IsFiniteSet(holding) /\ refs[p] = Cardinality(holding)
  BY Lut!HoldingIsFinite, SameCounts DEF TableInv, Lut!TableInv, Lut!RefsExact
<1>2. holding = {} <=> p \notin Stored
  BY DEF Stored
<1> HIDE DEF holding
<1>3. Cardinality(holding) = 0 <=> holding = {}
  BY <1>1, FS_EmptySet
<1> QED
  BY <1>1, <1>2, <1>3

\* So it has after a step.
LEMMA ZeroRefsNext == TableInv' => RefsAreOfStored'
<1>1. TableInv => RefsAreOfStored
  BY ZeroRefs
<1> QED
  BY <1>1, PTL

----------------------------------------------------------------------------
(* What a step does to the objects *)

\* Every file has a key, since its name can be taken apart.
LEMMA KeyOfIsKey == \A e \in Ebuilds : e[1] \in Files /\ KeyOf(e) \in Keys /\ KeyOf(e) # NoKey
BY FilesHaveVersions, EbuildsAreOfFiles, KeysAreKeys DEF EbuildsOfFiles, KeyOf

MadeIsCounted == Made = {e \in Ebuilds : e[2] <= loads[e[1]]}

\* The ebuilds made so far are those of the loads counted.
LEMMA MadeAre == LoadsTypeOK => MadeIsCounted
<1> SUFFICES ASSUME LoadsTypeOK PROVE MadeIsCounted
  OBVIOUS
<1>1. Ebuilds = Files \X (1..MaxLoads) /\ MaxLoads \in Nat
  BY EbuildsAreOfFiles, BoundsAreNumbers DEF EbuildsOfFiles
<1>2. ASSUME NEW e \in Made PROVE e \in Ebuilds /\ e[2] <= loads[e[1]]
  <2>1. PICK f \in Files : \E n \in 1..loads[f] : e = <<f, n>>
    BY DEF Made
  <2>2. loads[f] \in 0..MaxLoads
    BY DEF LoadsTypeOK
  <2> QED
    BY <1>1, <2>1, <2>2
<1>3. ASSUME NEW e \in Ebuilds, e[2] <= loads[e[1]] PROVE e \in Made
  <2>1. PICK f \in Files, n \in 1..MaxLoads : e = <<f, n>>
    BY <1>1
  <2>2. n \in 1..loads[f]
    BY <1>1, <1>3, <2>1 DEF LoadsTypeOK
  <2> QED
    BY <2>1, <2>2 DEF Made
<1> QED
  BY <1>2, <1>3 DEF MadeIsCounted

\* So it is after a step.
LEMMA MadeAreNext == LoadsTypeOK' => MadeIsCounted'
<1>1. LoadsTypeOK => MadeIsCounted
  BY MadeAre
<1> QED
  BY <1>1, PTL

\* An ebuild that is made is new, and the others remain.
LEMMA MakesOne ==
    ASSUME ObjectsTypeOK, NEW e, Makes(e)
    PROVE  /\ e \in Ebuilds /\ e \notin Made /\ Made' = Made \cup {e}
           /\ LoadsTypeOK'
<1>1. /\ e \in Ebuilds /\ e \notin Made /\ e[2] = loads[e[1]] + 1
      /\ loads' = [loads EXCEPT ![e[1]] = e[2]]
  BY DEF Makes
<1>2. Ebuilds = Files \X (1..MaxLoads) /\ MaxLoads \in Nat
  BY EbuildsAreOfFiles, BoundsAreNumbers DEF EbuildsOfFiles
<1>3. LoadsTypeOK /\ LoadsTypeOK'
  BY <1>1, <1>2 DEF ObjectsTypeOK, LoadsTypeOK
<1>4. /\ Made = {d \in Ebuilds : d[2] <= loads[d[1]]}
      /\ Made' = {d \in Ebuilds : d[2] <= loads'[d[1]]}
  BY <1>3, MadeAre, MadeAreNext DEF MadeIsCounted
<1>5. ASSUME NEW d \in Ebuilds
      PROVE  d[2] <= loads'[d[1]] <=> d[2] <= loads[d[1]] \/ d = e
  <2>1. PICK f \in Files, n \in 1..MaxLoads : d = <<f, n>>
    BY <1>2
  <2>2. PICK g \in Files, m \in 1..MaxLoads : e = <<g, m>>
    BY <1>1, <1>2
  <2>3. loads'[f] = IF f = g THEN m ELSE loads[f]
    BY <1>1, <1>3, <2>2 DEF LoadsTypeOK
  <2>4. loads[f] \in Nat /\ m = loads[g] + 1
    BY <1>1, <1>2, <1>3, <2>2 DEF LoadsTypeOK
  <2> QED
    BY <2>1, <2>2, <2>3, <2>4
<1> QED
  BY <1>1, <1>3, <1>4, <1>5

\* PyPackage_dealloc empties the lists of the packages that go and leaves
\* the others.
LEMMA ListsAfterDeallocation ==
    ASSUME ObjectsTypeOK, Lists, NEW gone, NEW ids, Deallocate(gone, ids), UNCHANGED loads
    PROVE  Lists'
<1>1. Made' = Made
  BY DEF Made
<1>2. Elements(<<>>) = {}
  BY DEF Elements
<1>3. ASSUME NEW p \in Packages
      PROVE  \/ lists'[p] = <<>> /\ added'[p] = <<>>
             \/ lists'[p] = lists[p] /\ added'[p] = added[p] /\ key'[p] = key[p]
  BY DEF Deallocate
<1>4. ASSUME NEW p \in Packages
      PROVE  /\ WellFormed(lists'[p], added'[p])
             /\ \A e \in Elements(lists'[p]) : e \in Made' /\ KeyOf(e) = key'[p]
  BY <1>1, <1>2, <1>3, EmptyIsWellFormed DEF Lists
<1>5. ASSUME NEW p \in Packages, NEW q \in Packages, Elements(lists'[p]) \cap Elements(lists'[q]) # {}
      PROVE  p = q
  BY <1>2, <1>3, <1>5 DEF Lists
<1> QED
  BY <1>4, <1>5 DEF Lists

\* What neither the table nor Python code refers to is deallocated.
LEMMA Deallocation ==
    ASSUME ObjectsTypeOK, TableInv', NEW owners \in SUBSET Packages,
           Stored' \cup owners \subseteq Allocated,
           NEW ids \in [Packages -> Table!Ids \cup {Table!NoId}],
           Deallocate(Unreferenced(owners), ids)
    PROVE  /\ Allocated' = Stored' \cup owners
           /\ \A p \in Stored' \cup owners :
                /\ key'[p] = key[p] /\ id'[p] = ids[p]
                /\ lists'[p] = lists[p] /\ added'[p] = added[p]
           /\ key' \in [Packages -> Keys \cup {NoKey}]
           /\ id' \in [Packages -> Table!Ids \cup {Table!NoId}]
           /\ DOMAIN lists' = Packages /\ lists' = [p \in Packages |-> lists'[p]]
           /\ DOMAIN added' = Packages /\ added' = [p \in Packages |-> added'[p]]
<1> DEFINE gone == Unreferenced(owners)
<1>1. \A p \in Packages : p \in gone <=> p \in Allocated /\ p \notin Stored' \cup owners
  BY ZeroRefsNext DEF RefsAreOfStored, Unreferenced, Allocated
<1> HIDE DEF gone
<1>2. /\ key' = [p \in Packages |-> IF p \in gone THEN NoKey ELSE key[p]]
      /\ id' = [p \in Packages |-> IF p \in gone THEN Table!NoId ELSE ids[p]]
      /\ lists' = [p \in Packages |-> IF p \in gone THEN <<>> ELSE lists[p]]
      /\ added' = [p \in Packages |-> IF p \in gone THEN <<>> ELSE added[p]]
  BY DEF Deallocate, gone
<1>3. key' \in [Packages -> Keys \cup {NoKey}] /\ id' \in [Packages -> Table!Ids \cup {Table!NoId}]
  BY <1>2 DEF ObjectsTypeOK
<1>4. Allocated' = Stored' \cup owners
  BY <1>1, <1>2 DEF Allocated
<1>5. \A p \in Stored' \cup owners :
        /\ key'[p] = key[p] /\ id'[p] = ids[p]
        /\ lists'[p] = lists[p] /\ added'[p] = added[p]
  BY <1>1, <1>2 DEF Allocated
<1>6. /\ DOMAIN lists' = Packages /\ lists' = [p \in Packages |-> lists'[p]]
      /\ DOMAIN added' = Packages /\ added' = [p \in Packages |-> added'[p]]
  BY <1>2
<1> QED
  BY <1>3, <1>4, <1>5, <1>6

----------------------------------------------------------------------------
(* The steps *)

\* At the start there is neither package nor ebuild.
LEMMA PortageInvInit == Init => PortageInv
<1> SUFFICES ASSUME Init PROVE PortageInv
  OBVIOUS
<1> USE LutAssumptions
    DEF Lut!HashIsNatural, Lut!SizeIsPositive, Lut!NoDataIsNoData, Lut!FewCollisions
<1>1. Table!Init /\ scan = NoScan /\ owned = {}
  BY DEF Init
<1>2. nodes = <<>> /\ held = NoHolder /\ freed = FALSE /\ DOMAIN nodes = {}
  BY <1>1 DEF Table!Init
<1>3. TableInv
  BY <1>1, <1>2, Lut!TableInvInit, SameProperties DEF TableInv
<1>4. /\ key = [p \in Packages |-> NoKey] /\ id = [p \in Packages |-> Table!NoId]
      /\ lists = [p \in Packages |-> <<>>] /\ added = [p \in Packages |-> <<>>]
      /\ loads = [f \in Files |-> 0]
  BY DEF Init
<1>5. ObjectsTypeOK
  BY <1>1, <1>4, BoundsAreNumbers DEF ObjectsTypeOK, LoadsTypeOK
<1>6. Elements(<<>>) = {}
  BY DEF Elements
<1>7. Lists
  BY <1>4, <1>6, EmptyIsWellFormed DEF Lists
<1>8. Linked /\ Live
  BY <1>1, <1>2, <1>4 DEF Linked, Live, Stored, Allocated
<1>9. LoadedKept /\ HeldKept
  BY <1>1, <1>2 DEF LoadedKept, HeldKept
<1> QED
  BY <1>3, <1>5, <1>7, <1>8, <1>9 DEF PortageInv

\* Steps that touch neither the table nor the ebuilds.
LEMMA NewPackageKeeps ==
    ASSUME PortageInv, NEW p \in Packages, NEW k \in Keys, NewPackage(p, k)
    PROVE  PortageInv'
<1>1. /\ scan = NoScan /\ UNCHANGED <<id, lists, added, loads, scan>> /\ UNCHANGED table
      /\ key' = [key EXCEPT ![p] = k] /\ owned' = owned \cup {p} /\ key[p] = NoKey
  BY DEF NewPackage, Unallocated
<1>2. UNCHANGED <<nodes, held>>
  BY <1>1 DEF table
<1>3. TableInv /\ ObjectsTypeOK /\ Lists /\ Linked /\ Live /\ HeldKept
  BY DEF PortageInv
<1>4. TableInv'
  BY <1>1, <1>3, TableAlone
<1>5. ObjectsTypeOK'
  BY <1>1, <1>3 DEF ObjectsTypeOK, LoadsTypeOK
<1>6. Made' = Made /\ Elements(lists[p]) = {}
  <2>1. \A e \in Elements(lists[p]) : e \in Made /\ KeyOf(e) = NoKey
    BY <1>1, <1>3 DEF Lists
  <2>2. \A e \in Made : e \in Ebuilds
    BY <1>3, MadeAre DEF ObjectsTypeOK, MadeIsCounted
  <2> QED
    BY <1>1, <2>1, <2>2, KeyOfIsKey DEF Made
<1>7. \A q \in Packages : key'[q] = IF q = p THEN k ELSE key[q]
  BY <1>1, <1>3 DEF ObjectsTypeOK
<1>8. Lists'
  BY <1>1, <1>3, <1>6, <1>7 DEF Lists
<1>9. p \notin Stored /\ k # NoKey
  BY <1>1, <1>3, KeysAreKeys DEF Live, Allocated
<1>10. Linked'
  BY <1>1, <1>2, <1>3, <1>7, <1>9 DEF Linked, Stored
<1>11. Live'
  BY <1>1, <1>2, <1>3, <1>7, <1>9 DEF Live, Stored, Allocated
<1>12. LoadedKept' /\ HeldKept'
  BY <1>1, <1>2, <1>3 DEF LoadedKept, HeldKept
<1> QED
  BY <1>4, <1>5, <1>8, <1>10, <1>11, <1>12 DEF PortageInv

\* get_package gives the caller one reference more.
LEMMA GetPackageKeeps ==
    ASSUME PortageInv, NEW p \in Packages, GetPackage(p)
    PROVE  PortageInv'
<1>1. /\ scan = NoScan /\ UNCHANGED <<key, id, lists, added, loads, scan>> /\ UNCHANGED table
      /\ owned' = owned \cup {Table!Get(id[p])} /\ p \in Stored
  BY DEF GetPackage
<1>2. UNCHANGED <<nodes, held>>
  BY <1>1 DEF table
<1>3. TableInv /\ ObjectsTypeOK /\ Lists /\ Linked /\ Live /\ HeldKept
  BY DEF PortageInv
<1>4. TableInv'
  BY <1>1, <1>3, TableAlone
<1>5. Table!Get(id[p]) = p
  BY <1>1, <1>3, NodesOfTable DEF NodesAreOfTable, TableInv, Linked, Stored
<1>6. ObjectsTypeOK'
  BY <1>1, <1>3, <1>5 DEF ObjectsTypeOK, LoadsTypeOK
<1>7. Made' = Made /\ Stored' = Stored /\ Allocated' = Allocated
  BY <1>1, <1>2 DEF Made, Stored, Allocated
<1>8. Lists' /\ Linked' /\ Live'
  BY <1>1, <1>2, <1>3, <1>5, <1>7 DEF Lists, Linked, Live
<1>9. LoadedKept' /\ HeldKept'
  BY <1>1, <1>2, <1>3 DEF LoadedKept, HeldKept
<1> QED
  BY <1>4, <1>6, <1>8, <1>9 DEF PortageInv

\* An atom that is parsed keeps an identifier of its key.
LEMMA ParseAtomKeeps ==
    ASSUME PortageInv, NEW k \in Keys, ParseAtom(k)
    PROVE  PortageInv'
<1> USE LutAssumptions
    DEF Lut!HashIsNatural, Lut!SizeIsPositive, Lut!NoDataIsNoData, Lut!FewCollisions
<1>1. Table!Lookup(k) /\ UNCHANGED objects /\ scan' = scan /\ scan = NoScan
  BY DEF ParseAtom
<1>2. UNCHANGED <<key, id, lists, added, owned, loads>>
  BY <1>1 DEF objects
<1>3. /\ nodes' = nodes /\ freed' = freed
      /\ held' = [key |-> k, id |-> Table!IdOf(k), exists |-> Table!Exists(k)]
  BY <1>1 DEF Table!Lookup
<1>4. TableInv /\ ObjectsTypeOK /\ Lists /\ Linked /\ Live /\ LoadedKept
  BY DEF PortageInv
<1>5. TableInv'
  <2>1. Lut!Lookup(k) /\ Lut!TableInv
    BY <1>1, <1>4, SameWrites DEF TableInv
  <2>2. Lut!Next
    BY <2>1 DEF Lut!Next
  <2> QED
    BY <1>3, <1>4, <2>1, <2>2, Lut!TableInvStep DEF TableInv
<1>6. Made' = Made /\ Stored' = Stored /\ Allocated' = Allocated
  BY <1>2, <1>3 DEF Made, Stored, Allocated
<1>7. ObjectsTypeOK' /\ Lists' /\ Linked' /\ Live'
  BY <1>1, <1>2, <1>3, <1>4, <1>6 DEF ObjectsTypeOK, LoadsTypeOK, Lists, Linked, Live
<1>8. LoadedKept'
  BY <1>1 DEF LoadedKept
<1>9. HeldKept'
  <2>1. Table!IdOf(k).hash = Hash[k]
    <3>1. CASE Table!Exists(k)
      <4>1. PICK i \in DOMAIN nodes : nodes[i].key = k
        BY <1>4, <3>1, ExistsIsPresent DEF TableInv
      <4> QED
        BY <1>4, <4>1, NodesOfTable DEF NodesAreOfTable, TableInv
    <3>2. CASE ~Table!Exists(k)
      BY <3>2 DEF Table!IdOf
    <3> QED
      BY <3>1, <3>2
  <2>2. Table!Exists(k) => \E i \in DOMAIN nodes : nodes[i].id = Table!IdOf(k) /\ nodes[i].key = k
    BY <1>4, ExistsIsPresent, NodesOfTable DEF NodesAreOfTable, TableInv
  <2> DEFINE there == Table!Exists(k)
             found == Table!IdOf(k)
  <2>3. held'.key = k /\ held'.id = found /\ (held'.exists <=> there)
    <3> HIDE DEF there, found
    <3>1. held' = [key |-> k, id |-> found, exists |-> there]
      BY <1>3 DEF there, found
    <3> QED
      BY <3>1
  <2> HIDE DEF there, found
  <2>4. found.hash = Hash[k] /\ (there => \E i \in DOMAIN nodes : nodes[i].id = found /\ nodes[i].key = k)
    BY <2>1, <2>2 DEF there, found
  <2> QED
    BY <1>3, <2>3, <2>4 DEF HeldKept
<1> QED
  BY <1>5, <1>7, <1>8, <1>9 DEF PortageInv

\* Steps that give back references.
LEMMA ReleaseKeeps ==
    ASSUME PortageInv, NEW p \in Packages, Release(p)
    PROVE  PortageInv'
<1> DEFINE owners == owned \ {p}
<1>1. /\ scan = NoScan /\ UNCHANGED <<loads, scan>> /\ UNCHANGED table
      /\ owned' = owners /\ Deallocate(Unreferenced(owners), id)
  BY DEF Release
<1>2. UNCHANGED <<nodes, held>>
  BY <1>1 DEF table
<1>3. TableInv /\ ObjectsTypeOK /\ Lists /\ Linked /\ Live /\ HeldKept
  BY DEF PortageInv
<1>4. TableInv'
  BY <1>1, <1>3, TableAlone
<1>5. Stored' = Stored /\ Stored' \cup owners \subseteq Allocated /\ owners \in SUBSET Packages
  BY <1>2, <1>3 DEF Stored, Live, ObjectsTypeOK
<1>6. id \in [Packages -> Table!Ids \cup {Table!NoId}]
  BY <1>3 DEF ObjectsTypeOK
<1> HIDE DEF owners
<1>7. /\ Allocated' = Stored' \cup owners
      /\ \A q \in Stored' \cup owners :
           /\ key'[q] = key[q] /\ id'[q] = id[q]
           /\ lists'[q] = lists[q] /\ added'[q] = added[q]
      /\ key' \in [Packages -> Keys \cup {NoKey}]
      /\ id' \in [Packages -> Table!Ids \cup {Table!NoId}]
      /\ DOMAIN lists' = Packages /\ lists' = [q \in Packages |-> lists'[q]]
      /\ DOMAIN added' = Packages /\ added' = [q \in Packages |-> added'[q]]
  BY <1>1, <1>3, <1>4, <1>5, <1>6, Deallocation
<1>8. ObjectsTypeOK'
  BY <1>1, <1>3, <1>5, <1>7 DEF ObjectsTypeOK, LoadsTypeOK
<1>9. Lists'
  BY <1>1, <1>3, ListsAfterDeallocation
<1>10. Linked' /\ Live'
  BY <1>1, <1>2, <1>3, <1>5, <1>7 DEF Linked, Live, Stored
<1>11. LoadedKept' /\ HeldKept'
  BY <1>1, <1>2, <1>3 DEF LoadedKept, HeldKept
<1> QED
  BY <1>4, <1>8, <1>9, <1>10, <1>11 DEF PortageInv

\* init() with a new Portage gives back all that the old table held.
LEMMA ResetKeeps ==
    ASSUME PortageInv, Reset
    PROVE  PortageInv'
<1> USE LutAssumptions
    DEF Lut!HashIsNatural, Lut!SizeIsPositive, Lut!NoDataIsNoData, Lut!FewCollisions
<1>1. /\ scan = NoScan /\ UNCHANGED <<owned, loads, scan>> /\ freed' = freed
      /\ size' = InitialSize /\ nodes' = <<>> /\ refs' = [p \in Packages |-> 0]
      /\ held' = IF held = NoHolder THEN held ELSE [held EXCEPT !.exists = FALSE]
      /\ Deallocate(Unreferenced(owned), id)
  BY DEF Reset
<1>2. TableInv /\ ObjectsTypeOK /\ Lists /\ Linked /\ Live /\ HeldKept
  BY DEF PortageInv
<1>3. DOMAIN nodes' = {} /\ nodes' \in Seq(Lut!Nodes)
  BY <1>1
<1>4. held' \in Lut!Holders \cup {NoHolder}
  BY <1>1, <1>2 DEF TableInv, Lut!TableInv, Lut!TypeOK, Lut!Holders
<1>5. Lut!TypeOK'
  BY <1>1, <1>2, <1>3, <1>4, SizeIsPositive DEF TableInv, Lut!TypeOK
<1>6. Lut!RefsExact'
  <2>1. Lut!Cardinality({}) = 0
    BY SameCounts, FS_EmptySet
  <2> QED
    BY <1>1, <1>3, <2>1 DEF Lut!RefsExact
<1>7. TableInv'
  BY <1>1, <1>2, <1>3, <1>5, <1>6
  DEF TableInv, Lut!TableInv, Lut!Placed, Lut!KeysDistinct, Lut!Ranked
<1>8. Stored' = {} /\ Stored' \cup owned \subseteq Allocated /\ owned \in SUBSET Packages
  BY <1>2, <1>3 DEF Stored, Live, ObjectsTypeOK
<1>9. id \in [Packages -> Table!Ids \cup {Table!NoId}]
  BY <1>2 DEF ObjectsTypeOK
<1>10. /\ Allocated' = Stored' \cup owned
       /\ key' \in [Packages -> Keys \cup {NoKey}]
       /\ id' \in [Packages -> Table!Ids \cup {Table!NoId}]
       /\ DOMAIN lists' = Packages /\ lists' = [q \in Packages |-> lists'[q]]
       /\ DOMAIN added' = Packages /\ added' = [q \in Packages |-> added'[q]]
  BY <1>1, <1>2, <1>7, <1>8, <1>9, Deallocation
<1>11. ObjectsTypeOK'
  BY <1>1, <1>2, <1>10 DEF ObjectsTypeOK, LoadsTypeOK
<1>12. Lists'
  BY <1>1, <1>2, ListsAfterDeallocation
<1>13. Linked' /\ Live'
  BY <1>1, <1>3, <1>10 DEF Linked, Live
<1>14. LoadedKept'
  BY <1>1 DEF LoadedKept
<1>15. HeldKept'
  <2>1. CASE held = NoHolder
    BY <1>1, <2>1 DEF HeldKept
  <2>2. CASE held # NoHolder
    <3>1. held \in Lut!Holders /\ held' = [held EXCEPT !.exists = FALSE]
      BY <1>1, <1>2, <2>2 DEF TableInv, Lut!TableInv, Lut!TypeOK
    <3>2. held'.key = held.key /\ held'.id = held.id /\ held'.exists = FALSE
      BY <3>1 DEF Lut!Holders
    <3> QED
      BY <1>2, <2>2, <3>2 DEF HeldKept
  <2> QED
    BY <2>1, <2>2
<1> QED
  BY <1>7, <1>11, <1>12, <1>13, <1>14, <1>15 DEF PortageInv

\* add_package releases what was under the key.
LEMMA AddPackageKeeps ==
    ASSUME PortageInv, NEW p \in Packages, AddPackage(p)
    PROVE  PortageInv'
<1> DEFINE k == key[p]
           ids == [id EXCEPT ![p] = Table!IdOf(k)]
<1>1. /\ scan = NoScan /\ UNCHANGED <<owned, loads, scan>> /\ p \in owned
      /\ Table!InsertNew(k, p) \/ Table!InsertExisting(k, p)
      /\ Deallocate(Unreferenced(owned), ids)
  BY DEF AddPackage
<1>2. TableInv /\ ObjectsTypeOK /\ Lists /\ Linked /\ Live /\ HeldKept
  BY DEF PortageInv
<1>3. p \in Allocated /\ k \in Keys
  BY <1>1, <1>2 DEF Live, Allocated, ObjectsTypeOK
<1>4. id \in [Packages -> Table!Ids \cup {Table!NoId}]
  BY <1>2 DEF ObjectsTypeOK
<1> HIDE DEF ids, k
<1>5. TableInv' /\ UNCHANGED held
  BY <1>1, <1>2, <1>3, InsertingNew, InsertingExisting
<1>6. PICK n \in DOMAIN nodes' : Put(n, k, p)
  BY <1>1, <1>2, <1>3, InsertingNew, InsertingExisting
<1>7. /\ nodes'[n].key = k /\ nodes'[n].id = Table!IdOf(k) /\ nodes'[n].data = p
      /\ n \in DOMAIN nodes => nodes[n].key = k
      /\ \A i \in DOMAIN nodes' \ {n} : i \in DOMAIN nodes /\ nodes'[i].data = nodes[i].data
      /\ \A i \in DOMAIN nodes :
           /\ i \in DOMAIN nodes'
           /\ nodes'[i].key = nodes[i].key /\ nodes'[i].id = nodes[i].id
  BY <1>6 DEF Put
<1>8. Stored' \subseteq Stored \cup {p}
  BY <1>7 DEF Stored
<1>9. Stored' \cup owned \subseteq Allocated /\ owned \in SUBSET Packages
  BY <1>2, <1>3, <1>8 DEF Live, ObjectsTypeOK
<1>10. nodes'[n].id \in Table!Ids
  BY <1>5, <1>6, NodesOfTableNext DEF TableInv, NodesAreOfTable
<1>11. ids \in [Packages -> Table!Ids \cup {Table!NoId}]
       /\ \A q \in Packages : ids[q] = IF q = p THEN Table!IdOf(k) ELSE id[q]
  BY <1>4, <1>7, <1>10 DEF ids
<1>12. /\ Allocated' = Stored' \cup owned
       /\ \A q \in Stored' \cup owned :
            /\ key'[q] = key[q] /\ id'[q] = ids[q]
            /\ lists'[q] = lists[q] /\ added'[q] = added[q]
       /\ key' \in [Packages -> Keys \cup {NoKey}]
       /\ id' \in [Packages -> Table!Ids \cup {Table!NoId}]
       /\ DOMAIN lists' = Packages /\ lists' = [q \in Packages |-> lists'[q]]
       /\ DOMAIN added' = Packages /\ added' = [q \in Packages |-> added'[q]]
  BY <1>1, <1>2, <1>5, <1>9, <1>11, Deallocation
<1>13. ObjectsTypeOK'
  BY <1>1, <1>2, <1>12 DEF ObjectsTypeOK, LoadsTypeOK
<1>14. Lists'
  BY <1>1, <1>2, ListsAfterDeallocation
<1>15. Linked'
  <2>1. ASSUME NEW i \in DOMAIN nodes', i # n
        PROVE  key'[nodes'[i].data] = nodes'[i].key /\ id'[nodes'[i].data] = nodes'[i].id
    <3>1. i \in DOMAIN nodes /\ nodes'[i].data = nodes[i].data
      BY <1>7, <2>1
    <3>2. /\ nodes'[i].key = nodes[i].key /\ nodes'[i].id = nodes[i].id
          /\ key[nodes[i].data] = nodes[i].key /\ id[nodes[i].data] = nodes[i].id
      BY <1>2, <1>7, <3>1 DEF Linked
    <3>3. nodes[i].data \in Packages /\ nodes[i].data \in Stored'
      BY <1>2, <2>1, <3>1, NodesOfTable DEF NodesAreOfTable, TableInv, Stored
    <3>4. nodes[i].data # p
      <4>1. ASSUME nodes[i].data = p PROVE nodes'[i].key = nodes'[n].key
        BY <1>7, <3>2, <4>1 DEF k
      <4>2. nodes'[i].key # nodes'[n].key
        BY <1>5, <1>6, <2>1, NodesOfTableNext DEF TableInv, NodesAreOfTable
      <4> QED
        BY <4>1, <4>2
    <3> QED
      BY <1>11, <1>12, <3>1, <3>2, <3>3, <3>4
  <2>2. key'[p] = k /\ id'[p] = Table!IdOf(k)
    BY <1>1, <1>11, <1>12 DEF k
  <2> QED
    BY <1>7, <2>1, <2>2 DEF Linked
<1>16. Live'
  BY <1>1, <1>12 DEF Live
<1>17. LoadedKept'
  BY <1>1 DEF LoadedKept
<1>18. HeldKept'
  BY <1>2, <1>5, <1>7 DEF HeldKept
<1> QED
  BY <1>5, <1>13, <1>14, <1>15, <1>16, <1>17, <1>18 DEF PortageInv

\* Steps that put an ebuild into a package: the lists stay well formed,
LEMMA ListsAfterInserting ==
    ASSUME ObjectsTypeOK, Lists, NEW p \in Packages, NEW e, Makes(e), key[p] = KeyOf(e), key' = key,
           lists' = [lists EXCEPT ![p] = Inserted(lists[p], e)],
           added' = [added EXCEPT ![p] = Append(@, e)]
    PROVE  /\ Lists'
           /\ \A q \in Packages : Elements(lists[q]) \subseteq Elements(lists'[q])
           /\ e \in Elements(lists'[p])
           /\ DOMAIN lists' = Packages /\ lists' = [q \in Packages |-> lists'[q]]
           /\ DOMAIN added' = Packages /\ added' = [q \in Packages |-> added'[q]]
<1>1. e \in Ebuilds /\ e \notin Made /\ Made' = Made \cup {e}
  BY MakesOne
<1>2. \A q \in Packages :
        /\ WellFormed(lists[q], added[q])
        /\ \A d \in Elements(lists[q]) : d \in Made /\ KeyOf(d) = key[q]
  BY DEF Lists
<1>3. /\ lists'[p] = Inserted(lists[p], e) /\ added'[p] = Append(added[p], e)
      /\ \A q \in Packages \ {p} : lists'[q] = lists[q] /\ added'[q] = added[q]
      /\ DOMAIN lists' = Packages /\ DOMAIN added' = Packages
  BY DEF ObjectsTypeOK
<1>4. /\ WellFormed(lists'[p], added'[p])
      /\ Elements(lists'[p]) = Elements(lists[p]) \cup {e}
  BY <1>1, <1>2, <1>3, InsertedIsWellFormed
<1>5. lists' = [q \in Packages |-> lists'[q]] /\ added' = [q \in Packages |-> added'[q]]
  <2> DEFINE s == Inserted(lists[p], e)
             more == Append(added[p], e)
  <2> HIDE DEF s, more
  <2>1. lists' = [lists EXCEPT ![p] = s] /\ added' = [added EXCEPT ![p] = more]
    BY DEF s, more
  <2> QED
    BY <2>1 DEF ObjectsTypeOK
<1>6. \A q \in Packages :
        /\ WellFormed(lists'[q], added'[q])
        /\ \A d \in Elements(lists'[q]) : d \in Made' /\ KeyOf(d) = key'[q]
  BY <1>1, <1>2, <1>3, <1>4
<1>7. ASSUME NEW q \in Packages, NEW r \in Packages, Elements(lists'[q]) \cap Elements(lists'[r]) # {}
      PROVE  q = r
  <2>1. \A t \in Packages : e \notin Elements(lists[t])
    BY <1>1, <1>2
  <2> QED
    BY <1>3, <1>4, <1>7, <2>1 DEF Lists
<1>8. Lists'
  BY <1>6, <1>7 DEF Lists
<1> QED
  BY <1>3, <1>4, <1>5, <1>8

\* Python code adds an ebuild to a package of its own.
LEMMA AddEbuildKeeps ==
    ASSUME PortageInv, NEW p \in Packages, NEW e, AddEbuild(p, e)
    PROVE  PortageInv'
<1>1. /\ scan = NoScan /\ UNCHANGED <<key, id, owned, scan>> /\ UNCHANGED table
      /\ Makes(e) /\ key[p] = KeyOf(e)
      /\ lists' = [lists EXCEPT ![p] = Inserted(lists[p], e)]
      /\ added' = [added EXCEPT ![p] = Append(@, e)]
  BY DEF AddEbuild
<1>2. UNCHANGED <<nodes, held>>
  BY <1>1 DEF table
<1>3. TableInv /\ ObjectsTypeOK /\ Lists /\ Linked /\ Live /\ HeldKept
  BY DEF PortageInv
<1>4. TableInv'
  BY <1>1, <1>3, TableAlone
<1>5. /\ Lists'
      /\ DOMAIN lists' = Packages /\ lists' = [q \in Packages |-> lists'[q]]
      /\ DOMAIN added' = Packages /\ added' = [q \in Packages |-> added'[q]]
  BY <1>1, <1>3, ListsAfterInserting
<1>6. LoadsTypeOK'
  BY <1>1, <1>3, MakesOne
<1>7. ObjectsTypeOK'
  BY <1>1, <1>3, <1>5, <1>6 DEF ObjectsTypeOK
<1>8. Stored' = Stored /\ Allocated' = Allocated
  BY <1>1, <1>2 DEF Stored, Allocated
<1>9. Linked' /\ Live'
  BY <1>1, <1>2, <1>3, <1>8 DEF Linked, Live
<1>10. LoadedKept' /\ HeldKept'
  BY <1>1, <1>2, <1>3 DEF LoadedKept, HeldKept
<1> QED
  BY <1>4, <1>5, <1>7, <1>9, <1>10 DEF PortageInv

\* and a call that has loaded an ebuild has it in its package.
LEMMA ScanAfterLoading ==
    ASSUME ObjectsTypeOK, NEW e, Loads(e)
    PROVE  /\ scan # NoScan /\ e \in Ebuilds
           /\ scan'.loaded = scan.loaded \cup {e}
           /\ scan' \in [left : SUBSET Files, loaded : SUBSET Ebuilds, refused : SUBSET Files]
<1>1. /\ scan # NoScan /\ e \in Ebuilds
      /\ scan' = [scan EXCEPT !.left = @ \ {e[1]}, !.loaded = @ \cup {e}]
  BY DEF Loads, Makes
<1>2. scan \in [left : SUBSET Files, loaded : SUBSET Ebuilds, refused : SUBSET Files]
  BY <1>1 DEF ObjectsTypeOK
<1> DEFINE left == scan.left \ {e[1]}
           loaded == scan.loaded \cup {e}
<1>3. left \in SUBSET Files /\ loaded \in SUBSET Ebuilds
  BY <1>1, <1>2
<1>4. scan' = [scan EXCEPT !.left = left, !.loaded = loaded]
  BY <1>1
<1> HIDE DEF left, loaded
<1>5. scan' \in [left : SUBSET Files, loaded : SUBSET Ebuilds, refused : SUBSET Files]
      /\ scan'.loaded = loaded
  BY <1>2, <1>3, <1>4
<1> QED
  BY <1>1, <1>5 DEF loaded

\* A scan adds an ebuild to a package of the table.
LEMMA LoadExistingKeeps ==
    ASSUME PortageInv, NEW e, LoadExisting(e)
    PROVE  PortageInv'
<1> DEFINE p == Table!Get(Table!IdOf(KeyOf(e)))
<1>1. /\ Loads(e) /\ Makes(e) /\ Table!Exists(KeyOf(e))
      /\ UNCHANGED <<key, id, owned>> /\ UNCHANGED table
      /\ lists' = [lists EXCEPT ![p] = Inserted(lists[p], e)]
      /\ added' = [added EXCEPT ![p] = Append(@, e)]
  BY DEF LoadExisting, Loads
<1>2. UNCHANGED <<nodes, held>>
  BY <1>1 DEF table
<1>3. TableInv /\ ObjectsTypeOK /\ Lists /\ Linked /\ Live /\ LoadedKept /\ HeldKept
  BY DEF PortageInv
<1>4. TableInv'
  BY <1>1, <1>3, TableAlone
<1>5. /\ scan # NoScan /\ e \in Ebuilds
      /\ scan'.loaded = scan.loaded \cup {e}
      /\ scan' \in [left : SUBSET Files, loaded : SUBSET Ebuilds, refused : SUBSET Files]
  BY <1>1, <1>3, ScanAfterLoading
<1>6. PICK n \in DOMAIN nodes : nodes[n].key = KeyOf(e)
  BY <1>1, <1>3, <1>5, ExistsIsPresent, KeyOfIsKey DEF TableInv
<1>7. nodes[n].data = p /\ p \in Packages
  BY <1>3, <1>6, NodesOfTable DEF NodesAreOfTable, TableInv
<1>8. key[p] = KeyOf(e)
  BY <1>3, <1>6, <1>7 DEF Linked
<1> HIDE DEF p
<1>9. /\ Lists'
      /\ \A q \in Packages : Elements(lists[q]) \subseteq Elements(lists'[q])
      /\ e \in Elements(lists'[p])
      /\ DOMAIN lists' = Packages /\ lists' = [q \in Packages |-> lists'[q]]
      /\ DOMAIN added' = Packages /\ added' = [q \in Packages |-> added'[q]]
  BY <1>1, <1>3, <1>7, <1>8, ListsAfterInserting
<1>10. LoadsTypeOK'
  BY <1>1, <1>3, MakesOne
<1>11. ObjectsTypeOK'
  BY <1>1, <1>3, <1>5, <1>9, <1>10 DEF ObjectsTypeOK
<1>12. Stored' = Stored /\ Allocated' = Allocated
  BY <1>1, <1>2 DEF Stored, Allocated
<1>13. Linked' /\ Live' /\ HeldKept'
  BY <1>1, <1>2, <1>3, <1>12 DEF Linked, Live, HeldKept
<1>14. LoadedKept'
  <2>1. \A i \in DOMAIN nodes : nodes[i].data \in Packages
    BY <1>3, NodesOfTable DEF NodesAreOfTable, TableInv
  <2> QED
    BY <1>2, <1>3, <1>5, <1>6, <1>7, <1>9, <2>1 DEF LoadedKept
<1> QED
  BY <1>4, <1>9, <1>11, <1>13, <1>14 DEF PortageInv

\* A scan makes the package of the first ebuild of its key, and puts it into
\* the table.
LEMMA LoadNewKeeps ==
    ASSUME PortageInv, NEW p \in Packages, NEW e, LoadNew(e, p)
    PROVE  PortageInv'
<1> DEFINE k == KeyOf(e)
<1>1. /\ Loads(e) /\ Makes(e) /\ Table!InsertNew(k, p) /\ key[p] = NoKey /\ owned' = owned
      /\ key' = [key EXCEPT ![p] = k] /\ id' = [id EXCEPT ![p] = Table!IdOf(k)]
      /\ lists' = [lists EXCEPT ![p] = <<e>>] /\ added' = [added EXCEPT ![p] = <<e>>]
  BY DEF LoadNew, Loads, Unallocated
<1>2. TableInv /\ ObjectsTypeOK /\ Lists /\ Linked /\ Live /\ LoadedKept /\ HeldKept
  BY DEF PortageInv
<1>3. /\ scan # NoScan /\ e \in Ebuilds
      /\ scan'.loaded = scan.loaded \cup {e}
      /\ scan' \in [left : SUBSET Files, loaded : SUBSET Ebuilds, refused : SUBSET Files]
  BY <1>1, <1>2, ScanAfterLoading
<1>4. k \in Keys /\ k # NoKey
  BY <1>3, KeyOfIsKey
<1> HIDE DEF k
<1>5. TableInv' /\ UNCHANGED held
  BY <1>1, <1>2, <1>4, InsertingNew
<1>6. PICK n \in DOMAIN nodes' : n \notin DOMAIN nodes /\ Put(n, k, p)
  BY <1>1, <1>2, <1>4, InsertingNew
<1>7. /\ nodes'[n].key = k /\ nodes'[n].id = Table!IdOf(k) /\ nodes'[n].data = p
      /\ \A i \in DOMAIN nodes' \ {n} : i \in DOMAIN nodes /\ nodes'[i].data = nodes[i].data
      /\ \A i \in DOMAIN nodes :
           /\ i \in DOMAIN nodes' /\ i # n
           /\ nodes'[i].key = nodes[i].key /\ nodes'[i].id = nodes[i].id
  BY <1>6 DEF Put
<1>8. Stored' = Stored \cup {p}
  BY <1>7 DEF Stored
<1>9. p \notin Stored
  BY <1>1, <1>2 DEF Live, Allocated
<1>10. /\ key' \in [Packages -> Keys \cup {NoKey}]
       /\ \A q \in Packages : key'[q] = IF q = p THEN k ELSE key[q]
  BY <1>1, <1>2, <1>4 DEF ObjectsTypeOK
<1>11. nodes'[n].id \in Table!Ids
  BY <1>5, <1>6, NodesOfTableNext DEF TableInv, NodesAreOfTable
<1>12. /\ id' \in [Packages -> Table!Ids \cup {Table!NoId}]
       /\ \A q \in Packages : id'[q] = IF q = p THEN Table!IdOf(k) ELSE id[q]
  <2> DEFINE new == Table!IdOf(k)
  <2>1. id' = [id EXCEPT ![p] = new] /\ new \in Table!Ids
    BY <1>1, <1>7, <1>11
  <2> HIDE DEF new
  <2>2. id \in [Packages -> Table!Ids \cup {Table!NoId}]
    BY <1>2 DEF ObjectsTypeOK
  <2>3. /\ id' \in [Packages -> Table!Ids \cup {Table!NoId}]
        /\ \A q \in Packages : id'[q] = IF q = p THEN new ELSE id[q]
    BY <2>1, <2>2
  <2> QED
    BY <2>3 DEF new
<1>13. /\ lists'[p] = <<e>> /\ added'[p] = <<e>>
       /\ \A q \in Packages \ {p} : lists'[q] = lists[q] /\ added'[q] = added[q]
       /\ DOMAIN lists' = Packages /\ lists' = [q \in Packages |-> lists'[q]]
       /\ DOMAIN added' = Packages /\ added' = [q \in Packages |-> added'[q]]
  BY <1>1, <1>2 DEF ObjectsTypeOK
<1>14. /\ e \notin Made /\ Made' = Made \cup {e}
       /\ LoadsTypeOK'
  BY <1>1, <1>2, MakesOne
<1>15. ObjectsTypeOK'
  BY <1>1, <1>2, <1>3, <1>10, <1>12, <1>13, <1>14 DEF ObjectsTypeOK
<1>16. WellFormed(lists'[p], added'[p]) /\ Elements(lists'[p]) = {e}
  BY <1>3, <1>13, OneIsWellFormed
<1>17. Lists'
  <2>1. \A q \in Packages :
          /\ WellFormed(lists[q], added[q])
          /\ \A d \in Elements(lists[q]) : d \in Made /\ KeyOf(d) = key[q]
    BY <1>2 DEF Lists
  <2>2. \A q \in Packages :
          /\ WellFormed(lists'[q], added'[q])
          /\ \A d \in Elements(lists'[q]) : d \in Made' /\ KeyOf(d) = key'[q]
    BY <1>10, <1>13, <1>14, <1>16, <2>1 DEF k
  <2>3. ASSUME NEW q \in Packages, NEW r \in Packages,
               Elements(lists'[q]) \cap Elements(lists'[r]) # {}
        PROVE  q = r
    BY <1>2, <1>13, <1>14, <1>16, <2>1, <2>3 DEF Lists
  <2> QED
    BY <2>2, <2>3 DEF Lists
<1>18. Linked'
  <2>1. ASSUME NEW i \in DOMAIN nodes', i # n
        PROVE  key'[nodes'[i].data] = nodes'[i].key /\ id'[nodes'[i].data] = nodes'[i].id
    <3>1. i \in DOMAIN nodes /\ nodes'[i].data = nodes[i].data /\ nodes[i].data \in Stored
      BY <1>7, <2>1 DEF Stored
    <3>2. nodes[i].data \in Packages
      BY <1>2, <3>1, NodesOfTable DEF NodesAreOfTable, TableInv
    <3> QED
      BY <1>2, <1>7, <1>9, <1>10, <1>12, <3>1, <3>2 DEF Linked
  <2>2. key'[p] = k /\ id'[p] = Table!IdOf(k)
    BY <1>10, <1>12
  <2> QED
    BY <1>7, <2>1, <2>2 DEF Linked
<1>19. Live'
  <2>1. Allocated' = Allocated \cup {p}
    BY <1>4, <1>10 DEF Allocated
  <2> QED
    BY <1>1, <1>2, <1>8, <2>1 DEF Live
<1>20. LoadedKept'
  <2>1. ASSUME NEW i \in DOMAIN nodes
        PROVE  /\ i \in DOMAIN nodes' /\ nodes'[i].key = nodes[i].key
               /\ lists'[nodes'[i].data] = lists[nodes[i].data]
    <3>1. i \in DOMAIN nodes' /\ i # n /\ nodes'[i].data = nodes[i].data /\ nodes[i].data \in Stored
      BY <1>7 DEF Stored
    <3>2. nodes[i].data \in Packages
      BY <1>2, NodesOfTable DEF NodesAreOfTable, TableInv
    <3> QED
      BY <1>7, <1>9, <1>13, <3>1, <3>2
  <2>2. nodes'[n].key = KeyOf(e) /\ e \in Elements(lists'[nodes'[n].data])
    BY <1>7, <1>16 DEF k
  <2> QED
    BY <1>2, <1>3, <2>1, <2>2 DEF LoadedKept
<1>21. HeldKept'
  BY <1>2, <1>5, <1>7 DEF HeldKept
<1> QED
  BY <1>5, <1>15, <1>17, <1>18, <1>19, <1>20, <1>21 DEF PortageInv

\* A scan begins, and ends early or with every file loaded.
LEMMA ScanStepsKeep ==
    ASSUME PortageInv,
           EndScan \/ \E r \in Repositories, sources \in BOOLEAN : StartScan(r, sources)
    PROVE  PortageInv'
<1>1. UNCHANGED table /\ UNCHANGED objects
  BY DEF EndScan, StartScan
<1>2. UNCHANGED <<nodes, held, key, id, lists, added, owned, loads>>
  BY <1>1 DEF table, objects
<1>3. TableInv /\ ObjectsTypeOK /\ Lists /\ Linked /\ Live /\ HeldKept
  BY DEF PortageInv
<1>4. TableInv'
  BY <1>1, <1>3, TableAlone
<1>5. \/ scan' = NoScan
      \/ \E r \in SUBSET Files, refused \in SUBSET Files :
           scan' = [left |-> r, loaded |-> {}, refused |-> refused]
  <2>1. ASSUME NEW r \in Repositories, NEW sources \in BOOLEAN, StartScan(r, sources)
        PROVE  \E refused \in SUBSET Files :
                 scan' = [left |-> r, loaded |-> {}, refused |-> refused]
    <3> DEFINE refused == IF sources THEN r \cap NoSource ELSE {}
    <3>1. refused \in SUBSET Files
      BY RepositoriesHoldFiles
    <3> QED
      BY <2>1, <3>1 DEF StartScan
  <2> QED
    BY <2>1, RepositoriesHoldFiles DEF EndScan
<1>6. ObjectsTypeOK' /\ LoadedKept'
  BY <1>2, <1>3, <1>5 DEF ObjectsTypeOK, LoadsTypeOK, LoadedKept
<1>7. Made' = Made /\ Stored' = Stored /\ Allocated' = Allocated
  BY <1>2 DEF Made, Stored, Allocated
<1>8. Lists' /\ Linked' /\ Live' /\ HeldKept'
  BY <1>2, <1>3, <1>7 DEF Lists, Linked, Live, HeldKept
<1> QED
  BY <1>4, <1>6, <1>8 DEF PortageInv

\* Every step is one of these actions or touches nothing.
LEMMA PortageInvStep == PortageInv /\ [Next]_vars => PortageInv'
<1> SUFFICES ASSUME PortageInv, [Next]_vars PROVE PortageInv'
  OBVIOUS
<1>1. ASSUME NEW p \in Packages, NEW k \in Keys, NewPackage(p, k) PROVE PortageInv'
  BY <1>1, NewPackageKeeps
<1>2. ASSUME NEW p \in Packages, NEW e \in Ebuilds, AddEbuild(p, e) PROVE PortageInv'
  BY <1>2, AddEbuildKeeps
<1>3. ASSUME NEW p \in Packages, NEW e \in Ebuilds, LoadNew(e, p) PROVE PortageInv'
  BY <1>3, LoadNewKeeps
<1>4. ASSUME NEW p \in Packages, Release(p) PROVE PortageInv'
  BY <1>4, ReleaseKeeps
<1>5. ASSUME NEW p \in Packages, GetPackage(p) PROVE PortageInv'
  BY <1>5, GetPackageKeeps
<1>6. ASSUME NEW p \in Packages, AddPackage(p) PROVE PortageInv'
  BY <1>6, AddPackageKeeps
<1>7. ASSUME NEW e \in Ebuilds, LoadExisting(e) PROVE PortageInv'
  BY <1>7, LoadExistingKeeps
<1>8. ASSUME NEW k \in AtomKeys, ParseAtom(k) PROVE PortageInv'
  BY <1>8, ParseAtomKeeps, KeysAreKeys
<1>9. CASE EndScan \/ \E r \in Repositories, sources \in BOOLEAN : StartScan(r, sources)
  BY <1>9, ScanStepsKeep
<1>10. CASE Reset
  BY <1>10, ResetKeeps
<1>11. CASE UNCHANGED vars
  <2>1. UNCHANGED table /\ UNCHANGED <<nodes, held, key, id, lists, added, owned, loads, scan>>
    BY <1>11 DEF vars, table, objects
  <2>2. Made' = Made /\ Stored' = Stored /\ Allocated' = Allocated
    BY <2>1 DEF Made, Stored, Allocated
  <2>3. TableInv'
    BY <2>1, TableAlone DEF PortageInv
  <2> QED
    BY <2>1, <2>2, <2>3
    DEF PortageInv, ObjectsTypeOK, LoadsTypeOK, Lists, Linked, Live, LoadedKept, HeldKept
<1> QED
  BY <1>1, <1>2, <1>3, <1>4, <1>5, <1>6, <1>7, <1>8, <1>9, <1>10, <1>11 DEF Next

\* The table, the packages and their lists agree in every state.
LEMMA PortageInvHolds == Spec => []PortageInv
BY PortageInvInit, PortageInvStep, PTL DEF Spec

----------------------------------------------------------------------------
(* The theorems *)

\* The table, the packages and a scan of initialize_repository are well
\* formed, and the list of every package has each ebuild that add_ebuild was
\* called with, once.
THEOREM TypeCorrect == Spec => []TypeOK
<1>1. PortageInv => TypeOK
  <2> SUFFICES ASSUME PortageInv PROVE TypeOK
    OBVIOUS
  <2>1. TableInv /\ ObjectsTypeOK /\ Lists
    BY DEF PortageInv
  <2>2. Table!TypeOK
    BY <2>1, SameProperties DEF TableInv, Lut!TableInv
  <2>3. \A p \in Packages : HoldsAll(lists[p], added[p])
    BY <2>1 DEF Lists, WellFormed
  <2>4. scan = NoScan \/ scan.left \subseteq Files
    BY <2>1 DEF ObjectsTypeOK
  <2> QED
    BY <2>1, <2>2, <2>3, <2>4 DEF TypeOK, ObjectsTypeOK, LoadsTypeOK
<1> QED
  BY <1>1, PortageInvHolds, PTL

\* Whatever Portage.add_package replaces, initialize_repository loads and
\* Python code releases, a package is there as long as it is referred to and
\* no longer.
THEOREM PackagesLiveHolds == Spec => []PackagesLive
<1>1. PortageInv => PackagesLive
  <2> SUFFICES ASSUME PortageInv PROVE PackagesLive
    OBVIOUS
  <2>1. Live /\ Table!RefsExact
    BY SameProperties DEF PortageInv, TableInv, Lut!TableInv
  <2>2. Allocated = Packages \ Unallocated
    BY DEF Allocated, Unallocated
  <2> QED
    BY <2>1, <2>2 DEF PackagesLive, Live
<1> QED
  BY <1>1, PortageInvHolds, PTL

\* The package_id that add_package and initialize_repository give a package
\* leads back to it, also after the table has grown and among keys of the
\* same hash, and its ebuilds are of its key.
THEOREM FoundByIdHolds == Spec => []FoundById
<1>1. PortageInv => FoundById
  <2> SUFFICES ASSUME PortageInv, NEW i \in DOMAIN nodes
               PROVE  \A p \in {nodes[i].data} :
                        /\ key[p] = nodes[i].key /\ Table!Get(id[p]) = p
                        /\ \A e \in Elements(lists[p]) : KeyOf(e) = key[p]
    BY DEF FoundById
  <2>1. nodes[i].data \in Packages /\ Table!Get(nodes[i].id) = nodes[i].data
    BY NodesOfTable DEF PortageInv, TableInv, NodesAreOfTable
  <2>2. key[nodes[i].data] = nodes[i].key /\ id[nodes[i].data] = nodes[i].id
    BY DEF PortageInv, Linked
  <2>3. \A e \in Elements(lists[nodes[i].data]) : KeyOf(e) = key[nodes[i].data]
    BY <2>1 DEF PortageInv, Lists
  <2> QED
    BY <2>1, <2>2, <2>3
<1> QED
  BY <1>1, PortageInvHolds, PTL

\* What initialize_repository has loaded can be found, and an ebuild is in
\* one package.
THEOREM LoadedIsFoundHolds == Spec => []LoadedIsFound
<1>1. PortageInv => LoadedIsFound
  <2> SUFFICES ASSUME PortageInv PROVE LoadedIsFound
    OBVIOUS
  <2>1. \A p, q \in Packages : Elements(lists[p]) \cap Elements(lists[q]) # {} => p = q
    BY DEF PortageInv, Lists
  <2>2. ASSUME scan # NoScan, NEW e \in scan.loaded
        PROVE  /\ Table!Exists(KeyOf(e))
               /\ e \in Elements(lists[Table!Get(Table!IdOf(KeyOf(e)))])
    <3>1. PICK i \in DOMAIN nodes : nodes[i].key = KeyOf(e) /\ e \in Elements(lists[nodes[i].data])
      BY <2>2 DEF PortageInv, LoadedKept
    <3>2. /\ Table!Exists(nodes[i].key) /\ Table!IdOf(nodes[i].key) = nodes[i].id
          /\ Table!Get(nodes[i].id) = nodes[i].data
      BY NodesOfTable DEF PortageInv, TableInv, NodesAreOfTable
    <3> QED
      BY <3>1, <3>2
  <2> QED
    BY <2>1, <2>2 DEF LoadedIsFound
<1> QED
  BY <1>1, PortageInvHolds, PTL

\* The versions of files are those that atom_version_init makes.
LEMMA FilesVersions == EbuildsHaveVersions
BY EbuildsAreOfFiles, FilesHaveVersions DEF EbuildsHaveVersions, EbuildsOfFiles, VersionsOfFiles

\* The lists that add_ebuild makes of the files of any repositories, read in
\* any order, are sorted, and stably.
THEOREM SortedHolds == Spec => []Sorted
<1>1. PortageInv => Sorted
  BY FilesVersions, SortedIfOrderly DEF PortageInv, Lists, Sorted
<1> QED
  BY <1>1, PortageInvHolds, PTL

\* match_atom ends its walk neither too early nor at an ebuild that is not
\* the best, of the lists that the files of any repositories make.
THEOREM BestMatchHolds == Spec => []BestMatch
<1>1. \A a \in Atoms : a.version \in Versions /\ a.range \in Operators
  BY AtomsAreAtoms
<1>2. PortageInv => BestMatch
  <2> SUFFICES ASSUME PortageInv, NEW p \in Stored PROVE MatchesBest(lists[p])
    BY DEF BestMatch
  <2>1. p \in Packages
    BY NodesOfTable DEF PortageInv, TableInv, NodesAreOfTable, Stored
  <2> QED
    BY <1>1, <2>1, FilesVersions, BestIfOrderly, NoEbuildIsNoEbuild DEF PortageInv, Lists
<1> QED
  BY <1>2, PortageInvHolds, PTL

\* The identifier that atom_init took from lut_get_id leads Portage.match_atom
\* to ebuilds of the atom's package, as long as that table lives.
THEOREM AtomLeadsToKeyHolds == Spec => []AtomLeadsToKey
<1> USE LutAssumptions
    DEF Lut!HashIsNatural, Lut!SizeIsPositive, Lut!NoDataIsNoData, Lut!FewCollisions
<1>1. PortageInv => AtomLeadsToKey
  <2> SUFFICES ASSUME PortageInv, held # NoHolder PROVE AtomLeadsToKey
    BY DEF AtomLeadsToKey, Table!HeldStaysValid
  <2>1. /\ held.id.hash = Hash[held.key]
        /\ held.exists => \E i \in DOMAIN nodes : nodes[i].id = held.id /\ nodes[i].key = held.key
    BY DEF PortageInv, HeldKept
  <2>2. \A i \in DOMAIN nodes : nodes[i].id.hash = Hash[nodes[i].key]
    BY NodesOfTable DEF PortageInv, TableInv, NodesAreOfTable
  <2>3. \A i \in DOMAIN nodes : Table!WithId(nodes[i].id) = {i} /\ Table!First({i}) = i
    BY Lut!FindsNode, SameReads DEF PortageInv, TableInv
  <2>4. \A i \in Table!WithId(held.id) : i \in DOMAIN nodes /\ nodes[i].id = held.id
    BY DEF Table!WithId, Table!Chain
  <2>5. Table!HeldStaysValid
    <3>1. CASE held.exists
      BY <2>1, <2>3, <3>1 DEF Table!HeldStaysValid
    <3>2. CASE ~held.exists
      BY <2>1, <2>2, <2>4, <3>2 DEF Table!HeldStaysValid
    <3> QED
      BY <3>1, <3>2
  <2>6. ASSUME held.exists, NEW a \in Atoms, MatchHeld(a) # NoEbuild
        PROVE  MatchHeld(a) \in Ebuilds /\ KeyOf(MatchHeld(a)) = held.key
    <3>1. PICK i \in DOMAIN nodes : nodes[i].id = held.id /\ nodes[i].key = held.key
      BY <2>1, <2>6
    <3> DEFINE p == nodes[i].data
    <3>2. p \in Packages /\ Table!Get(held.id) = p
      BY <3>1, NodesOfTable DEF PortageInv, TableInv, NodesAreOfTable
    <3>3. MatchHeld(a) = MatchAtom(lists[p], a)
      BY <3>2, NoPackageIsNoPackage DEF MatchHeld
    <3>4. lists[p] \in Seq(Ebuilds) /\ \A e \in Elements(lists[p]) : KeyOf(e) = key[p]
      BY <3>2 DEF PortageInv, Lists, WellFormed, HoldsAll
    <3>5. key[p] = held.key
      BY <3>1 DEF PortageInv, Linked
    <3>6. MatchHeld(a) \in Elements(lists[p])
      BY <2>6, <3>3, <3>4, ChoiceIsHeld
    <3>7. \A e \in Elements(lists[p]) : e \in Ebuilds
      BY <3>4, ElementsOf DEF Elements
    <3> QED
      BY <3>4, <3>5, <3>6, <3>7
  <2> QED
    BY <2>5, <2>6 DEF AtomLeadsToKey
<1> QED
  BY <1>1, PortageInvHolds, PTL

----------------------------------------------------------------------------
(* The texts of atoms *)

\* A text without a word like a version is a name, all of it.
LEMMA NameAlone ==
    ASSUME NEW name \in Texts \ {<<>>}, \A i \in 2..Len(name) : ~LooksLikeVersion(name, i)
    PROVE  Parse(name).name = name
<1> DEFINE n == Len(name)
           start == VersionStart(name)
<1>1. n \in Nat /\ n >= 1
  BY EmptySeq, LenProperties DEF Texts
<1>2. ~(n > 1 /\ StartsWithDigit(name[n]))
  BY <1>1 DEF LooksLikeVersion
<1>3. ~(n > 2 /\ IsRevision(name[n]) /\ StartsWithDigit(name[n - 1]))
  BY <1>1 DEF LooksLikeVersion
<1>4. start = n + 1
  BY <1>2, <1>3 DEF VersionStart
<1>5. SubSeq(name, 1, start - 1) = name
  <2>1. start - 1 = n
    BY <1>1, <1>4
  <2> QED
    BY <2>1, SubSeqFull DEF Texts
<1> HIDE DEF start
<1> QED
  BY <1>5 DEF Parse, start

\* A name and a version are taken apart where the version begins.
LEMMA NameAndVersion ==
    ASSUME NEW name \in Texts \ {<<>>}, NEW v \in Texts \ {<<>>}, LooksLikeVersion(v, 1)
    PROVE  Parse(name \o v) = [name |-> name, version |-> ParseVersion(v)]
<1> DEFINE n == Len(name)
           m == Len(v)
           text == name \o v
           start == VersionStart(text)
<1>1. n \in Nat /\ n >= 1 /\ m \in Nat
  BY EmptySeq, LenProperties DEF Texts
<1>2. /\ Len(text) = n + m /\ text \in Texts
      /\ \A i \in 1..(n + m) : text[i] = IF i <= n THEN name[i] ELSE v[i - n]
  BY ConcatProperties DEF Texts
<1>3. StartsWithDigit(v[1]) /\ (m = 1 \/ (m = 2 /\ IsRevision(v[2])))
  BY <1>1 DEF LooksLikeVersion
<1> HIDE DEF text, m, n
<1>4. text[n + 1] = v[1] /\ (m = 2 => text[n + 2] = v[2])
  BY <1>1, <1>2, <1>3
<1>5. start = n + 1
  <2>1. CASE m = 1
    BY <1>1, <1>2, <1>3, <1>4, <2>1 DEF VersionStart
  <2>2. CASE m = 2
    <3>1. IsRevision(text[n + 2]) /\ ~StartsWithDigit(text[n + 2]) /\ StartsWithDigit(text[n + 1])
      BY <1>3, <1>4, <2>2 DEF IsRevision, StartsWithDigit
    <3>2. n + 2 > 2 /\ (n + 2) - 1 = n + 1 /\ Len(text) = n + 2
      BY <1>1, <1>2, <2>2
    <3> QED
      BY <3>1, <3>2 DEF VersionStart
  <2> QED
    BY <1>3, <2>1, <2>2
<1>6. SubSeq(text, 1, n) = name
  <2>1. 1 \in 1..n /\ n \in 1..n
    BY <1>1
  <2>2. SubSeq(text, 1, n) = SubSeq(name, 1, n)
    BY <2>1, SubSeqOfConcat1 DEF text, n, Texts
  <2> QED
    BY <2>2, SubSeqFull DEF n, Texts
<1>7. SubSeq(text, n + 1, n + m) = v
  <2>1. /\ n + 1 \in (n + 1)..(n + m) /\ n + m \in (n + 1)..(n + m)
        /\ n + 1 - n = 1 /\ n + m - n = m
    BY <1>1, <1>3
  <2>2. SubSeq(text, n + 1, n + m) = SubSeq(v, n + 1 - n, n + m - n)
    BY <2>1, SubSeqOfConcat2 DEF text, n, m, Texts
  <2> QED
    BY <2>1, <2>2, SubSeqFull DEF m, Texts
<1>8. start - 1 = n /\ ~(start > Len(text)) /\ start = n + 1 /\ Len(text) = n + m
  BY <1>1, <1>2, <1>3, <1>5
<1> HIDE DEF start
<1> QED
  BY <1>6, <1>7, <1>8 DEF Parse, start, text

\* atom_init tells the dash before a version from those within a name, for
\* the atoms of whatever package Python code has.
THEOREM NamesTakenApartHolds == Spec => []NamesTakenApart
<1>1. PortageInv => NamesTakenApart
  <2> SUFFICES ASSUME PortageInv, NEW p \in owned
               PROVE  /\ (\A i \in 2..Len(key[p]) : ~LooksLikeVersion(key[p], i)) => Parse(key[p]).name = key[p]
                      /\ \A v \in VersionTexts :
                           Parse(key[p] \o v) = [name |-> key[p], version |-> ParseVersion(v)]
    BY DEF NamesTakenApart, TakenApart
  <2>1. key[p] \in Texts \ {<<>>}
    BY NamesAreTexts DEF PortageInv, Live, Allocated, ObjectsTypeOK
  <2> QED
    BY <2>1, NameAlone, NameAndVersion, VersionsAreVersions
<1> QED
  BY <1>1, PortageInvHolds, PTL
=============================================================================
