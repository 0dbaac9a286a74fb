---------------------------- MODULE AtomVersion ----------------------------
(***************************************************************************)
(* Versions and their comparison, atom_version_compare of                  *)
(* autogentoo/cportage/atom.c.                                             *)
(*                                                                         *)
(* A version is the list of AtomVersion nodes that atom_version_init makes *)
(* of its text, and the revision, which only the first node has.  A node   *)
(* has the number of its prefix (_rc, _p...), its digits, the letter after *)
(* them (0 if there is none) and whether it ends in a star.  The NULL      *)
(* version of an atom that names none has no nodes.                        *)
(***************************************************************************)
EXTENDS Integers, Sequences

CONSTANT WordRange      \* number of values of an I32, 2^32 in the code

ASSUME WordIsEven == WordRange \in Nat \ {0} /\ WordRange % 2 = 0

\* atom_version_pre_t
Alpha == 0
Beta == 1
Pre == 2
Rc == 3
Plain == 4      \* ATOM_PREFIX_NONE
P == 5

Nodes == [prefix : 0..5, digits : Seq(0..9), letter : Nat, star : BOOLEAN]
Versions == [nodes : Seq(Nodes), revision : Int]

NoVersion == [nodes |-> <<>>, revision |-> 0]

ToI32(n) == ((n + WordRange \div 2) % WordRange) - WordRange \div 2

\* strtol of a sequence of digits
Value(digits) ==
    LET upTo[i \in 0..Len(digits)] == IF i = 0 THEN 0 ELSE 10 * upTo[i - 1] + digits[i]
    IN  upTo[Len(digits)]

\* Length of the node's text without its star.
Length(n) == Len(n.digits) + (IF n.letter > 0 THEN 1 ELSE 0)

LeadingZero(n) == n.digits # <<>> /\ n.digits[1] = 0 /\ Length(n) > 1

\* The text filled up with zeroes to length l, as a number: the zeroes are
\* digits of it unless a letter comes before them.
Padded(n, l) ==
    IF n.letter > 0 THEN Value(n.digits)
    ELSE Value(n.digits \o [i \in 1..(l - Len(n.digits)) |-> 0])

MaxLength(f, s) == IF Length(f) > Length(s) THEN Length(f) ELSE Length(s)

\* The number that n is compared to m with, of the text or of the padded one.
Number(n, m) ==
    IF LeadingZero(n) \/ LeadingZero(m) THEN Padded(n, MaxLength(n, m)) ELSE Value(n.digits)

\* cmp_1 - cmp_2
NumberDifference(f, s) == ToI32(ToI32(Number(f, s)) - ToI32(Number(s, f)))

FirstNonZero(s) ==
    IF \A i \in DOMAIN s : s[i] = 0 THEN 0
    ELSE s[CHOOSE i \in DOMAIN s : s[i] # 0 /\ \A j \in 1..(i - 1) : s[j] = 0]

\* What the i-th nodes of two versions decide, 0 if nothing.
NodeCompare(v, w, i) ==
    LET f == v.nodes[i]
        s == w.nodes[i]
    IN  FirstNonZero(<<
            f.prefix - s.prefix,
            IF f.letter > 0 /\ i < Len(w.nodes) THEN -1 ELSE 0,
            IF s.letter > 0 /\ i < Len(v.nodes) THEN 1 ELSE 0,
            NumberDifference(f, s),
            IF f.star \/ s.star THEN 0 ELSE f.letter - s.letter>>)

Starred(v, w) ==
    {i \in DOMAIN v.nodes \cap DOMAIN w.nodes :
        v.nodes[i].star \/ w.nodes[i].star}

\* The nodes that both versions have, up to the first with a star.
SharedNodes(v, w) ==
    {i \in DOMAIN v.nodes \cap DOMAIN w.nodes :
        \A j \in Starred(v, w) : i <= j}

\* atom_version_compare: positive if v is newer than w.  (Of the difference
\* of the lengths the code returns the sign.)  A star ends the comparison.
Compare(v, w) ==
    FirstNonZero(
        [i \in SharedNodes(v, w) |-> NodeCompare(v, w, i)] \o
        (IF Starred(v, w) # {} THEN <<>>
         ELSE <<Len(v.nodes) - Len(w.nodes), v.revision - w.revision>>))

----------------------------------------------------------------------------
(* The versions that Compare puts in order. *)

Fits(v, w) ==
    \A i \in DOMAIN v.nodes \cap DOMAIN w.nodes :
        Number(v.nodes[i], w.nodes[i]) < WordRange \div 2

NoStars(v) == \A i \in DOMAIN v.nodes : ~v.nodes[i].star

NoLetters(v) == \A i \in DOMAIN v.nodes : v.nodes[i].letter = 0

NoLeadingZeroes(v) == \A i \in DOMAIN v.nodes : ~LeadingZero(v.nodes[i])

\* A letter is put in order with other versions of the same length only:
\* 1.6b is newer than 1.6, which is newer than 1.5.4, which is newer than
\* 1.6b; and 1b_p1 is not even equal to itself.  The zeroes added to 05 make
\* it newer than 05b.  Numbers that do not fit an I32, with the zeroes that
\* are added, wrap; 1* is equal to 1.5 and to 1.6.
Orderly(S) ==
    /\ \A v, w \in S : Fits(v, w)
    /\ \A v \in S : NoStars(v)
    /\ \/ \A v \in S : NoLetters(v)
       \/ \A v, w \in S :
            /\ Len(v.nodes) = Len(w.nodes)
            /\ NoLeadingZeroes(v)
            /\ \A i \in DOMAIN v.nodes :
                 v.nodes[i].letter > 0 => i = Len(v.nodes)

\* Compare puts the versions of a set in order, some of them in one place.
IsPreorder(S) ==
    /\ \A v, w \in S : Compare(v, w) \in Int /\ (Compare(v, w) > 0 <=> Compare(w, v) < 0)
    /\ \A u, v, w \in S :
         Compare(u, v) >= 0 /\ Compare(v, w) >= 0 => Compare(u, w) >= 0
=============================================================================
