----------------------------- MODULE EbuildList -----------------------------
(***************************************************************************)
(* The list of ebuilds of a Package of autogentoo/cportage/package.c, from *)
(* newest to oldest: where add_ebuild puts one more, and which of them     *)
(* match_atom chooses for an atom.  The links Package.ebuilds and          *)
(* Ebuild.older are the sequence s.                                        *)
(***************************************************************************)
EXTENDS AtomVersion, FiniteSets
LOCAL Seqs == INSTANCE SequencesExt

CONSTANTS
    Ebuilds,        \* Ebuild objects
    VersionOf,      \* the version of each, which is not NoVersion
    Atoms,          \* atoms: their versions and operators
    NoEbuild        \* None

\* atom_version_t, as the set of its bits
E == {"E"}
L == {"L"}
G == {"G"}
Rev == {"E", "REV"}
All == E \cup L \cup G
GE == G \cup E
LE == L \cup E

Operators == {E, L, G, Rev, All, GE, LE}

Elements(s) == {s[i] : i \in DOMAIN s}
FirstOf(S) == CHOOSE i \in S : \A j \in S : i <= j

\* What an operator accepts of the comparison of an ebuild's version with the
\* atom's.
Accepts(range, c) ==
    \/ c = 0 /\ "E" \in range
    \/ c > 0 /\ "G" \in range
    \/ c < 0 /\ "L" \in range

----------------------------------------------------------------------------
(* Mutants: bugs a change of the code could introduce. *)

\* an ebuild goes before those of the same version
PlaceBeforeEquals(s, e) ==
    LET older == {i \in DOMAIN s : Compare(VersionOf[e], VersionOf[s[i]]) >= 0}
    IN  FirstOf(older \cup {Len(s) + 1})

\* the walk of match_atom ends at a newer ebuild whatever the operator
StopsAlways(s, a) ==
    {i \in DOMAIN s : Compare(VersionOf[s[i]], a.version) > 0}

\* the operands of the comparison are swapped
HitsSwapped(s, a) ==
    {i \in DOMAIN s : Accepts(a.range, Compare(a.version, VersionOf[s[i]]))}

----------------------------------------------------------------------------
(* add_ebuild *)

\* The walk from the newest ends at the first ebuild that e is newer than.
Place(s, e) ==
    LET older == {i \in DOMAIN s : Compare(VersionOf[e], VersionOf[s[i]]) > 0}
    IN  FirstOf(older \cup {Len(s) + 1})

\* Mutant: the ebuild replaces the head of the list.
InsertedOverHead(s, e) ==
    IF Place(s, e) = 1 /\ s # <<>> THEN <<e>> \o Tail(s)
    ELSE Seqs!InsertAt(s, Place(s, e), e)

Inserted(s, e) == Seqs!InsertAt(s, Place(s, e), e)

----------------------------------------------------------------------------
(* match_atom, and atom_matches of atom.c *)

\* The ebuilds that the test of match_atom accepts.
Hits(s, a) ==
    {i \in DOMAIN s : Accepts(a.range, Compare(VersionOf[s[i]], a.version))}

\* The ebuilds at which the "short circuit" ends the walk.
Stops(s, a) ==
    {i \in DOMAIN s :
        Compare(VersionOf[s[i]], a.version) > 0 /\ "L" \notin a.range}

\* The walk ends at the first of either.
Walk(s, hits, stops) ==
    IF hits # {} /\ FirstOf(hits \cup stops) \in hits
    THEN s[FirstOf(hits)] ELSE NoEbuild

MatchAtom(s, a) == Walk(s, Hits(s, a), Stops(s, a))

\* atom_matches compares the other way round.
AtomMatches(a, e) == Accepts(a.range, -Compare(a.version, VersionOf[e]))

----------------------------------------------------------------------------
(* What the list of a package is like; added are its ebuilds in the order   *)
(* of the calls of add_ebuild.                                              *)

VersionsWith(s, v) == ({VersionOf[e] : e \in Elements(s)} \cup {v}) \ {NoVersion}

\* The atoms whose version is in one order with those of the list.
OrderlyAtoms(s) ==
    LET versions == {v \in {a.version : a \in Atoms} : Orderly(VersionsWith(s, v))}
    IN  {a \in Atoms : a.version \in versions}

Before(s, e, f) == \E i, j \in DOMAIN s : i < j /\ s[i] = e /\ s[j] = f

\* Every ebuild that was added is there, and once.
HoldsAll(s, added) ==
    /\ s \in Seq(Ebuilds) /\ added \in Seq(Ebuilds)
    /\ Elements(s) = Elements(added)
    /\ Len(s) = Len(added)
    /\ Len(s) = Cardinality(Elements(s))

\* From newest to oldest, ebuilds of one version as they were added.
SortedStably(s, added) ==
    \A i, j \in DOMAIN s : i < j =>
        \E c \in {Compare(VersionOf[s[i]], VersionOf[s[j]])} :
            c > 0 \/ (c = 0 /\ Before(added, s[i], s[j]))

StablySorted(s, added) == Orderly(VersionsWith(s, NoVersion)) => SortedStably(s, added)

\* What match_atom chooses for an atom is best: atom.matches accepts it, and
\* accepts no newer ebuild; only for = and ~ it may choose none.
BestFor(s, a) ==
    \E chosen \in {MatchAtom(s, a)} :
        /\ chosen # NoEbuild => AtomMatches(a, chosen)
        /\ \A e \in Elements(s) : AtomMatches(a, e) =>
              IF chosen = NoEbuild THEN a.range \in {E, Rev}
              ELSE Compare(VersionOf[e], VersionOf[chosen]) <= 0

MatchesBest(s) == \A a \in OrderlyAtoms(s) : BestFor(s, a)
=============================================================================
