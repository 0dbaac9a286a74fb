------------------------------ MODULE Package ------------------------------
(***************************************************************************)
(* A package of autogentoo/cportage/package.c and the calls of add_ebuild  *)
(* on it.                                                                  *)
(***************************************************************************)
EXTENDS EbuildList

CONSTANT MaxEbuilds     \* bound on the ebuilds of the list

VARIABLES
    ebuilds,    \* Package.ebuilds, from newest to oldest
    added       \* the ebuilds in the order of the calls of add_ebuild

vars == <<ebuilds, added>>

Init == ebuilds = <<>> /\ added = <<>>

\* An ebuild that is in a package already is refused with a RuntimeError.
AddEbuild(e) ==
    /\ e \notin Elements(ebuilds) /\ Len(ebuilds) < MaxEbuilds
    /\ ebuilds' = Inserted(ebuilds, e)
    /\ added' = Append(added, e)

Next == \E e \in Ebuilds : AddEbuild(e)

Spec == Init /\ [][Next]_vars

----------------------------------------------------------------------------
(* What a comment says of the package, and what the code does not do. *)

\* "Short circuit if packages get too old" (package.c:121): ending the walk
\* early misses no ebuild that the atom accepts.  The walk goes from newest
\* to oldest and ends at the first ebuild that is newer than the atom's
\* version, so that = and ~ find nothing but the newest.
ShortCircuitMissesNothing ==
    \A a \in OrderlyAtoms(ebuilds) : MatchAtom(ebuilds, a) = NoEbuild
        => ~\E e \in Elements(ebuilds) : AtomMatches(a, e)
=============================================================================
