------------------------------ MODULE Portage ------------------------------
(***************************************************************************)
(* The packages of a Portage object of autogentoo/cportage: the lookup     *)
(* table (LUT), the Package objects it holds (with the lists EbuildList)   *)
(* and the Ebuild objects that initialize_repository makes of the files of *)
(* a repository's metadata cache (ebuild_init, atom_init).  Python code    *)
(* also makes packages of its own and adds them, and keeps one atom it has *)
(* parsed, with the identifier it was given then.                          *)
(*                                                                         *)
(* Every call holds the GIL to its end.  initialize_repository takes one   *)
(* step for each file, in any order (readdir), and nothing comes between.  *)
(***************************************************************************)
EXTENDS AtomText, EbuildList

CONSTANTS
    Files,          \* files of all the repositories' caches
    Repositories,   \* sets of files
    Text,           \* the words of each file's name
    NoSource,       \* files without an .ebuild file in the repository
    Keys,           \* names of packages
    Hash, InitialSize, OverlapRange,        \* as in LUT
    Packages,       \* Package objects
    MaxLoads,       \* bound on the Ebuild objects made of a file
    MaxEbuilds,     \* bound on the Ebuild objects
    MaxOwned,       \* bound on the packages Python code holds at a time
    AtomKeys,       \* the packages of the atoms that Python code keeps
    VersionTexts,   \* texts of versions
    NoKey, NoPackage, NoHolder, NoScan

\* What the code reads off each file's name.
NameOf == [f \in Files |-> Parse(Text[f])]
KeyOf(e) == NameOf[e[1]].name

\* The Ebuild objects and their versions.
EbuildsOfFiles == Files \X (1..MaxLoads)
VersionsOfFiles == [e \in EbuildsOfFiles |-> NameOf[e[1]].version]

ASSUME EbuildsAreOfFiles == Ebuilds = EbuildsOfFiles /\ VersionOf = VersionsOfFiles
ASSUME KeysAreKeys == NoKey \notin Keys /\ AtomKeys \subseteq Keys
ASSUME RepositoriesHoldFiles == Repositories \subseteq SUBSET Files
ASSUME BoundsAreNumbers == MaxLoads \in Nat

\* An ebuild without a version ends the process (assert(self->version)).
ASSUME FilesHaveVersions ==
    \A f \in Files : /\ NameOf[f].version \in Versions \ {NoVersion}
                    /\ NameOf[f].name \in Keys
ASSUME NoEbuildIsNoEbuild == NoEbuild \notin Ebuilds

\* What LUT assumes of its constants.
ASSUME HashIsNatural == Hash \in [Keys -> Nat]
ASSUME SizeIsPositive == InitialSize \in Nat \ {0}
ASSUME NoPackageIsNoPackage == NoPackage \notin Packages
ASSUME FewCollisions ==
    /\ OverlapRange \in Nat \ {0}
    /\ \A k \in Keys :
         /\ IsFiniteSet({j \in Keys : Hash[j] = Hash[k]})
         /\ Cardinality({j \in Keys : Hash[j] = Hash[k]}) <= OverlapRange

VARIABLES
    size, nodes, refs, held, freed,     \* of the table, as in LUT
    key,        \* Package.key of each object, NoKey if it is not allocated
    id,         \* Package.package_id
    lists,      \* Package.ebuilds, from newest to oldest
    added,      \* its ebuilds in the order in which they were added
    owned,      \* the packages that Python code has a reference to
    loads,      \* how many Ebuild objects were made of each file
    scan        \* the files initialize_repository has yet to read

table == <<size, nodes, refs, held, freed>>
objects == <<key, id, lists, added, owned, loads>>
vars == <<table, objects, scan>>

Table == INSTANCE LUT WITH Data <- Packages, NoData <- NoPackage

\* The operators of depend.y; the words of names, and of versions.
ASSUME AtomsAreAtoms == Atoms \subseteq [version : Versions, range : Operators]
ASSUME NamesAreTexts == Keys \subseteq Texts \ {<<>>}
ASSUME VersionsAreVersions ==
    \A v \in VersionTexts : v \in Texts \ {<<>>} /\ LooksLikeVersion(v, 1)

Unallocated == {p \in Packages : key[p] = NoKey}
Stored == {nodes[i].data : i \in DOMAIN nodes}
Made == UNION {{<<f, n>> : n \in 1..loads[f]} : f \in Files}

Init ==
    /\ Table!Init
    /\ key = [p \in Packages |-> NoKey]
    /\ id = [p \in Packages |-> Table!NoId]
    /\ lists = [p \in Packages |-> <<>>] /\ added = lists
    /\ owned = {}
    /\ loads = [f \in Files |-> 0]
    /\ scan = NoScan

----------------------------------------------------------------------------
(* Deallocation, when the last reference to a package goes *)

\* The package and what only it held: PyPackage_dealloc, PyEbuild_dealloc.
Deallocate(gone, ids) ==
    /\ key' = [p \in Packages |-> IF p \in gone THEN NoKey ELSE key[p]]
    /\ id' = [p \in Packages |-> IF p \in gone THEN Table!NoId ELSE ids[p]]
    /\ lists' = [p \in Packages |-> IF p \in gone THEN <<>> ELSE lists[p]]
    /\ added' = [p \in Packages |-> IF p \in gone THEN <<>> ELSE added[p]]

\* Packages that neither the table nor Python code refers to any more.
Unreferenced(owners) ==
    {p \in Packages : key[p] # NoKey /\ refs'[p] = 0 /\ p \notin owners}

----------------------------------------------------------------------------
(* Python code *)

\* Package(key)
NewPackage(p, k) ==
    /\ scan = NoScan /\ p \in Unallocated /\ Cardinality(owned) < MaxOwned
    /\ key' = [key EXCEPT ![p] = k]
    /\ owned' = owned \cup {p}
    /\ UNCHANGED <<table, id, lists, added, loads, scan>>

\* The reference that get_package or Package() returned is given back.
Release(p) ==
    /\ scan = NoScan /\ p \in owned
    /\ owned' = owned \ {p}
    /\ UNCHANGED <<table, loads, scan>>
    /\ Deallocate(Unreferenced(owned \ {p}), id)

\* get_package of the package_id of a package in the table
GetPackage(p) ==
    /\ scan = NoScan /\ p \in Stored /\ Cardinality(owned) < MaxOwned
    /\ owned' = owned \cup {Table!Get(id[p])}
    /\ UNCHANGED <<table, key, id, lists, added, loads, scan>>

\* Atom(text), kept by the caller
ParseAtom(k) == scan = NoScan /\ Table!Lookup(k) /\ UNCHANGED <<objects, scan>>

\* Portage.add_package: what was under the key is let go of.
AddPackage(p) ==
    /\ scan = NoScan /\ p \in owned
    /\ Table!InsertNew(key[p], p) \/ Table!InsertExisting(key[p], p)
    /\ Deallocate(Unreferenced(owned), [id EXCEPT ![p] = Table!IdOf(key[p])])
    /\ UNCHANGED <<owned, loads, scan>>

\* e is the next Ebuild object made of its file.
Makes(e) ==
    /\ e \in Ebuilds \ Made /\ e[2] = loads[e[1]] + 1
    /\ Cardinality(Made) < MaxEbuilds
    /\ loads' = [loads EXCEPT ![e[1]] = e[2]]

\* Package.add_ebuild(Ebuild(...)) of an ebuild of that package
AddEbuild(p, e) ==
    /\ scan = NoScan /\ p \in owned /\ key[p] = KeyOf(e)
    /\ Makes(e)
    /\ lists' = [lists EXCEPT ![p] = Inserted(lists[p], e)]
    /\ added' = [added EXCEPT ![p] = Append(@, e)]
    /\ UNCHANGED <<table, key, id, owned, scan>>

\* cportage.init(Portage()): the table starts anew, the old one is freed.
Reset ==
    /\ scan = NoScan
    /\ size' = InitialSize /\ nodes' = <<>> /\ UNCHANGED freed
    /\ refs' = [p \in Packages |-> 0]
    /\ held' = IF held = NoHolder THEN held ELSE [held EXCEPT !.exists = FALSE]
    /\ Deallocate(Unreferenced(owned), id)
    /\ UNCHANGED <<owned, loads, scan>>

----------------------------------------------------------------------------
(* Portage.initialize_repository *)

\* With a path of the repository every ebuild needs its .ebuild file.
StartScan(repository, sources) ==
    /\ scan = NoScan /\ Cardinality(Made) < MaxEbuilds
    /\ scan' = [left |-> repository, loaded |-> {},
                refused |-> IF sources THEN repository \cap NoSource ELSE {}]
    /\ UNCHANGED <<table, objects>>

Loads(e) ==
    /\ scan # NoScan /\ e[1] \in scan.left \ scan.refused
    /\ Makes(e)
    /\ scan' = [scan EXCEPT !.left = @ \ {e[1]}, !.loaded = @ \cup {e}]

\* Mutant: the package's identifier is its hash alone.
LoadNewStaleId(e, p) ==
    /\ Loads(e) /\ p \in Unallocated
    /\ Table!InsertNew(KeyOf(e), p)
    /\ key' = [key EXCEPT ![p] = KeyOf(e)]
    /\ id' = [id EXCEPT ![p] = [Table!IdOf(KeyOf(e)) EXCEPT !.overlap = 0]]
    /\ lists' = [lists EXCEPT ![p] = <<e>>]
    /\ added' = [added EXCEPT ![p] = <<e>>]
    /\ UNCHANGED owned

\* The first ebuild of a key: its package is made under the identifier that
\* the ebuild's atom was given.
LoadNew(e, p) ==
    /\ Loads(e) /\ p \in Unallocated
    /\ Table!InsertNew(KeyOf(e), p)
    /\ key' = [key EXCEPT ![p] = KeyOf(e)]
    /\ id' = [id EXCEPT ![p] = Table!IdOf(KeyOf(e))]
    /\ lists' = [lists EXCEPT ![p] = <<e>>]
    /\ added' = [added EXCEPT ![p] = <<e>>]
    /\ UNCHANGED owned

LoadExisting(e) ==
    /\ Loads(e)
    /\ Table!Exists(KeyOf(e))
    /\ \E p \in {Table!Get(Table!IdOf(KeyOf(e)))} :
         /\ lists' = [lists EXCEPT ![p] = Inserted(lists[p], e)]
         /\ added' = [added EXCEPT ![p] = Append(@, e)]
    /\ UNCHANGED <<table, key, id, owned>>

\* The call ends, at the end of the directory or with a RuntimeError at the
\* first ebuild that ebuild_init refuses.  What was loaded stays.
EndScan ==
    /\ scan # NoScan /\ (scan.left = {} \/ scan.left \cap scan.refused # {})
    /\ scan' = NoScan
    /\ UNCHANGED <<table, objects>>

\* Portage.match_atom of the atom that is kept: a KeyError (NoPackage) if its
\* identifier leads nowhere.
MatchHeld(a) ==
    LET p == Table!Get(held.id) IN
    IF p = NoPackage THEN NoPackage ELSE MatchAtom(lists[p], a)

----------------------------------------------------------------------------
Next ==
    \/ \E p \in Packages :
         \/ \E k \in Keys : NewPackage(p, k)
         \/ \E e \in Ebuilds : AddEbuild(p, e) \/ LoadNew(e, p)
         \/ Release(p) \/ GetPackage(p) \/ AddPackage(p)
    \/ \E e \in Ebuilds : LoadExisting(e)
    \/ \E k \in AtomKeys : ParseAtom(k)
    \/ \E r \in Repositories, sources \in BOOLEAN : StartScan(r, sources)
    \/ Reset \/ EndScan

Spec == Init /\ [][Next]_vars

----------------------------------------------------------------------------
TypeOK ==
    /\ Table!TypeOK
    /\ key \in [Packages -> Keys \cup {NoKey}]
    /\ \A p \in Packages : HoldsAll(lists[p], added[p])
    /\ owned \subseteq Packages
    /\ loads \in [Files -> 0..MaxLoads]
    /\ scan = NoScan \/ scan.left \subseteq Files

\* A package exists as long as the table or Python code refers to it and no
\* longer: none is freed under the table when it is replaced, when the table
\* grows or when the scan gives back its own reference, and none leaks.
PackagesLive ==
    /\ Stored \cup owned = Packages \ Unallocated
    /\ Table!RefsExact

\* package_id leads to the package, and what is found under a key is a
\* package of that key which holds ebuilds of that key only.
FoundById ==
    \A i \in DOMAIN nodes : \A p \in {nodes[i].data} :
        /\ key[p] = nodes[i].key /\ Table!Get(id[p]) = p
        /\ \A e \in Elements(lists[p]) : KeyOf(e) = key[p]

\* No ebuild is in two packages, and those of a call can be found under
\* their keys, however often repositories were loaded before, whole or in
\* part, and whatever packages Python code has put in place of others.
LoadedIsFound ==
    /\ \A p, q \in Packages : Elements(lists[p]) \cap Elements(lists[q]) # {} => p = q
    /\ scan # NoScan => \A e \in scan.loaded :
         Table!Exists(KeyOf(e)) /\ e \in Elements(lists[Table!Get(Table!IdOf(KeyOf(e)))])

\* Whatever order the directories list their files in, the list of a package
\* goes from newest to oldest, and of one version the ebuild of the
\* repository that was loaded first comes first.
Sorted == \A p \in Packages : StablySorted(lists[p], added[p])

\* Portage.match_atom chooses what atom.matches accepts and no ebuild that it
\* accepts is newer; without = or ~ it finds an ebuild if there is one.
BestMatch == \A p \in Stored : MatchesBest(lists[p])

\* match_atom of an atom that was parsed while its package was there gives
\* ebuilds of its key only; the identifier of one that was parsed before, or
\* for another Portage, leads to no other key but one of the same hash.
AtomLeadsToKey ==
    /\ Table!HeldStaysValid
    /\ held # NoHolder /\ held.exists => \A a \in Atoms :
         \A e \in {MatchHeld(a)} \ {NoEbuild} : e \in Ebuilds /\ KeyOf(e) = held.key

\* The texts of atoms of a package that Python code knows, with a version or
\* without one, are taken apart at the right dash: they are of that package.
NamesTakenApart == TakenApart({key[p] : p \in owned}, VersionTexts)
=============================================================================
