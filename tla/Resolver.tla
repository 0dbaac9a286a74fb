------------------------------ MODULE Resolver ------------------------------
(***************************************************************************)
(* The dependency resolver of autogentoo/portage/resolve.py: which ebuild  *)
(* is selected for each atom, how the dependencies of a selected ebuild    *)
(* are generated and resolved, and what is left when one of them raises.   *)
(*                                                                         *)
(* SelectedEbuild.regenerate calls get_resolved of its dependencies, which *)
(* calls their regenerate.  These calls are a stack of frames; a step is   *)
(* one turn of one of its loops.  The expressions of DEPEND and the like   *)
(* are parsed elsewhere: an ebuild has a sequence of dependencies, in the  *)
(* order BDEPEND, DEPEND, RDEPEND, PDEPEND of regenerate.                  *)
(*                                                                         *)
(* Every exception (KeyError, ResolutionException, RequiredUseException,   *)
(* NotImplementedError, AttributeError...) unwinds the whole stack and is  *)
(* one outcome here, "raised".                                             *)
(***************************************************************************)
EXTENDS Naturals, Sequences, FiniteSets

CONSTANTS
    Packages,       \* the packages Portage.match_atom finds by their key
    Listing,        \* the ebuilds of each from newest to oldest
    SlotOf,         \* SLOT of each ebuild
    IUse,           \* its use flags, with the default of each
    Required,       \* the sets of flags that its REQUIRED_USE allows, {} if none
    Damaged,        \* the ebuilds whose metadata has a syntax error in DEPEND
    Requests,       \* the atoms the user asks for
    Repositories,   \* what the dependencies of each ebuild may be
    Earlier,        \* what may have been read before the first Emerge
    NoEbuild, NoSlot,
    MaxRequests,    \* bound on the requests of a behaviour
    MaxSessions     \* bound on the resets of the Emerge object or its session

Ebuilds == UNION {{Listing[p][i] : i \in DOMAIN Listing[p]} : p \in Packages}

ASSUME EveryEbuildOnce ==
    \A p, q \in Packages : \A i \in DOMAIN Listing[p], j \in DOMAIN Listing[q] :
        Listing[p][i] = Listing[q][j] => p = q /\ i = j

IsSequence(s) == Len(s) \in Nat /\ DOMAIN s = 1..Len(s)

\* An atom: its package, the ebuilds that atom.matches accepts, the one that
\* Portage.match_atom returns, its use flags and whether it is a blocker.  What
\* match_atom returns is the first of the list that is matched (the walk of
\* MatchAtom in EbuildList, and BestMatch of Portage).
IsAtom(a) ==
    /\ IsSequence(a.use)
    /\ a.chosen \in (a.matches \cap Ebuilds) \cup {NoEbuild}
    /\ a.pkg \in Packages /\ a.chosen # NoEbuild =>
         \E i \in DOMAIN Listing[a.pkg] :
             /\ a.chosen = Listing[a.pkg][i]
             /\ \A j \in 1..(i - 1) : Listing[a.pkg][j] \notin a.matches

ASSUME ListingsAreSequences == \A p \in Packages : IsSequence(Listing[p])
\* metadata that were read have a SLOT
ASSUME SlotsAreNames == \A e \in Ebuilds : SlotOf[e] # NoSlot
ASSUME EarlierAreEbuilds == \A S \in Earlier : S \subseteq Ebuilds
ASSUME RequestsAreAtoms == \A a \in Requests : IsAtom(a)
ASSUME DependenciesAreAtoms ==
    \A d \in Repositories : \A e \in Ebuilds :
        /\ IsSequence(d[e])
        /\ \A k \in DOMAIN d[e] : d[e][k].kind = "atom" => IsAtom(d[e][k].atom)

VARIABLES
    deps,       \* the dependencies of each ebuild, never changed
    read,       \* ebuilds whose cache file was read: slot and iuse are set
    sels,       \* the SelectedEbuild objects of this Emerge
    tree,       \* their generators, and what these were resolved to
    slots,      \* selected_ebuild_slots of each package, in dict order
    blocks,     \* Emerge.blocks
    session,    \* PackageResolutionSession.current_resolution
    stack,      \* calls of regenerate that have not returned
    status,     \* "idle", "running" or "hung"
    returned,   \* the selection of the last request that returned, else 0
    raised,     \* some request to this Emerge raised
    requests, sessions      \* counters for the bounds

emerge == <<sels, tree, slots, blocks>>
counters == <<requests, sessions>>
vars == <<deps, read, emerge, session, stack, status, returned, raised,
          counters>>

Init ==
    /\ deps \in Repositories
    /\ read \in Earlier
    /\ sels = <<>>
    /\ tree = <<>>
    /\ slots = [p \in Packages |-> <<>>]
    /\ blocks = {}
    /\ session = {}
    /\ stack = <<>>
    /\ status = "idle"
    /\ returned = 0
    /\ raised = FALSE
    /\ requests = 0
    /\ sessions = 0

----------------------------------------------------------------------------
(* Use flags of a selected ebuild s: has_use, get_use *)

NoFlags == [f \in {} |-> FALSE]

\* Ebuild.iuse is empty until the metadata is read.
IUseOf(e) == IF e \in read THEN IUse[e] ELSE NoFlags

HasUse(s, f) == f \in DOMAIN s.use \cup DOMAIN IUseOf(s.ebuild)

UseState(s, f) == IF f \in DOMAIN s.use THEN s.use[f] ELSE IUseOf(s.ebuild)[f]

WithUse(s, f, state) ==
    [s EXCEPT !.use = [g \in DOMAIN s.use \cup {f} |-> IF g = f THEN state ELSE s.use[g]]]

\* RequiredUseHook.run_hook for the expression of ebuild e
Satisfies(s, e) ==
    /\ \A f \in DOMAIN IUse[e] : HasUse(s, f)
    /\ {f \in DOMAIN IUse[e] : UseState(s, f)} \in Required[e]

Result(s, ok) == [sel |-> s, ok |-> ok]

\* add_use_requirement: the constructor of UseSelection schedules the flag,
\* the hook is added, then run against the state the flag has now.
Enforces(option, state) ==
    \/ option \in {"enable", "disable", "equal", "opposite"}
    \/ option = "enable_if_on" /\ state
    \/ option = "disable_if_off" /\ ~state

Target(option, state) ==
    CASE option = "enable" -> TRUE
      [] option = "disable" -> FALSE
      [] option = "opposite" -> ~state
      [] OTHER -> state

\* Mutant: a requirement is scheduled and not held against the present state.
RequireLater(s, f, option) ==
    LET target == Target(option, UseState(s, f)) IN
    Result([s EXCEPT !.queue = Append(@, [flag |-> f, state |-> target]),
                     !.dirty = TRUE,
                     !.hooks = Append(@, [flag |-> f, state |-> target])], TRUE)

Require(s, f, option) ==
    LET state == UseState(s, f)
        hook == [flag |-> f, state |-> Target(option, state)]
        scheduled == IF option \in {"enable", "disable", "opposite"}
                     THEN [s EXCEPT !.queue = Append(@, hook), !.dirty = TRUE]
                     ELSE s
    IN  IF Enforces(option, state)
        THEN Result([scheduled EXCEPT !.hooks = Append(@, hook)], hook.state = state)
        ELSE Result(scheduled, TRUE)

\* One flag of an atom in resolve_single.  A flag that the ebuild lacks (or
\* whose metadata was not read yet) takes the atom's default, which AtomFlag
\* reads from the option: [x] has the default +, [x?] the default -, [-x]
\* none (KeyError) and the others no valid one (ValueError).
ApplyUse(acc, use) ==
    LET s == acc.sel
        f == use.flag
    IN  CASE ~acc.ok -> acc
          [] acc.ok /\ HasUse(s, f) -> Require(s, f, use.option)
          [] acc.ok /\ ~HasUse(s, f) /\ use.option = "enable" ->
                Require(WithUse(s, f, TRUE), f, "enable")
          [] acc.ok /\ ~HasUse(s, f) /\ use.option = "enable_if_on" ->
                Require(WithUse(s, f, FALSE), f, "disable")
          [] OTHER -> Result(s, FALSE)

\* The flags of an atom that chose s.
ApplyUses(s, uses) ==
    LET upTo[n \in 0..Len(uses)] ==
            IF n = 0 THEN Result(s, TRUE) ELSE ApplyUse(upTo[n - 1], uses[n])
    IN  upTo[Len(uses)]

\* One turn of the loop of flush_use.  An exception of a hook leaves the flag
\* changed and the rest of the queue.
FlushOne(acc, use) ==
    LET s == [acc.sel EXCEPT !.queue = Tail(@)]
        t == WithUse(s, use.flag, use.state)
    IN  CASE ~acc.ok -> acc
          [] acc.ok /\ ~HasUse(s, use.flag) -> Result(s, FALSE)
          [] acc.ok /\ HasUse(s, use.flag) /\ UseState(s, use.flag) = use.state ->
                Result(s, TRUE)
          [] OTHER ->
                Result(t, /\ \A i \in DOMAIN t.hooks :
                                t.hooks[i].flag = use.flag => t.hooks[i].state = use.state
                          /\ \A i \in DOMAIN t.global : Satisfies(t, t.global[i]))

FlushUse(s) ==
    LET upTo[n \in 0..Len(s.queue)] ==
            IF n = 0 THEN Result(s, TRUE) ELSE FlushOne(upTo[n - 1], s.queue[n])
    IN  upTo[Len(s.queue)]

----------------------------------------------------------------------------
(* Selecting an ebuild: Emerge.select_atom, InstallPackage.match_atom *)

\* The key of a selection: Ebuild.slot is None until the metadata is read.
SlotNow(e) == IF e \in read THEN SlotOf[e] ELSE NoSlot

First(S) == CHOOSE i \in S : \A j \in S : i <= j

Selection(a) ==
    [pkg |-> a.pkg, ebuild |-> a.chosen, by |-> a, dirty |-> TRUE,
     use |-> NoFlags, queue |-> <<>>, hooks |-> <<>>, global |-> <<>>]

NoTree == [gens |-> <<>>, resolved |-> <<>>]

\* The selections of the atom's package that it matches, as slots of the dict.
MatchingSlots(a) ==
    {i \in DOMAIN slots[a.pkg] : sels[slots[a.pkg][i].sel].ebuild \in a.matches}

SameSlot(a) ==
    {i \in DOMAIN slots[a.pkg] : slots[a.pkg][i].slot = SlotOf[a.chosen]}

\* What select_atom does for an atom.  "nothing": match_atom runs off its end
\* for an ebuild whose slot is not known yet, and returns None.
Choice(a) ==
    CASE a.pkg \notin Packages \/ a.chosen = NoEbuild -> "raise"
      [] a.pkg \in Packages /\ a.chosen # NoEbuild ->
            CASE slots[a.pkg] = <<>> -> "add"
              [] slots[a.pkg] # <<>> /\ MatchingSlots(a) # {} -> "keep"
              [] slots[a.pkg] # <<>> /\ MatchingSlots(a) = {} ->
                    CASE a.chosen \notin read -> "nothing"
                      [] a.chosen \in read /\ SameSlot(a) = {} -> "add"
                      [] OTHER -> "change"

\* change_within_slot.  The iterator of a package never gives its newest
\* ebuild and gives the second newest for ever; only the atom that made the
\* selection decides whether an ebuild fits.
Change(s) ==
    LET all == Listing[s.pkg] IN
    IF Len(all) < 2 THEN "raise"
    ELSE IF all[2] \in s.by.matches THEN "change" ELSE "hang"

Changed(s) == [s EXCEPT !.ebuild = Listing[s.pkg][2], !.dirty = TRUE]

Answer(how, got, newSels, newTree, newSlots) ==
    [how |-> how, got |-> got, sels |-> newSels, tree |-> newTree, slots |-> newSlots]

Fails(how) == Answer(how, 0, sels, tree, slots)

Selected(a) ==
    LET choice == Choice(a)
        same == slots[a.pkg][First(SameSlot(a))].sel
        new == Len(sels) + 1
    IN  CASE choice = "keep" ->
                Answer("ok", slots[a.pkg][First(MatchingSlots(a))].sel, sels, tree, slots)
          [] choice = "add" ->
                Answer("ok", new, Append(sels, Selection(a)), Append(tree, NoTree),
                       [slots EXCEPT ![a.pkg] =
                            Append(@, [slot |-> SlotNow(a.chosen), sel |-> new])])
          [] choice = "change" /\ Change(sels[same]) = "change" ->
                Answer("ok", same, [sels EXCEPT ![same] = Changed(@)], tree, slots)
          [] choice = "change" /\ Change(sels[same]) = "hang" -> Fails("hang")
          [] choice = "nothing" /\ a.use = <<>> -> Fails("ok")
          [] OTHER -> Fails("raise")

\* resolve_single of an atom that is no blocker
Resolved(a) ==
    LET r == Selected(a) IN
    IF r.got = 0 THEN r
    ELSE LET used == ApplyUses(r.sels[r.got], a.use)
         IN  Answer(IF used.ok THEN "ok" ELSE "raise", r.got,
                    [r.sels EXCEPT ![r.got] = used.sel], r.tree, r.slots)

----------------------------------------------------------------------------
(* The stack *)

\* regenerate goes through the expressions of one ebuild, whatever the
\* selection is changed to meanwhile.
Frame(i) == [sel |-> i, phase |-> "begin", at |-> 1, ebuild |-> NoEbuild]

Top == stack[Len(stack)]
Below == SubSeq(stack, 1, Len(stack) - 1)
Self == sels[Top.sel]
Gens == tree[Top.sel].gens

InPhase(phase) == status = "running" /\ Top.phase = phase

\* An exception leaves every call.
Raise ==
    /\ stack' = <<>> /\ status' = "idle"
    /\ returned' = 0 /\ raised' = TRUE

Hang ==
    /\ status' = "hung"
    /\ UNCHANGED <<stack, returned, raised>>

----------------------------------------------------------------------------
(* Mutants: bugs a change of the code could introduce. *)

\* get_resolved regenerates before it adds to the session
DescendUnmarked(i, frames) ==
    /\ stack' = Append(frames, Frame(i))
    /\ UNCHANGED session

\* a dependency that is in the session already is left out
ChildLeftOut ==
    /\ InPhase("children") /\ Top.at <= Len(Gens)
    /\ Gens[Top.at] \in session
    /\ stack' = [stack EXCEPT ![Len(stack)].at = @ + 1]
    /\ UNCHANGED <<deps, read, emerge, session, status, returned, raised, counters>>

\* an ebuild of the session is not generated again
DepAtomOnce ==
    /\ InPhase("deps") /\ Top.at <= Len(deps[Top.ebuild])
    /\ LET d == deps[Top.ebuild][Top.at] IN
       /\ d.kind = "atom" /\ ~d.atom.blocks
       /\ LET r == Resolved(d.atom) IN
          /\ slots' = r.slots /\ sels' = r.sels
          /\ tree' = IF r.how # "ok" \/ r.got \in session \cup {0} THEN r.tree
                     ELSE [r.tree EXCEPT ![Top.sel].gens = Append(@, r.got)]
          /\ \/ r.how = "raise" /\ Raise
             \/ r.how = "hang" /\ Hang
             \/ /\ r.how = "ok" /\ UNCHANGED <<status, returned, raised>>
                /\ stack' = [stack EXCEPT ![Len(stack)].at = @ + 1]
    /\ UNCHANGED <<deps, read, blocks, session, counters>>

\* a dependency that is being resolved is waited for
ChildAwaited ==
    /\ InPhase("children") /\ Top.at <= Len(Gens)
    /\ Gens[Top.at] \in session
    /\ \A k \in DOMAIN stack : stack[k].sel # Gens[Top.at]
    /\ tree' = [tree EXCEPT ![Top.sel].resolved = Append(@, Gens[Top.at])]
    /\ stack' = [stack EXCEPT ![Len(stack)].at = @ + 1]
    /\ UNCHANGED <<deps, read, sels, slots, blocks, session, status, returned,
                   raised, counters>>

\* a new Emerge goes on with the old session
NewEmergeSameSession ==
    /\ status = "idle" /\ sessions < MaxSessions
    /\ sels' = <<>> /\ tree' = <<>> /\ slots' = [p \in Packages |-> <<>>] /\ blocks' = {}
    /\ returned' = 0 /\ raised' = FALSE
    /\ sessions' = sessions + 1
    /\ UNCHANGED <<deps, read, session, stack, status, requests>>

----------------------------------------------------------------------------
(* The user *)

\* get_resolved of an ebuild that is not in the session yet
Descend(i, frames) ==
    /\ stack' = Append(frames, Frame(i))
    /\ session' = session \cup {i}

\* for x in resolve_all(None, Dependency(...)): x.get_resolved()
Request(a) ==
    /\ status = "idle" /\ requests < MaxRequests
    /\ requests' = requests + 1
    /\ IF a.blocks
       THEN /\ blocks' = blocks \cup {a} /\ returned' = 0
            /\ UNCHANGED <<sels, tree, slots, session, stack, status, raised>>
       ELSE LET r == Resolved(a) IN
            /\ sels' = r.sels /\ tree' = r.tree /\ slots' = r.slots
            /\ UNCHANGED blocks
            /\ \/ r.how = "raise" /\ Raise /\ UNCHANGED session
               \/ r.how = "hang" /\ Hang /\ UNCHANGED session
               \/ /\ r.how = "ok" /\ (r.got = 0 \/ r.got \in session)
                  /\ returned' = r.got
                  /\ UNCHANGED <<session, stack, status, raised>>
               \/ /\ r.how = "ok" /\ r.got # 0 /\ r.got \notin session
                  /\ Descend(r.got, <<>>)
                  /\ status' = "running" /\ returned' = 0
                  /\ UNCHANGED raised
    /\ UNCHANGED <<deps, read, sessions>>

\* A new Emerge and a new session; the ebuilds keep what was read of them.
NewEmerge ==
    /\ status = "idle" /\ sessions < MaxSessions
    /\ sels' = <<>> /\ tree' = <<>> /\ slots' = [p \in Packages |-> <<>>] /\ blocks' = {}
    /\ session' = {} /\ returned' = 0 /\ raised' = FALSE
    /\ sessions' = sessions + 1
    /\ UNCHANGED <<deps, read, stack, status, requests>>

\* PackageResolutionSession.clear
ClearSession ==
    /\ status = "idle" /\ sessions < MaxSessions
    /\ session' = {} /\ returned' = 0
    /\ sessions' = sessions + 1
    /\ UNCHANGED <<deps, read, emerge, stack, status, raised, requests>>

----------------------------------------------------------------------------
(* regenerate *)

\* A clean selection goes straight to its children.  A dirty one forgets its
\* generators, reads the metadata (which raises if they are damaged), and
\* applies the scheduled flags and the REQUIRED_USE hook.
Begin ==
    /\ InPhase("begin")
    /\ IF ~Self.dirty
       THEN /\ tree' = [tree EXCEPT ![Top.sel].resolved = <<>>]
            /\ stack' = [stack EXCEPT ![Len(stack)].phase = "children"]
            /\ UNCHANGED <<read, status, returned, raised>>
       ELSE /\ read' = read \cup {Self.ebuild}
            /\ tree' = [tree EXCEPT ![Top.sel].gens = <<>>]
            /\ IF Self.ebuild \in Damaged THEN Raise
               ELSE /\ stack' = [stack EXCEPT ![Len(stack)].phase = "flush"]
                    /\ UNCHANGED <<status, returned, raised>>
    /\ UNCHANGED <<deps, sels, slots, blocks, session, counters>>

Flush ==
    /\ InPhase("flush")
    /\ LET r == FlushUse(Self)
           hooked == IF Required[r.sel.ebuild] = {} THEN r.sel
                     ELSE [r.sel EXCEPT !.global = Append(@, r.sel.ebuild)]
       IN  IF ~r.ok THEN sels' = [sels EXCEPT ![Top.sel] = r.sel] /\ Raise
           ELSE /\ sels' = [sels EXCEPT ![Top.sel] = hooked]
                /\ IF Required[hooked.ebuild] = {} \/ Satisfies(hooked, hooked.ebuild)
                   THEN /\ stack' = [stack EXCEPT ![Len(stack)].phase = "deps",
                                                  ![Len(stack)].ebuild = hooked.ebuild]
                        /\ UNCHANGED <<status, returned, raised>>
                   ELSE Raise
    /\ UNCHANGED <<deps, read, tree, slots, blocks, session, counters>>

Advance == stack' = [stack EXCEPT ![Len(stack)].at = @ + 1]

MoreDeps == InPhase("deps") /\ Top.at <= Len(deps[Top.ebuild])
Dep == deps[Top.ebuild][Top.at]

\* A dependency on an atom: what resolve_single returns is a generator.
DepAtom ==
    /\ MoreDeps /\ Dep.kind = "atom" /\ ~Dep.atom.blocks
    /\ LET r == Resolved(Dep.atom) IN
       /\ slots' = r.slots /\ sels' = r.sels
       /\ tree' = IF r.how # "ok" \/ r.got = 0 THEN r.tree
                  ELSE [r.tree EXCEPT ![Top.sel].gens = Append(@, r.got)]
       /\ \/ r.how = "raise" /\ Raise
          \/ r.how = "hang" /\ Hang
          \/ r.how = "ok" /\ Advance /\ UNCHANGED <<status, returned, raised>>
    /\ UNCHANGED <<deps, read, blocks, session, counters>>

DepBlock ==
    /\ MoreDeps /\ Dep.kind = "atom" /\ Dep.atom.blocks
    /\ blocks' = blocks \cup {Dep.atom}
    /\ Advance
    /\ UNCHANGED <<deps, read, sels, tree, slots, session, status, returned, raised, counters>>

\* flag? ( ... ): a hook that resolves nothing, and a KeyError if the ebuild
\* does not have the flag.
DepConditional ==
    /\ MoreDeps /\ Dep.kind = "use"
    /\ IF HasUse(Self, Dep.flag)
       THEN Advance /\ UNCHANGED <<status, returned, raised>>
       ELSE Raise
    /\ UNCHANGED <<deps, read, emerge, session, counters>>

\* || ( ... ) and the like: a warning
DepGroup ==
    /\ MoreDeps /\ Dep.kind = "group"
    /\ Advance
    /\ UNCHANGED <<deps, read, emerge, session, status, returned, raised, counters>>

\* The generators are complete.  Whatever was scheduled meanwhile, the
\* selection is clean.
DepsDone ==
    /\ InPhase("deps") /\ Top.at > Len(deps[Top.ebuild])
    /\ sels' = [sels EXCEPT ![Top.sel].dirty = FALSE]
    /\ tree' = [tree EXCEPT ![Top.sel].resolved = <<>>]
    /\ stack' = [stack EXCEPT ![Len(stack)].phase = "children", ![Len(stack)].at = 1]
    /\ UNCHANGED <<deps, read, slots, blocks, session, status, returned, raised, counters>>

MoreChildren == InPhase("children") /\ Top.at <= Len(Gens)
Child == Gens[Top.at]

\* The child is in the session, because it was there or has just returned.
ChildResolved ==
    /\ MoreChildren /\ Child \in session
    /\ tree' = [tree EXCEPT ![Top.sel].resolved = Append(@, Child)]
    /\ Advance
    /\ UNCHANGED <<deps, read, sels, slots, blocks, session, status, returned, raised, counters>>

ChildDescend ==
    /\ MoreChildren /\ Child \notin session
    /\ Descend(Child, stack)
    /\ UNCHANGED <<deps, read, emerge, status, returned, raised, counters>>

Return ==
    /\ InPhase("children") /\ Top.at > Len(Gens)
    /\ stack' = Below
    /\ IF Below = <<>> THEN status' = "idle" /\ returned' = Top.sel
       ELSE UNCHANGED <<status, returned>>
    /\ UNCHANGED <<deps, read, emerge, session, raised, counters>>

----------------------------------------------------------------------------
User == NewEmerge \/ ClearSession \/ \E a \in Requests : Request(a)

Regenerate ==
    \/ Begin \/ Flush \/ DepAtom \/ DepBlock \/ DepConditional \/ DepGroup
    \/ DepsDone \/ ChildResolved \/ ChildDescend \/ Return

Next == User \/ Regenerate

\* Python runs a call to its end: no step of it is put off for ever.
Spec == Init /\ [][Next]_vars /\ WF_vars(Regenerate)

----------------------------------------------------------------------------
Sels == DOMAIN sels
OnStack == {stack[k].sel : k \in DOMAIN stack}

TypeOK ==
    /\ read \subseteq Ebuilds
    /\ \A i \in Sels :
         /\ sels[i].ebuild \in Ebuilds /\ sels[i].dirty \in BOOLEAN
         /\ tree[i].gens \in Seq(Sels) /\ tree[i].resolved \in Seq(Sels)
    /\ DOMAIN tree = Sels
    /\ \A p \in Packages : \A k \in DOMAIN slots[p] :
         slots[p][k].sel \in Sels /\ sels[slots[p][k].sel].pkg = p
    /\ session \subseteq Sels
    /\ \A k \in DOMAIN stack : stack[k].sel \in Sels
    /\ status \in {"idle", "running", "hung"}
    /\ returned \in Sels \cup {0}

\* The calls of regenerate that are under way are a path through the graph
\* of dependencies that visits no ebuild twice: cycles in it end.
StackIsPath ==
    /\ status = "running" <=> stack # <<>> /\ status # "hung"
    /\ OnStack \subseteq session
    /\ \A j, k \in DOMAIN stack : stack[j].sel = stack[k].sel => j = k
    /\ \A k \in DOMAIN stack \ {Len(stack)} :
         /\ stack[k].phase = "children"
         /\ stack[k + 1].sel = tree[stack[k].sel].gens[stack[k].at]

\* As long as nothing was raised, every ebuild that get_resolved has given
\* back has all its dependencies resolved in the same session, and so have
\* these: what is reached from a request is closed.
FinishedIsClosed ==
    ~raised => \A i \in session \ OnStack :
        /\ tree[i].resolved = tree[i].gens
        /\ \A k \in DOMAIN tree[i].gens : tree[i].gens[k] \in session

\* A selection whose ebuild is the one its first atom chose.
Unchanged(i) == sels[i].ebuild = sels[i].by.chosen

\* The package was selected first in a version that the atom does not match:
\* then match_atom returns None if it has not read the slot of the version
\* that would.
OtherVersion(a) ==
    /\ a.pkg \in Packages /\ slots[a.pkg] # <<>>
    /\ sels[slots[a.pkg][1].sel].by.chosen \notin a.matches

AtomDeps(e) ==
    {deps[e][k].atom : k \in {k \in DOMAIN deps[e] : deps[e][k].kind = "atom"}}

Met(i, a) ==
    \E k \in DOMAIN tree[i].gens :
        LET g == tree[i].gens[k] IN
        sels[g].pkg = a.pkg /\ (Unchanged(g) => sels[g].ebuild \in a.matches)

\* As long as nothing was raised, a resolved ebuild has a selection that
\* matches each atom it depends on, unless the package was selected before in
\* another version, or the selection was changed for another atom.
DependenciesMet ==
    ~raised => \A i \in session \ OnStack : Unchanged(i) =>
        \A a \in AtomDeps(sels[i].ebuild) :
            ~a.blocks => Met(i, a) \/ OtherVersion(a)

\* As long as nothing was raised, no selection is in a state that one of the
\* atoms that chose it, or its REQUIRED_USE, forbids: parents that disagree
\* on a flag are not both satisfied silently.
UseRequirementsKept ==
    ~raised => \A i \in Sels : Unchanged(i) =>
        /\ \A k \in DOMAIN sels[i].hooks :
             LET h == sels[i].hooks[k] IN
             HasUse(sels[i], h.flag) /\ UseState(sels[i], h.flag) = h.state
        /\ \A k \in DOMAIN sels[i].global : Satisfies(sels[i], sels[i].global[k])

\* Every request returns, raises, or meets the endless iteration of
\* change_within_slot, whatever cycles the dependencies have.
RequestEnds == status = "running" ~> status # "running"

----------------------------------------------------------------------------
(* What comments and tests say of the resolver, and the code does not do. *)

\* "we will see an error when we try to resolve the first atom"
\* (portage_test.py:38): a request whose dependencies cannot be resolved
\* does not return.  The second try of such a request does: the ebuild was
\* left in the session, and get_resolved takes it for resolved.
ReturnedIsComplete ==
    returned # 0 => \A a \in AtomDeps(sels[returned].ebuild) :
        Unchanged(returned) /\ ~a.blocks => Met(returned, a) \/ OtherVersion(a)
=============================================================================
