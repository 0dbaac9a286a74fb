---------------------------- MODULE RequiredUse ----------------------------
(***************************************************************************)
(* REQUIRED_USE of an ebuild: how requireduse.y and use.c of cportage make *)
(* a linked list of RequiredUse objects of its text, and how               *)
(* RequiredUseHook.run_hook of portage/resolve.py evaluates the list.      *)
(*                                                                         *)
(* A text is a sequence of terms,                                          *)
(*   [op |-> "on" or "off", name |-> a flag, body |-> terms, or <<>>]      *)
(*   [op |-> "some", "one", "most" or "group", body |-> terms]             *)
(* for name, !name, name? ( ), || ( ), ^^ ( ), ?? ( ) and ( ).  A list is  *)
(* the sequence of its objects, with body for depend; NULL is <<>>.  What  *)
(* the code does by recursion into depend is a function at every level of  *)
(* nesting, from that at the level below.                                  *)
(***************************************************************************)
EXTENDS Naturals, Sequences, FiniteSets

CONSTANTS
    Names,          \* names of flags, and one for the terms without
    Depth           \* bound on the nesting of terms

ASSUME DepthAssumption == Depth \in Nat

Operators == {"on", "off", "some", "one", "most", "group"}

IsFlag(term) == term.op \in {"on", "off"}

\* The terms of at most n levels; only a flag has an empty body.
Level[n \in 0..Depth] ==
    IF n = 0 THEN {}
    ELSE {term \in [op : Operators, name : Names, body : Seq(Level[n - 1])] :
             IsFlag(term) \/ term.body # <<>>}

Texts == Seq(Level[Depth])

----------------------------------------------------------------------------
\* required_use_expr: next of the first object of a term is the rest, what
\* followed it in a group is lost.
Linked(nodes, text) ==
    IF text = <<>> THEN <<>>
    ELSE [i \in 1..(Len(text) - 1) |-> nodes[text[i]][1]] \o nodes[text[Len(text)]]

\* required_use_single: a group is the list of its terms.
NodesAt[n \in 0..Depth] ==
    [term \in Level[n] |->
        IF term.op = "group" THEN Linked(NodesAt[n - 1], term.body)
        ELSE <<[term EXCEPT !.body = Linked(NodesAt[n - 1], term.body)]>>]

Parsed(text) == Linked(NodesAt[Depth], text)

----------------------------------------------------------------------------
\* Of how many terms, or objects, of a sequence something is true.
Number(true, text) == Cardinality({i \in DOMAIN text : true[text[i]]})

\* Mutant: at least one is enough where exactly one is required.
CountsSome(node, state, k, n) ==
    \/ IsFlag(node) /\ state[node.name] = (node.op = "on") /\ k = n
    \/ node.op \in {"some", "one"} /\ k >= 1
    \/ node.op = "most" /\ k <= 1

\* Whether an object counts, of whose depend k of n objects do: a condition
\* that is off does not.
Counts(node, state, k, n) ==
    \/ IsFlag(node) /\ state[node.name] = (node.op = "on") /\ k = n
    \/ node.op = "some" /\ k >= 1
    \/ node.op = "one" /\ k = 1
    \/ node.op = "most" /\ k <= 1

\* evaluate_required_use: which objects count.
Counted(state) ==
    LET at[n \in 0..Depth] ==
            [node \in Level[n] |->
                Counts(node, state, Number(at[n - 1], node.body), Len(node.body))]
    IN  at[Depth]

\* run_hook raises unless every one does.
Accepted(nodes, state) == Number(Counted(state), nodes) = Len(nodes)

----------------------------------------------------------------------------
(* What the text means (Package Manager Specification) *)

\* Whether a term holds, of whose body k of n terms do.
Holds(term, state, k, n) ==
    \/ IsFlag(term) /\ term.body = <<>> /\ state[term.name] = (term.op = "on")
    \/ IsFlag(term) /\ term.body # <<>> /\ (state[term.name] = (term.op = "on") => k = n)
    \/ term.op = "some" /\ k >= 1
    \/ term.op = "one" /\ k = 1
    \/ term.op = "most" /\ k <= 1
    \/ term.op = "group" /\ k = n

Holding(state) ==
    LET at[n \in 0..Depth] ==
            [term \in Level[n] |->
                Holds(term, state, Number(at[n - 1], term.body), Len(term.body))]
    IN  at[Depth]

Means(text, state) == Number(Holding(state), text) = Len(text)

\* A term and those of its body, and of theirs.
Within[n \in 0..Depth] ==
    [term \in Level[n] |->
        {term} \cup UNION {Within[n - 1][term.body[i]] : i \in DOMAIN term.body}]

Terms(text) == UNION {Within[Depth][text[i]] : i \in DOMAIN text}

IsCondition(term) == IsFlag(term) /\ term.body # <<>>
HasGroups(text) == \E t \in Terms(text) : t.op = "group"
HasConditions(text) == \E t \in Terms(text) : IsCondition(t)

\* Conditions within ^^ or ??, where one more that holds is one too many.
CountsConditions(text) ==
    \E t \in Terms(text) : t.op \in {"one", "most"} /\ HasConditions(t.body)
=============================================================================
