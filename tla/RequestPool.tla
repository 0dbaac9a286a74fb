---------------------------- MODULE RequestPool ----------------------------
(***************************************************************************)
(* What the server of autogentoo/network promises to its clients, without  *)
(* threads, locks or sockets: requests are taken in the order in which     *)
(* they arrive, each at most once and no more than Capacity at a time, are *)
(* answered at most once while they are being served, and are finished     *)
(* only after they were answered.  TCPServer implements it.                *)
(***************************************************************************)
EXTENDS Naturals, Sequences, FiniteSets

CONSTANTS Requests, Capacity, Answers, NoAnswer

VARIABLES
    pending,    \* requests that wait, in the order of arrival
    busy,       \* requests being served
    answer,     \* what each client was told
    finished    \* requests that are over

vars == <<pending, busy, answer, finished>>

Fresh(c) ==
    c \notin busy \cup finished /\ \A i \in DOMAIN pending : pending[i] # c

Init ==
    /\ pending = <<>>
    /\ busy = {}
    /\ answer = [c \in Requests |-> NoAnswer]
    /\ finished = {}

Submit(c) ==
    /\ Fresh(c)
    /\ pending' = Append(pending, c)
    /\ UNCHANGED <<busy, answer, finished>>

Take ==
    /\ pending # <<>>
    /\ Cardinality(busy) < Capacity
    /\ busy' = busy \cup {Head(pending)}
    /\ pending' = Tail(pending)
    /\ UNCHANGED <<answer, finished>>

Reply(c, a) ==
    /\ c \in busy
    /\ answer[c] = NoAnswer
    /\ answer' = [answer EXCEPT ![c] = a]
    /\ UNCHANGED <<pending, busy, finished>>

Finish(c) ==
    /\ c \in busy
    /\ answer[c] # NoAnswer
    /\ busy' = busy \ {c}
    /\ finished' = finished \cup {c}
    /\ UNCHANGED <<pending, answer>>

Next ==
    \/ Take
    \/ \E c \in Requests :
         Submit(c) \/ Finish(c) \/ \E a \in Answers \ {NoAnswer} : Reply(c, a)

Spec == Init /\ [][Next]_vars
=============================================================================
