------------------------------- MODULE Deque -------------------------------
(* What hacksaw's queue and stack promise: a sequence that grows at either *)
(* end and is taken from its front.                                        *)
EXTENDS Sequences

CONSTANT Objects
VARIABLE items

Init == items = <<>>

Next ==
    \/ \E o \in Objects : items' \in {Append(items, o), <<o>> \o items}
    \/ items # <<>> /\ items' = Tail(items)
    \/ items' = <<>>

Spec == Init /\ [][Next]_items
=============================================================================
