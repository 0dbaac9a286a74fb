------------------------- MODULE MCMessageExchange -------------------------
(* Instances of MessageExchange for TLC. *)
EXTENDS MessageExchange

M(token, val, data) == [token |-> token, val |-> val, data |-> data]

\* Without data, with one unit or two, with empty data, and with a token
\* and a parameter that do not fit.
SomeMessages ==
    {M(1, 2, None), M(3, 1, <<1>>), M(1, 0, <<2, 3>>), M(2, 1, <<>>), M(-1, NotEight, None)}
=============================================================================
