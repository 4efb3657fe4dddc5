--------------------------- MODULE MCSettlement ---------------------------
(* Settlement, for TLC: the errors a chain returns, by what Settle tells    *)
(* apart, and MaxDeliver unlimited, one and two.                            *)
EXTENDS Settlement

Err(s) == {"error"} \cup s

MCHandlerErrors ==
    {Nil, PanicError} \cup
    {Err(s) : s \in {{}, {"terminal"}, {"duplicate"}, {"circuit_open"},
                     {"rate_limited", "terminal"}, {"in_progress"},
                     {"canceled"}, {"deadline", "terminal"},
                     {"canceled", "interrupted"}}}

MCMaxDelivers == {0, 2}
=============================================================================
