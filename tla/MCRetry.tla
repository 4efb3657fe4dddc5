------------------------------ MODULE MCRetry ------------------------------
(***************************************************************************)
(* Model of Retry for TLC: one error of each kind the two classifiers and  *)
(* the breaker tell apart.                                                 *)
(***************************************************************************)
EXTENDS Retry, TLC

MCCalls == Invocations \X (1 .. MaxAttempts)

MCResults ==
    {Nil, {"error"}, {"error", "not_retryable"}, {"error", "terminal"},
     {"error", "terminal", "bare"}, {"error", "canceled"},
     {"error", "circuit_open"}, Exit}

Symmetric == Permutations(Invocations)
=============================================================================
