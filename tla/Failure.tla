------------------------------ MODULE Failure ------------------------------
(***************************************************************************)
(* The failure contract: what an error of a handler chain means.           *)
(* settle.go, scope.go, failure.go and invoke.go.                          *)
(*                                                                         *)
(* An error is the set of the sentinels errors.Is (or errors.As) finds in  *)
(* it: nil is the empty set, wrapping is union, and every error that is    *)
(* not nil matches "error".  "terminal" stands for ErrSendToDLQ and for an *)
(* error whose Terminal() is true, "decode" for a *DecodeError.            *)
(***************************************************************************)

Sentinels ==
    {"error", "duplicate", "dead_lettered", "dlq_failed", "panic", "terminal",
     "unknown_version", "circuit_open", "rate_limited", "in_progress", "decode",
     "canceled", "deadline", "interrupted", "timeout"}

Nil == {}

\* PanicError: permanent, and never what the panicked value was.
PanicError == {"error", "panic", "terminal"}

CtxErr(err) == "canceled" \in err \/ "deadline" \in err

FlowControl == {"circuit_open", "rate_limited", "in_progress"}

IsFlowControl(outcome) == outcome \in FlowControl

-----------------------------------------------------------------------------
\* ended: the context is done.
IsInterrupted(ended, err) == ended /\ CtxErr(err)

\* byInterrupt: the cause of the context is ErrShutdownInterrupted.
WrapInterrupted(byInterrupt, err) ==
    IF byInterrupt /\ CtxErr(err) THEN err \cup {"interrupted"} ELSE err

\* LocalBus.execute; byTimeout: the cause of the context is ErrHandlerTimeout.
WrapTimeout(byTimeout, err) ==
    IF byTimeout /\ CtxErr(err) THEN err \cup {"timeout"} ELSE err

RetryUnlessFinal(final) == IF final THEN "terminal" ELSE "retry_delayed"

\* Mutant of Dispose: the cause of a dead-lettered failure decides.
DisposeByCause(err, final) ==
    IF err = Nil \/ "duplicate" \in err THEN "ack"
    ELSE IF "dlq_failed" \in err THEN "retry_delayed"
    ELSE IF "panic" \in err \/ "terminal" \in err THEN "terminal"
    ELSE RetryUnlessFinal(final)

\* Mutant of Dispose: permanent errors are looked for first.
DisposePermanentFirst(err, final) ==
    IF err = Nil \/ "duplicate" \in err \/ "dead_lettered" \in err THEN "ack"
    ELSE IF "panic" \in err \/ "terminal" \in err THEN "terminal"
    ELSE IF "dlq_failed" \in err THEN "retry_delayed"
    ELSE IF "decode" \in err /\ "unknown_version" \notin err THEN "terminal"
    ELSE RetryUnlessFinal(final)

\* The first sentinel that matches decides.
Dispose(err, final) ==
    IF err = Nil \/ "duplicate" \in err \/ "dead_lettered" \in err THEN "ack"
    ELSE IF "dlq_failed" \in err THEN "retry_delayed"
    ELSE IF "panic" \in err \/ "terminal" \in err THEN "terminal"
    ELSE IF "unknown_version" \in err \/ err \cap FlowControl # {}
           THEN RetryUnlessFinal(final)
    ELSE IF "decode" \in err THEN "terminal"
    ELSE RetryUnlessFinal(final)

\* The outcome of HandlerDone at the end of the chain, whose context has ended
\* or not, by a handler timeout or not.
OutcomeOf(err, ended, byTimeout, final) ==
    IF err = Nil THEN "ok"
    ELSE IF "dead_lettered" \in err THEN "dead_lettered"
    ELSE IF "duplicate" \in err THEN "duplicate"
    ELSE IF "interrupted" \in err THEN "interrupted"
    ELSE IF IsInterrupted(ended, err) /\ ~byTimeout THEN "interrupted"
    ELSE IF "in_progress" \in err THEN "in_progress"
    ELSE IF "rate_limited" \in err THEN "rate_limited"
    ELSE IF "circuit_open" \in err THEN "circuit_open"
    ELSE IF Dispose(err, final) = "retry_delayed" /\ ~final THEN "retry"
    ELSE "failed"

\* The outcome of a deferred HandlerDone, from the settlement: disp and out are
\* "none" when Settle panicked or reported nothing.
HandlerDoneOutcome(disp, out) ==
    CASE disp = "ack" /\ out = "dead_lettered" -> "dead_lettered"
      [] disp = "terminal" /\ out \in {"dead_lettered", "dropped"} -> out
      [] disp = "retry_delayed" /\ out # "dlq_publish_failed" -> "retry"
      [] disp = "retry" -> "interrupted"
      [] OTHER -> "failed"
=============================================================================
