------------------------------- MODULE Retry -------------------------------
(***************************************************************************)
(* The resilience end of the chain: invoker/retry.go around                *)
(* invoker/circuit-breaker.go around the handler, as invoker/chain.go      *)
(* nests them.  Several invocations of one handler run at once; attempt n  *)
(* of invocation i is the call <<i, n>> of the breaker.                    *)
(*                                                                         *)
(* Errors are sets of sentinels, as in Failure, with two marks more:       *)
(* "bare" is ErrSendToDLQ without a Terminal() method around it, and       *)
(* "not_retryable" an error whose Retryable() is false.  "exit" stands for *)
(* a next that does not return: a panic nobody recovers, or Goexit.        *)
(***************************************************************************)
EXTENDS CircuitBreaker, Failure, Sequences

CONSTANTS Invocations, MaxAttempts, HistorySize, BaseDelay, MaxDelay,
          Width,            \* bits of a time.Duration, 64 in Go
          HandlerResults    \* what next can come to: a set of errors

ASSUME PolicyAssumption ==
    /\ MaxAttempts \in Nat \ {0} /\ HistorySize \in Nat
    /\ BaseDelay \in Nat /\ MaxDelay \in Nat /\ Width \in Nat \ {0}
    /\ Calls = Invocations \X (1 .. MaxAttempts)

\* Arithmetic of the powers that Backoff uses, true of every Width.
ASSUME PowersAssumption ==
    /\ \A n \in 1 .. MaxAttempts : 2 ^ (n - 1) \in Nat
    /\ 2 ^ (Width - 1) \in Nat \ {0}
    /\ 2 ^ Width = 2 * 2 ^ (Width - 1)

Exit == {"error", "exit"}

VARIABLES
    phase,        \* phase[i]: idle, calling, waiting or returned
    attempt,      \* the loop variable of Retry.Invoke
    err,          \* what the present call of next came to
    until,        \* the instant its backoff ends
    hist,         \* the attempt ring
    ended,        \* how its context ended: no, canceled, or timeout
    result,       \* what Retry.Invoke returned
    failed        \* history: how many runs of the handler failed on their own

retry == <<phase, attempt, err, until, hist, ended, result, failed>>
rvars == <<vars, phase, attempt, err, until, hist, ended, result, failed>>

Results == {"none", "nil", "bare", "ctx", "exited", "terminal", "circuit_open",
            "retries_exhausted"}
Plain(kind) == [kind |-> kind, attempts |-> 0, history |-> <<>>]

RInit ==
    /\ Init
    /\ phase = [i \in Invocations |-> "idle"]
    /\ attempt = [i \in Invocations |-> 1]
    /\ err = [i \in Invocations |-> Nil]
    /\ until = [i \in Invocations |-> 0]
    /\ hist = [i \in Invocations |-> <<>>]
    /\ ended = [i \in Invocations |-> "no"]
    /\ result = [i \in Invocations |-> Plain("none")]
    /\ failed = [i \in Invocations |-> 0]

Call(i) == <<i, attempt[i]>>

-----------------------------------------------------------------------------
(* The classifiers and the backoff *)

\* CircuitBreaker.classify, and the deferred record of a next that is left
\* without a return.
BreakerOutcome(e, timedOut) ==
    IF e = Nil THEN "success"
    ELSE IF "exit" \in e \/ "panic" \in e THEN "neutral"
    ELSE IF "timeout" \in e \/ (CtxErr(e) /\ timedOut) THEN "failure"
    ELSE IF CtxErr(e) THEN "neutral"
    ELSE IF Dispose(e, FALSE) # "retry_delayed" THEN "neutral"
    ELSE IF e \cap (FlowControl \cup {"dlq_failed", "unknown_version"}) # {} THEN "neutral"
    ELSE "failure"

NeverRetried == FlowControl \cup
    {"duplicate", "dead_lettered", "dlq_failed", "canceled", "deadline"}

\* classify: flow control first, then Terminal(), then Retryable().
Classify(e) ==
    IF e \in {Nil, Exit} THEN "over"
    ELSE IF e \cap NeverRetried # {} THEN "stop"
    ELSE IF "terminal" \in e /\ "bare" \notin e THEN "terminal"
    ELSE IF "not_retryable" \in e THEN "stop"
    ELSE "retry"

\* An integer as a signed number of Width bits.
Signed(x) ==
    LET u == x % 2 ^ Width
    IN  IF u >= 2 ^ (Width - 1) THEN u - 2 ^ Width ELSE u

\* Mutant of Backoff: the shift begins with the first attempt.
BackoffShifted(n) ==
    LET d == Signed(2 ^ n * BaseDelay)
    IN  IF d > MaxDelay THEN MaxDelay ELSE d

\* backoff(n - 1, BaseDelay, MaxDelay): the product wraps, and a negative
\* duration is below every maximum.
Backoff(n) ==
    LET d == Signed(2 ^ (n - 1) * BaseDelay)
    IN  IF d > MaxDelay THEN MaxDelay ELSE d

\* attemptRing.add: the last HistorySize attempts, oldest first.
RingAdd(ring, a) ==
    IF HistorySize = 0 THEN ring
    ELSE IF Len(ring) = HistorySize THEN Append(Tail(ring), a)
    ELSE Append(ring, a)

-----------------------------------------------------------------------------
(* Retry.Invoke *)

Return(i, r) ==
    /\ phase' = [phase EXCEPT ![i] = "returned"]
    /\ result' = [result EXCEPT ![i] = r]
    /\ err' = [err EXCEPT ![i] = Nil]
    /\ until' = [until EXCEPT ![i] = 0]
    /\ UNCHANGED attempt

FailureError(reason, n, h) == [kind |-> reason, attempts |-> n, history |-> h]

\* The invocation begins with a first call of the breaker.
Start(i) ==
    /\ phase[i] = "idle"
    /\ Admit(Call(i))
    /\ phase' = [phase EXCEPT ![i] = "calling"]
    /\ UNCHANGED <<attempt, err, until, hist, ended, result, failed>>

\* admit let the call in: report, and the handler runs.
Enter(i) ==
    /\ phase[i] = "calling" /\ pc[Call(i)] = "entering"
    /\ Report(Call(i))
    /\ UNCHANGED retry

\* The handler ends with e, which the breaker records.
Handled(i, e) ==
    /\ phase[i] = "calling"
    /\ Record(Call(i), BreakerOutcome(e, ended[i] = "timeout"))
    /\ err' = [err EXCEPT ![i] = e]
    /\ failed' = [failed EXCEPT ![i] =
                     IF Classify(e) \in {"terminal", "retry"} THEN @ + 1 ELSE @]
    /\ UNCHANGED <<phase, attempt, until, hist, ended, result>>

\* Mutant of Rejected: the call the breaker turned away counts as an attempt.
RejectedCounts(i, e) ==
    IF "circuit_open" \in e /\ attempt[i] > 1
      THEN FailureError("circuit_open", attempt[i], hist[i])
      ELSE Plain("bare")

\* An error that is returned as it is, except that a circuit that opens after
\* real attempts keeps their count.
Rejected(i, e) ==
    IF "circuit_open" \in e /\ attempt[i] > 1
      THEN FailureError("circuit_open", attempt[i] - 1, hist[i])
      ELSE Plain("bare")

\* What Retry makes of e, the result of the present attempt.
Decide(i, e) ==
    LET n == attempt[i]
        Ring(d) == RingAdd(hist[i], [n |-> n, delay |-> d])
        Fail(reason) ==
            /\ hist' = [hist EXCEPT ![i] = Ring(0)]
            /\ Return(i, FailureError(reason, n, Ring(0)))
    IN  \/ /\ Classify(e) = "over"
           /\ Return(i, Plain(IF e = Nil THEN "nil" ELSE "exited"))
           /\ UNCHANGED hist
        \/ /\ Classify(e) = "stop"
           /\ Return(i, Rejected(i, e))
           /\ UNCHANGED hist
        \/ Classify(e) = "terminal" /\ Fail("terminal")
        \/ Classify(e) = "retry" /\ n = MaxAttempts /\ Fail("retries_exhausted")
        \/ /\ Classify(e) = "retry" /\ n < MaxAttempts
           /\ hist' = [hist EXCEPT ![i] = Ring(Backoff(n))]
           /\ phase' = [phase EXCEPT ![i] = "waiting"]
           /\ until' = [until EXCEPT ![i] = now + Backoff(n)]
           /\ err' = [err EXCEPT ![i] = Nil]
           /\ UNCHANGED <<attempt, result>>

\* The breaker reports and returns, ErrCircuitOpen when it turned the call away.
Returned(i) ==
    /\ phase[i] = "calling" /\ pc[Call(i)] \in {"refusing", "leaving"}
    /\ Report(Call(i))
    /\ Decide(i, IF pc[Call(i)] = "refusing" THEN {"error", "circuit_open"} ELSE err[i])
    /\ UNCHANGED <<ended, failed>>

\* wait returns nil and the next attempt begins.  A timer that fires together
\* with the end of the context may win; without a timer the context decides.
WaitOver(i) ==
    /\ phase[i] = "waiting"
    /\ now >= until[i]
    /\ Backoff(attempt[i]) <= 0 => ended[i] = "no"
    /\ Admit(<<i, attempt[i] + 1>>)
    /\ attempt' = [attempt EXCEPT ![i] = @ + 1]
    /\ phase' = [phase EXCEPT ![i] = "calling"]
    /\ until' = [until EXCEPT ![i] = 0]
    /\ UNCHANGED <<err, hist, ended, result, failed>>

\* wait returns the error of the context, and so does Retry.
WaitEnds(i) ==
    /\ phase[i] = "waiting" /\ ended[i] # "no"
    /\ Return(i, Plain("ctx"))
    /\ UNCHANGED <<vars, hist, ended, failed>>

\* The context of the invocation ends, by its owner or by a handler timeout.
ContextEnds(i, why) ==
    /\ phase[i] \in {"calling", "waiting"} /\ ended[i] = "no"
    /\ ended' = [ended EXCEPT ![i] = why]
    /\ UNCHANGED <<vars, phase, attempt, err, until, hist, result, failed>>

RNext ==
    \/ \E i \in Invocations :
          \/ Start(i) \/ Enter(i)
          \/ \E e \in HandlerResults : Handled(i, e)
          \/ Returned(i)
          \/ WaitOver(i) \/ WaitEnds(i)
          \/ \E why \in {"canceled", "timeout"} : ContextEnds(i, why)
    \/ Tick /\ UNCHANGED retry

RSpec == RInit /\ [][RNext]_rvars

-----------------------------------------------------------------------------
(* Properties *)

\* One type invariant for the retry state.
RTypeOK ==
    /\ phase \in [Invocations -> {"idle", "calling", "waiting", "returned"}]
    /\ attempt \in [Invocations -> 1 .. MaxAttempts]
    /\ until \in [Invocations -> Int]
    /\ failed \in [Invocations -> 0 .. MaxAttempts]
    /\ \A i \in Invocations :
          /\ result[i].kind \in Results
          /\ Len(hist[i]) <= HistorySize

Lesser(m, n) == IF m < n THEN m ELSE n

\* The numbers of the last HistorySize of n attempts.
LastRuns(n) ==
    LET kept == Lesser(n, HistorySize) IN [k \in 1 .. kept |-> n - kept + k]

\* A FailureError tells the truth about the handler: Attempts is the number of
\* runs that really failed, a call the breaker turned away is none, and History
\* is the last HistorySize of them, oldest first (retry.go:187-204).
FailureTruthful ==
    \A i \in Invocations :
        result[i].kind \in {"terminal", "circuit_open", "retries_exhausted"} =>
            /\ result[i].attempts = failed[i] /\ failed[i] > 0
            /\ [k \in DOMAIN result[i].history |-> result[i].history[k].n] = LastRuns(failed[i])

\* What the policy says of the wait after attempt n, 2^(n-1) * BaseDelay capped at
\* MaxDelay (docs/invoker-chain/retry.md:33), and whether the product fits a
\* Duration: beyond, it wraps and no wait is left.
Exact(n)  == 2 ^ (n - 1) * BaseDelay
Policy(n) == Lesser(Exact(n), MaxDelay)
Fits(n)   == Exact(n) < 2 ^ (Width - 1)

\* Two attempts of one invocation are as far apart as the policy says, and an
\* invocation that waits for the next one does not wait longer than that.
RetriesSpaced ==
    \A i \in Invocations :
        /\ \A n \in 1 .. attempt[i] - 1 :
              <<i, n + 1>> \in Inside /\ Fits(n) =>
                  at[<<i, n + 1>>] - at[<<i, n>>] >= Policy(n)
        /\ phase[i] = "waiting" /\ Fits(attempt[i]) => until[i] - now <= Policy(attempt[i])
=============================================================================
