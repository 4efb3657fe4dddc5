-------------------------- MODULE CircuitBreaker --------------------------
(***************************************************************************)
(* invoker/circuit-breaker.go: the breaker of one handler, called by any   *)
(* number of concurrent invocations, and the gauge the Prometheus observer *)
(* keeps from the transitions the invocations deliver after the lock.      *)
(*                                                                         *)
(* A call takes the lock twice (admit, record) and reports after each; the *)
(* handler runs in between for as long as it likes.  What classify makes   *)
(* of its result, any of the three outcomes, is an input here.             *)
(***************************************************************************)
EXTENDS Integers, FiniteSets

CONSTANTS Calls,              \* invocations
          FailureThreshold, SuccessThreshold, OpenTimeout,  \* the config
          MaxNow,             \* bound: the last instant of the clock
          NoTransition        \* the nil *transition

ASSUME ConfigAssumption ==
    /\ FailureThreshold \in Nat /\ SuccessThreshold \in Nat
    /\ OpenTimeout \in Nat /\ MaxNow \in Nat

States   == {"closed", "open", "half_open"}
Outcomes == {"success", "failure", "neutral"}
Tokens   == [gen : Nat, probe : BOOLEAN]
Transitions == [from : States, to : States, seq : Nat]

ASSUME NoTransitionAssumption == NoTransition \notin Transitions

VARIABLES
    state, failures, successes, openedAt,   \* handlerBreaker
    gen, seq, probing, probeAt,
    now,                \* the clock
    pc,                 \* pc[c]: where call c is
    tok,                \* tok[c]: its token
    at,                 \* at[c]: when it was admitted
    tr,                 \* tr[c]: the transition it has to report
    seen,               \* seen[c]: the breaker state in its FailureScope
    gauge, lastSeq      \* the observer: "absent" until the first transition

breaker  == <<state, failures, successes, openedAt, gen, seq, probing, probeAt>>
observer == <<gauge, lastSeq>>
vars     == <<state, failures, successes, openedAt, gen, seq, probing, probeAt,
              now, pc, tok, at, tr, seen, gauge, lastSeq>>

CallState == {"new", "refusing", "entering", "running", "leaving", "done"}

TypeOK ==
    /\ state \in States /\ failures \in Nat /\ successes \in Nat
    /\ openedAt \in Nat /\ gen \in Nat /\ seq \in Nat
    /\ probing \in BOOLEAN /\ probeAt \in Nat
    /\ now \in Nat
    /\ pc \in [Calls -> CallState]
    /\ tok \in [Calls -> Tokens]
    /\ at \in [Calls -> Nat]
    /\ tr \in [Calls -> Transitions \cup {NoTransition}]
    /\ seen \in [Calls -> States \cup {"none"}]
    /\ gauge \in States \cup {"absent"} /\ lastSeq \in Nat

Init ==
    /\ state = "closed" /\ failures = 0 /\ successes = 0 /\ openedAt = 0
    /\ gen = 0 /\ seq = 0 /\ probing = FALSE /\ probeAt = 0
    /\ now = 0
    /\ pc = [c \in Calls |-> "new"]
    /\ tok = [c \in Calls |-> [gen |-> 0, probe |-> FALSE]]
    /\ at = [c \in Calls |-> 0]
    /\ tr = [c \in Calls |-> NoTransition]
    /\ seen = [c \in Calls |-> "none"]
    /\ gauge = "absent" /\ lastSeq = 0

-----------------------------------------------------------------------------
Goto(c, l) == pc' = [pc EXCEPT ![c] = l]

\* move: change the state and leave call c the transition to report.
Move(c, to) ==
    /\ state' = to
    /\ gen' = gen + 1
    /\ seq' = seq + 1
    /\ tr' = [tr EXCEPT ![c] = [from |-> state, to |-> to, seq |-> seq + 1]]

\* The breaker stays as it is and there is nothing to report.
Stay == UNCHANGED <<state, seq, tr>>

\* Call c is let in with a token of this generation.
LetIn(c, isProbe) ==
    /\ tok' = [tok EXCEPT ![c] = [gen |-> gen', probe |-> isProbe]]
    /\ at' = [at EXCEPT ![c] = now]
    /\ Goto(c, "entering")

\* ErrCircuitOpen.
TurnAway(c) ==
    /\ Goto(c, "refusing")
    /\ UNCHANGED <<state, successes, gen, seq, probing, probeAt, tok, at, tr>>

TakeSlot ==
    /\ probing' = TRUE
    /\ probeAt' = now

AdmitClosed(c) ==
    /\ state = "closed"
    /\ UNCHANGED <<successes, gen, probing, probeAt>>
    /\ LetIn(c, FALSE)
    /\ Stay

AdmitOpen(c) ==
    /\ state = "open"
    /\ \/ now - openedAt < OpenTimeout /\ TurnAway(c)
       \/ /\ now - openedAt >= OpenTimeout
          /\ successes' = 0
          /\ Move(c, "half_open")
          /\ TakeSlot
          /\ LetIn(c, TRUE)

\* Mutant of LeaseExpired: a lease of no length.
LeaseExpiredAtOnce == OpenTimeout > 0

LeaseExpired == OpenTimeout > 0 /\ now - probeAt >= OpenTimeout

\* The slot is free, or its lease has run out and the probe is superseded, or
\* the call is turned away.
AdmitHalfOpen(c) ==
    /\ state = "half_open"
    /\ \/ ~probing /\ UNCHANGED gen /\ TakeSlot /\ LetIn(c, TRUE) /\ Stay
       \/ probing /\ LeaseExpired /\ gen' = gen + 1 /\ TakeSlot /\ LetIn(c, TRUE) /\ Stay
       \/ probing /\ ~LeaseExpired /\ TurnAway(c)
    /\ UNCHANGED successes

\* admit, under the lock; it returns the state after the decision, which the
\* report that follows stores in the FailureScope.
Admit(c) ==
    /\ pc[c] = "new"
    /\ AdmitClosed(c) \/ AdmitOpen(c) \/ AdmitHalfOpen(c)
    /\ seen' = [seen EXCEPT ![c] = state']
    /\ UNCHANGED <<failures, openedAt, now, observer>>

-----------------------------------------------------------------------------
RecordClosed(c, out) ==
    /\ state = "closed"
    /\ failures' = CASE out = "failure" -> failures + 1
                     [] out = "success" -> 0
                     [] out = "neutral" -> failures
    /\ IF out = "failure" /\ failures' >= FailureThreshold
         THEN openedAt' = now /\ Move(c, "open")
         ELSE Stay /\ UNCHANGED <<openedAt, gen>>
    /\ UNCHANGED <<successes, probing>>

\* Mutant of RecordHalfOpen: a neutral outcome, a panic included, keeps the slot.
RecordHalfOpenKeepsSlot(c, out) ==
    /\ state = "half_open"
    /\ probing' = (out = "neutral" /\ probing)
    /\ \/ /\ out = "failure"
          /\ openedAt' = now /\ Move(c, "open") /\ UNCHANGED <<failures, successes>>
       \/ /\ out = "success" /\ successes + 1 >= SuccessThreshold
          /\ failures' = 0 /\ successes' = 0 /\ Move(c, "closed") /\ UNCHANGED openedAt
       \/ /\ out = "success" /\ successes + 1 < SuccessThreshold
          /\ successes' = successes + 1 /\ Stay /\ UNCHANGED <<failures, openedAt, gen>>
       \/ /\ out = "neutral"
          /\ Stay /\ UNCHANGED <<failures, successes, openedAt, gen>>

\* The outcome of the current probe.
RecordHalfOpen(c, out) ==
    /\ state = "half_open"
    /\ probing' = FALSE
    /\ \/ /\ out = "failure"
          /\ openedAt' = now /\ Move(c, "open") /\ UNCHANGED <<failures, successes>>
       \/ /\ out = "success" /\ successes + 1 >= SuccessThreshold
          /\ failures' = 0 /\ successes' = 0 /\ Move(c, "closed") /\ UNCHANGED openedAt
       \/ /\ out = "success" /\ successes + 1 < SuccessThreshold
          /\ successes' = successes + 1 /\ Stay /\ UNCHANGED <<failures, openedAt, gen>>
       \/ /\ out = "neutral"
          /\ Stay /\ UNCHANGED <<failures, successes, openedAt, gen>>

\* The completion belongs to the present generation.
Current(c) == tok[c].gen = gen

\* A completion that is ignored: of an older generation, or of no probe in
\* half-open, or while the breaker is open.
RecordIgnored(c) ==
    /\ \/ ~Current(c)
       \/ state = "half_open" /\ ~tok[c].probe
       \/ state = "open"
    /\ Stay
    /\ UNCHANGED <<failures, successes, openedAt, gen, probing>>

\* record, under the lock, for a handler that returned, panicked or exited.
Record(c, out) ==
    /\ pc[c] = "running"
    /\ \/ Current(c) /\ RecordClosed(c, out)
       \/ Current(c) /\ tok[c].probe /\ RecordHalfOpen(c, out)
       \/ RecordIgnored(c)
    /\ seen' = [seen EXCEPT ![c] = state']
    /\ Goto(c, "leaving")
    /\ UNCHANGED <<probeAt, now, tok, at, observer>>

-----------------------------------------------------------------------------
\* Mutant of BreakerTransition: last delivery wins, whatever its Seq.
BreakerTransitionUnordered(t) ==
    /\ gauge' = t.to
    /\ lastSeq' = t.seq

\* prometheus.Observer.BreakerTransition, under its lock: an older Seq never
\* overwrites a newer state.
BreakerTransition(t) ==
    IF t.seq > lastSeq
      THEN gauge' = t.to /\ lastSeq' = t.seq
      ELSE UNCHANGED observer

\* report, after the lock; then the call runs, or returns to its caller.
Report(c) ==
    /\ pc[c] \in {"refusing", "entering", "leaving"}
    /\ IF tr[c] = NoTransition
         THEN UNCHANGED observer
         ELSE BreakerTransition(tr[c])
    /\ tr' = [tr EXCEPT ![c] = NoTransition]
    /\ Goto(c, IF pc[c] = "entering" THEN "running" ELSE "done")
    /\ UNCHANGED <<breaker, now, tok, at, seen>>

\* Time passes.
Tick ==
    /\ now < MaxNow
    /\ now' = now + 1
    /\ UNCHANGED <<breaker, pc, tok, at, tr, seen, observer>>

Next ==
    \/ \E c \in Calls :
          \/ Admit(c)
          \/ \E out \in Outcomes : Record(c, out)
          \/ Report(c)
    \/ Tick

Spec == Init /\ [][Next]_vars

-----------------------------------------------------------------------------
(* Properties *)

\* The calls that were let in and have not recorded their outcome.
Inside == {c \in Calls : pc[c] \in {"entering", "running"}}

\* The probes among them whose outcome will count.
LiveProbes == {c \in Inside : tok[c].probe /\ Current(c)}

\* The half-open slot is taken exactly while one current probe is inside:
\* "admits exactly one probe at a time" (circuit-breaker.go:152), and no
\* outcome, panic, supersede or late completion leaks the slot or frees that of
\* another probe.
SlotHeldByOneProbe ==
    /\ \A c, d \in LiveProbes : c = d
    /\ probing <=> state = "half_open" /\ LiveProbes # {}

\* A call admitted before the last transition has no say any more: while the
\* breaker is open nobody holds a current token, in half-open only a probe
\* does, in closed only calls of this closed period do (circuit-breaker.go:241).
StaleCallsPowerless ==
    \A c \in Inside :
        /\ tok[c].gen <= gen
        /\ state = "open" => ~Current(c)
        /\ Current(c) => (tok[c].probe <=> state = "half_open")

\* Two probes are inside together only when the later one was admitted a whole
\* OpenTimeout after the earlier: a broken handler that hangs is entered once
\* per OpenTimeout, and once in all when OpenTimeout is zero.
ProbeSpacing ==
    \A c, d \in Inside :
        tok[c].probe /\ tok[d].probe /\ c # d =>
            /\ OpenTimeout > 0
            /\ at[c] - at[d] >= OpenTimeout \/ at[d] - at[c] >= OpenTimeout

\* Whatever the order in which concurrent calls deliver their transitions, the
\* gauge ends at the state of the breaker: it shows it, or the call that holds
\* the last transition has yet to deliver it (prometheus/observer.go:244-272).
GaugeConverges ==
    IF lastSeq = seq
      THEN gauge = IF seq = 0 THEN "absent" ELSE state
      ELSE \E c \in Calls : tr[c] # NoTransition /\ tr[c].seq = seq /\ tr[c].to = state

\* The counters stay on their side of the thresholds, so that the breaker is
\* open or half-open exactly when the last run of failures reached the limit.
CountersBounded ==
    /\ state = "closed" => failures = 0 \/ failures < FailureThreshold
    /\ state # "closed" => failures > 0 /\ failures >= FailureThreshold
    /\ successes = 0 \/ successes < SuccessThreshold

\* The clock is never behind what it stamped, and the slot is stamped with the
\* admission of the probe that holds it.
Stamps ==
    /\ probeAt <= now /\ openedAt <= now
    /\ \A c \in Inside : at[c] <= now
    /\ \A c \in LiveProbes : probeAt = at[c]

\* A probe that lost its say was superseded, an OpenTimeout after it began.
StaleProbesOld ==
    \A c \in Inside : tok[c].probe /\ ~Current(c) =>
        OpenTimeout > 0 /\ now - at[c] >= OpenTimeout

\* A transition waits to be reported by the call that made it; none is newer
\* than the breaker, and the newest led to its present state.
ReportsPending ==
    /\ lastSeq <= seq
    /\ \A c \in Calls : tr[c] # NoTransition =>
          /\ tr[c].seq \in 1 .. seq
          /\ tr[c].seq = seq => tr[c].to = state
          /\ pc[c] \in {"entering", "leaving"}

\* The strengthening that is inductive.
IInv ==
    /\ TypeOK
    /\ SlotHeldByOneProbe
    /\ StaleCallsPowerless
    /\ ProbeSpacing
    /\ GaugeConverges
    /\ CountersBounded
    /\ Stamps
    /\ StaleProbesOld
    /\ ReportsPending
=============================================================================
