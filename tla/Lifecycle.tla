----------------------------- MODULE Lifecycle -----------------------------
(***************************************************************************)
(* lifecycle.go: the shutdown state machine every bus embeds.  Units of    *)
(* work (an emit, a task of an emit, a broker message) are admitted or     *)
(* tracked and released; callers shut the bus down, each with a context of *)
(* its own that may expire.  Every action is one critical section of l.mu, *)
(* or one step of a goroutine outside it.                                  *)
(*                                                                         *)
(* A Go channel is a positive number; it is closed when it is in closedCh. *)
(***************************************************************************)
EXTENDS Integers, FiniteSets

CONSTANTS Units,      \* units of work that may be offered to the lifecycle
          Callers,    \* goroutines that call Shutdown or Interrupt
          NoParent    \* the parent of a unit whose context carries no marker

ASSUME NoParentAssumption == NoParent \notin Units

VARIABLES
    closed, forced, done,   \* the three flags of Lifecycle
    inflight,               \* the counter
    idle, idleClosed,       \* the idle channel (0 is nil) and its flag
    cancelled,              \* whether the bus context is cancelled
    closedCh,               \* the channels that were closed
    unit,                   \* unit[u]: "new", "held", "released" or "refused"
    parent,                 \* parent[u]: the unit whose handler context u came with
    hctx,                   \* hctx[u]: the handler context of u
    pc,                     \* pc[c]: where caller c is
    wch,                    \* wch[c]: the channel c selects on
    expired                 \* expired[c]: whether the context of c is done

flags    == <<closed, forced, done>>
chans    == <<idle, idleClosed, closedCh>>
work     == <<unit, parent, hctx>>
callers  == <<pc, wch, expired>>
vars     == <<closed, forced, done, inflight, idle, idleClosed, cancelled,
              closedCh, unit, parent, hctx, pc, wch, expired>>

UnitState == {"new", "held", "released", "refused"}
CtxState  == {"none", "live", "interrupted", "ended"}
CallState == {"idle", "begun", "checking", "waiting", "interrupting",
              "cancelling", "nil", "err"}

Held == {u \in Units : unit[u] = "held"}

TypeOK ==
    /\ closed \in BOOLEAN /\ forced \in BOOLEAN /\ done \in BOOLEAN
    /\ inflight \in Int
    /\ idle \in Nat /\ idleClosed \in BOOLEAN
    /\ cancelled \in BOOLEAN
    /\ closedCh \in SUBSET Nat
    /\ unit \in [Units -> UnitState]
    /\ parent \in [Units -> Units \cup {NoParent}]
    /\ hctx \in [Units -> CtxState]
    /\ pc \in [Callers -> CallState]
    /\ wch \in [Callers -> Nat]
    /\ expired \in [Callers -> BOOLEAN]

Init ==
    /\ closed = FALSE /\ forced = FALSE /\ done = FALSE
    /\ inflight = 0
    /\ idle = 0 /\ idleClosed = FALSE
    /\ cancelled = FALSE
    /\ closedCh = {}
    /\ unit = [u \in Units |-> "new"]
    /\ parent = [u \in Units |-> NoParent]
    /\ hctx = [u \in Units |-> "none"]
    /\ pc = [c \in Callers |-> "idle"]
    /\ wch = [c \in Callers |-> 0]
    /\ expired = [c \in Callers |-> FALSE]

-----------------------------------------------------------------------------
(* Work *)

\* Whether a context carries the marker: it descends from a handler context.
Nested(p) == p # NoParent

\* Mutant of Admissible: a forced stop does not refuse admissions.
AdmissibleWhenForced(p) ==
    /\ ~done
    /\ closed => Nested(p) /\ inflight > 0

Admissible(p) ==
    /\ ~forced /\ ~done
    /\ closed => Nested(p) /\ inflight > 0

\* Mutant of Trackable: a drain refuses the tasks of the emits it waits for.
TrackableUntilClosed == ~closed

Trackable == ~forced /\ ~done

Count(u) ==
    /\ inflight' = inflight + 1
    /\ unit' = [unit EXCEPT ![u] = "held"]

Refuse(u) ==
    /\ unit' = [unit EXCEPT ![u] = "refused"]
    /\ UNCHANGED inflight

\* Admit(ctx), where ctx descends from the handler context of p, or of no
\* handler.  The handler of p may have returned already.
Admit(u, p) ==
    /\ unit[u] = "new"
    /\ Nested(p) => hctx[p] # "none"
    /\ parent' = [parent EXCEPT ![u] = p]
    /\ \/ Admissible(p) /\ Count(u)
       \/ ~Admissible(p) /\ Refuse(u)
    /\ UNCHANGED <<flags, chans, cancelled, hctx, callers>>

Track(u) ==
    /\ unit[u] = "new"
    /\ \/ Trackable /\ Count(u)
       \/ ~Trackable /\ Refuse(u)
    /\ UNCHANGED <<flags, chans, cancelled, parent, hctx, callers>>

\* Mutant of Uncount: the counter is compared before it is decremented.
UncountStale(u) ==
    /\ inflight' = inflight - 1
    /\ unit' = [unit EXCEPT ![u] = "released"]
    /\ IF closed /\ inflight = 0 /\ idle # 0 /\ ~idleClosed
         THEN /\ closedCh' = closedCh \cup {idle}
              /\ idleClosed' = TRUE
         ELSE UNCHANGED <<closedCh, idleClosed>>
    /\ UNCHANGED <<flags, idle, cancelled, parent, hctx, callers>>

\* The body of once.Do: the last unit out wakes the waiters.
Uncount(u) ==
    /\ inflight' = inflight - 1
    /\ unit' = [unit EXCEPT ![u] = "released"]
    /\ IF closed /\ inflight = 1 /\ idle # 0 /\ ~idleClosed
         THEN /\ closedCh' = closedCh \cup {idle}
              /\ idleClosed' = TRUE
         ELSE UNCHANGED <<closedCh, idleClosed>>
    /\ UNCHANGED <<flags, idle, cancelled, parent, hctx, callers>>

\* release is called: the first call counts, a later one does nothing.  The
\* handler context, if one was made, has ended by then.
Release(u) ==
    /\ hctx[u] \in {"none", "ended"}
    /\ \/ unit[u] = "held" /\ Uncount(u)
       \/ unit[u] = "released" /\ UNCHANGED vars

\* HandlerContext: the context a handler of u runs with; u may run several, one
\* after the other.
OpenHandler(u) ==
    /\ unit[u] = "held" /\ hctx[u] \in {"none", "ended"}
    /\ hctx' = [hctx EXCEPT ![u] = "live"]
    /\ UNCHANGED <<flags, inflight, chans, cancelled, unit, parent, callers>>

\* The AfterFunc of HandlerContext, in a goroutine of its own.
AfterFunc(u) ==
    /\ cancelled /\ hctx[u] = "live"
    /\ hctx' = [hctx EXCEPT ![u] = "interrupted"]
    /\ UNCHANGED <<flags, inflight, chans, cancelled, unit, parent, callers>>

\* The function HandlerContext returns: the handler is over.
EndHandler(u) ==
    /\ hctx[u] \in {"live", "interrupted"}
    /\ hctx' = [hctx EXCEPT ![u] = "ended"]
    /\ UNCHANGED <<flags, inflight, chans, cancelled, unit, parent, callers>>

-----------------------------------------------------------------------------
(* Shutdown *)

Goto(c, l) == pc' = [pc EXCEPT ![c] = l]

BeginShutdown(c) ==
    /\ pc[c] = "idle"
    /\ closed' = TRUE
    /\ Goto(c, "begun")
    /\ UNCHANGED <<forced, done, inflight, chans, cancelled, work, wch, expired>>

\* The locked part of Wait, when nothing is in flight.
WaitIdle(c) ==
    /\ pc[c] \in {"begun", "checking"} /\ inflight = 0
    /\ done' = TRUE
    /\ Goto(c, "nil")
    /\ UNCHANGED <<closed, forced, inflight, chans, cancelled, work, wch, expired>>

\* Mutant of WaitBusy: every waiter makes a channel of its own.
WaitBusyOwnChannel(c) ==
    /\ pc[c] \in {"begun", "checking"} /\ inflight # 0
    /\ idle' = idle + 1
    /\ idleClosed' = FALSE
    /\ wch' = [wch EXCEPT ![c] = idle']
    /\ Goto(c, "waiting")
    /\ UNCHANGED <<flags, inflight, closedCh, cancelled, work, expired>>

\* The locked part of Wait, when something is: take the idle channel, a new one
\* when there is none or the present one is spent.
WaitBusy(c) ==
    /\ pc[c] \in {"begun", "checking"} /\ inflight # 0
    /\ idle' = IF idle = 0 \/ idleClosed THEN idle + 1 ELSE idle
    /\ idleClosed' = FALSE
    /\ wch' = [wch EXCEPT ![c] = idle']
    /\ Goto(c, "waiting")
    /\ UNCHANGED <<flags, inflight, closedCh, cancelled, work, expired>>

\* The select of Wait: the channel is closed, go round the loop.
WakeIdle(c) ==
    /\ pc[c] = "waiting" /\ wch[c] \in closedCh
    /\ Goto(c, "checking")
    /\ UNCHANGED <<flags, inflight, chans, cancelled, work, wch, expired>>

\* The select of Wait: the context is done, interrupt.
WakeExpired(c) ==
    /\ pc[c] = "waiting" /\ expired[c]
    /\ Goto(c, "interrupting")
    /\ UNCHANGED <<flags, inflight, chans, cancelled, work, wch, expired>>

\* A bus forces the stop without waiting, or instead of waiting.
CallInterrupt(c) ==
    /\ pc[c] \in {"idle", "begun"}
    /\ Goto(c, "interrupting")
    /\ UNCHANGED <<flags, inflight, chans, cancelled, work, wch, expired>>

\* Interrupt, under the lock.
InterruptMark(c) ==
    /\ pc[c] = "interrupting"
    /\ forced' = TRUE /\ closed' = TRUE
    /\ Goto(c, "cancelling")
    /\ UNCHANGED <<done, inflight, chans, cancelled, work, wch, expired>>

\* Interrupt, after the unlock: the bus context is cancelled, the call returns.
InterruptCancel(c) ==
    /\ pc[c] = "cancelling"
    /\ cancelled' = TRUE
    /\ Goto(c, "err")
    /\ UNCHANGED <<flags, inflight, chans, work, wch, expired>>

\* The context of a caller expires, at any time.
Expire(c) ==
    /\ ~expired[c]
    /\ expired' = [expired EXCEPT ![c] = TRUE]
    /\ UNCHANGED <<flags, inflight, chans, cancelled, work, pc, wch>>

Work(u) ==
    \/ \E p \in Units \cup {NoParent} : Admit(u, p)
    \/ Track(u)
    \/ Release(u)
    \/ OpenHandler(u)
    \/ AfterFunc(u)
    \/ EndHandler(u)

\* The steps of a call that has begun.
CallStep(c) ==
    \/ WaitIdle(c)
    \/ WaitBusy(c)
    \/ WakeIdle(c)
    \/ WakeExpired(c)
    \/ InterruptMark(c)
    \/ InterruptCancel(c)

Call(c) ==
    \/ BeginShutdown(c)
    \/ CallInterrupt(c)
    \/ CallStep(c)
    \/ Expire(c)

Next ==
    \/ \E u \in Units : Work(u)
    \/ \E c \in Callers : Call(c)

Spec == Init /\ [][Next]_vars

\* A goroutine that can step steps; so does the goroutine of an AfterFunc.
GoFairness ==
    /\ \A c \in Callers : WF_vars(CallStep(c))
    /\ \A u \in Units : WF_vars(AfterFunc(u))

LiveSpec == Spec /\ GoFairness

\* Handlers return, and a unit runs finitely many before it is released.
HandlersReturn ==
    \A u \in Units : WF_vars(EndHandler(u)) /\ SF_vars(Release(u))

-----------------------------------------------------------------------------
(* Properties *)

\* The counter is the number of units that were counted and not yet released:
\* release is idempotent (lifecycle.go:86-102), no path counts twice.
CountExact == inflight = Cardinality(Held)

\* Once Wait has returned nil to anyone, nothing is in flight, now or later:
\* "so nothing runs after close" (lifecycle.go:129-132).
NothingAfterNil ==
    (\E c \in Callers : pc[c] = "nil") => done /\ Held = {}

\* A waiter sleeps on a channel that was closed, or on the one the last unit
\* out will close: no wake-up is lost, also when several callers wait, when
\* work is tracked between the wake-up and the re-check, and when a new channel
\* replaces a spent one (Wait, lifecycle.go:186-210).
NoLostWakeup ==
    \A c \in Callers : pc[c] = "waiting" =>
        \/ wch[c] \in closedCh
        \/ wch[c] = idle /\ idle \notin closedCh /\ inflight > 0

\* A caller that was told the drain was cut short, and any caller of Interrupt
\* that returned, left the bus refusing work and its context cancelled.
ErrMeansInterrupted ==
    (\E c \in Callers : pc[c] = "err") => forced /\ closed /\ cancelled

\* The idle flag tells the truth about the channel, so that close is never
\* called twice on one channel, which would panic (lifecycle.go:95-98).
IdleFlagTruthful == idleClosed <=> idle \in closedCh

\* The strengthening that is inductive.
IInv ==
    /\ TypeOK
    /\ IsFiniteSet(Held)
    /\ CountExact
    /\ done => closed /\ inflight = 0
    /\ cancelled => forced
    /\ forced => closed
    /\ IdleFlagTruthful
    /\ closedCh \subseteq 1 .. idle
    /\ NoLostWakeup
    /\ ErrMeansInterrupted
    /\ \A c \in Callers :
          /\ pc[c] \in {"begun", "checking", "waiting", "nil"} => closed
          /\ pc[c] = "waiting" => wch[c] # 0
          /\ pc[c] = "nil" => done
          /\ pc[c] = "cancelling" => forced

\* Whether every call of Shutdown and of Interrupt that began returns.
CallsReturn ==
    \A c \in Callers : pc[c] # "idle" ~> pc[c] \in {"nil", "err"}

\* Every call returns when the handlers do, even when no context expires: the
\* drain sees the last release (Wait, lifecycle.go:186-210).
DrainReturns == HandlersReturn => CallsReturn

\* What the lifecycle promises, in the terms of GracefulStop.
Door ==
    IF forced THEN "forced"
    ELSE IF done THEN "quiet"
    ELSE IF closed THEN "draining" ELSE "open"

Verdict ==
    [c \in Callers |-> IF pc[c] \in {"nil", "err"} THEN pc[c] ELSE "none"]

Stop == INSTANCE GracefulStop
            WITH live <- Held, door <- Door, verdict <- Verdict

\* The lifecycle implements GracefulStop.
GracefulStopSpec == Stop!Spec
=============================================================================
