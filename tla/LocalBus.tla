----------------------------- MODULE LocalBus -----------------------------
(***************************************************************************)
(* local-bus.go: emits, their tasks (one per handler of the subject), the  *)
(* execution slots, the queue of parked tasks and its overflow policy, on  *)
(* top of the Lifecycle, whose units are the emits and the tasks.          *)
(*                                                                         *)
(* Actions are the steps of the emitter goroutines, of the task goroutines *)
(* and of the callers of Shutdown.  What a handler does with its event is  *)
(* the Settlement module; here it returns at some point, and may emit.     *)
(***************************************************************************)
EXTENDS Integers, Sequences, FiniteSets

CONSTANTS Emits,            \* the calls of Emit and EmitSync
          Handlers,         \* the number of handlers of the subject
          MaxConcurrent, QueueSize,
          Policies,         \* overflow policies to choose from
          Callers, NoParent

ASSUME LocalBusAssumption ==
    /\ Handlers \in Nat /\ MaxConcurrent \in Nat \ {0} /\ QueueSize \in Nat \ {0}
    /\ Policies \subseteq {"block", "unbounded", "drop"}

Tasks == Emits \X (1 .. Handlers)
Units == Emits \cup Tasks

ASSUME UnitsAssumption == NoParent \notin Units /\ Emits \cap Tasks = {}

VARIABLES
    closed, forced, done, inflight, idle, idleClosed, cancelled, closedCh,
    unit, parent, hctx, pc, wch, expired,       \* the Lifecycle
    overflow,   \* the policy of the bus
    exec,       \* tokens in the exec channel
    pending,    \* tokens in the pending channel
    epc,        \* epc[e]: where emit e is
    nxt,        \* nxt[e]: the handler e dispatches next
    ectx,       \* ectx[e]: whether the context of the emitter has ended
    tpc,        \* tpc[t]: where task t is
    token,      \* token[t]: whether t holds a token of pending
    fate        \* fate[t]: what became of t, in order

L == INSTANCE Lifecycle

life == <<closed, forced, done, inflight, idle, idleClosed, cancelled, closedCh,
          unit, parent, hctx, pc, wch, expired>>
bus  == <<overflow, exec, pending, epc, nxt, ectx, tpc, token, fate>>
vars == <<life, bus>>

EmitLabels == {"new", "dispatching", "running", "returned", "rejected"}
TaskLabels == {"new", "tracked", "refused", "inline", "overflow", "blocked", "dropping",
               "parked", "slotted", "unparked", "handedback", "running", "freeing",
               "leaving", "sync", "gone"}
Fates      == {"ran", "interrupted", "dropped", "rejected", "skipped"}

TypeOK ==
    /\ L!TypeOK
    /\ overflow \in Policies
    /\ exec \in 0 .. MaxConcurrent /\ pending \in 0 .. QueueSize
    /\ epc \in [Emits -> EmitLabels]
    /\ nxt \in [Emits -> 1 .. Handlers + 1]
    /\ ectx \in [Emits -> BOOLEAN]
    /\ tpc \in [Tasks -> TaskLabels]
    /\ token \in [Tasks -> BOOLEAN]
    /\ fate \in [Tasks -> Seq(Fates)]

Init ==
    /\ L!Init
    /\ overflow \in Policies
    /\ exec = 0 /\ pending = 0
    /\ epc = [e \in Emits |-> "new"]
    /\ nxt = [e \in Emits |-> 1]
    /\ ectx = [e \in Emits |-> FALSE]
    /\ tpc = [t \in Tasks |-> "new"]
    /\ token = [t \in Tasks |-> FALSE]
    /\ fate = [t \in Tasks |-> <<>>]

-----------------------------------------------------------------------------
Task(t, l)  == tpc' = [tpc EXCEPT ![t] = l]
Ends(t, f)  == fate' = [fate EXCEPT ![t] = Append(@, f)]
Advance(e)  == nxt' = [nxt EXCEPT ![e] = @ + 1]

\* The task emit e is at, and whether the call goes on.
At(e) == <<e, nxt[e]>>
InCall(e) == epc[e] \in {"dispatching", "running"}

\* Mutant of Nested: an emit of a handler waits like any other.
NestedNever(e) == FALSE

\* The context of e descends from a handler context of this bus.
Nested(e) == parent[e] # NoParent

\* A call begins: by a goroutine outside the bus, or by the handler of p, whose
\* context it is given.  It is refused, and reported or returned as such, or
\* goes on at l.
Begin(e, p, l) ==
    /\ epc[e] = "new"
    /\ p # NoParent => hctx[p] \in {"live", "interrupted"}
    /\ L!Admit(e, p)
    /\ epc' = [epc EXCEPT ![e] = IF unit'[e] = "held" THEN l ELSE "rejected"]
    /\ UNCHANGED <<overflow, exec, pending, nxt, ectx, tpc, token, fate>>

Emit(e, p)     == Begin(e, p, "dispatching")
EmitSync(e, p) == Begin(e, p, "running")

\* The loop of either is over; the deferred release runs.
EmitReturn(e) ==
    /\ InCall(e) /\ nxt[e] > Handlers
    /\ L!Release(e)
    /\ epc' = [epc EXCEPT ![e] = "returned"]
    /\ UNCHANGED <<overflow, exec, pending, nxt, ectx, tpc, token, fate>>

-----------------------------------------------------------------------------
(* dispatchAsync, on the goroutine of the emitter *)

Async(e) == epc[e] = "dispatching" /\ nxt[e] <= Handlers

DispatchTrack(e) ==
    /\ Async(e) /\ tpc[At(e)] = "new"
    /\ L!Track(At(e))
    /\ Task(At(e), IF unit'[At(e)] = "held" THEN "tracked" ELSE "refused")
    /\ UNCHANGED <<overflow, exec, pending, epc, nxt, ectx, token, fate>>

\* interrupted: a bus whose context is not cancelled is merely closed.
Interrupted(t) == Ends(t, IF cancelled THEN "interrupted" ELSE "rejected")

DispatchRefused(e) ==
    /\ Async(e) /\ tpc[At(e)] = "refused"
    /\ Interrupted(At(e))
    /\ Task(At(e), "gone") /\ Advance(e)
    /\ UNCHANGED <<life, overflow, exec, pending, epc, ectx, token>>

\* A slot is free: a goroutine runs the task.
DispatchSlot(e) ==
    /\ Async(e) /\ tpc[At(e)] = "tracked" /\ exec < MaxConcurrent
    /\ exec' = exec + 1
    /\ Task(At(e), "running") /\ Advance(e)
    /\ UNCHANGED <<life, overflow, pending, epc, ectx, token, fate>>

\* None is: a nested emit runs the task itself, another goes by the policy.
DispatchFull(e) ==
    /\ Async(e) /\ tpc[At(e)] = "tracked" /\ exec = MaxConcurrent
    /\ Task(At(e), IF Nested(e) THEN "inline" ELSE "overflow")
    /\ UNCHANGED <<life, overflow, exec, pending, epc, nxt, ectx, token, fate>>

\* The task gets a goroutine that waits for a slot.
Park(e) ==
    /\ Async(e)
    /\ \/ tpc[At(e)] = "overflow"
       \/ tpc[At(e)] = "blocked"
    /\ \/ /\ overflow = "unbounded"
          /\ UNCHANGED <<pending, token>>
       \/ /\ overflow # "unbounded" /\ pending < QueueSize
          /\ pending' = pending + 1
          /\ token' = [token EXCEPT ![At(e)] = TRUE]
    /\ Task(At(e), "parked") /\ Advance(e)
    /\ UNCHANGED <<life, overflow, exec, epc, ectx, fate>>

\* The queue is full: drop the task, or wait for room.
QueueFull(e) ==
    /\ Async(e) /\ tpc[At(e)] = "overflow" /\ pending = QueueSize
    /\ \/ overflow = "drop" /\ Task(At(e), "dropping") /\ Ends(At(e), "dropped")
       \/ overflow = "block" /\ Task(At(e), "blocked") /\ UNCHANGED fate
    /\ UNCHANGED <<life, overflow, exec, pending, epc, nxt, ectx, token>>

\* The wait for room ends without room.
BlockedEnds(e) ==
    /\ Async(e) /\ tpc[At(e)] = "blocked"
    /\ \/ ectx[e] /\ Ends(At(e), "dropped")
       \/ cancelled /\ Interrupted(At(e))
    /\ Task(At(e), "dropping")
    /\ UNCHANGED <<life, overflow, exec, pending, epc, nxt, ectx, token>>

\* The deferred release of a task that is dropped.
DropRelease(e) ==
    /\ Async(e) /\ tpc[At(e)] = "dropping"
    /\ L!Release(At(e))
    /\ Task(At(e), "gone") /\ Advance(e)
    /\ UNCHANGED <<overflow, exec, pending, epc, ectx, token, fate>>

\* The context of the emitter ends, seen when a wait or EmitSync looks at it.
EmitterDone(e) ==
    /\ nxt[e] <= Handlers /\ ~ectx[e]
    /\ epc[e] = "running" \/ tpc[At(e)] = "blocked"
    /\ ectx' = [ectx EXCEPT ![e] = TRUE]
    /\ UNCHANGED <<life, overflow, exec, pending, epc, nxt, tpc, token, fate>>

-----------------------------------------------------------------------------
(* The goroutine of a parked task *)

ParkedSlot(t) ==
    /\ tpc[t] = "parked" /\ exec < MaxConcurrent
    /\ exec' = exec + 1
    /\ Task(t, "slotted")
    /\ UNCHANGED <<life, overflow, pending, epc, nxt, ectx, token, fate>>

\* Mutant of LeaveQueue: the place in the queue is kept.
LeaveQueueNot(t) == UNCHANGED <<pending, token>>

LeaveQueue(t) ==
    /\ pending' = IF token[t] THEN pending - 1 ELSE pending
    /\ token' = [token EXCEPT ![t] = FALSE]

Unpark(t) ==
    /\ tpc[t] = "slotted"
    /\ LeaveQueue(t)
    /\ Task(t, "unparked")
    /\ UNCHANGED <<life, overflow, exec, epc, nxt, ectx, fate>>

\* With a slot, but after the deadline of Shutdown: the slot goes back.
ParkedCheck(t) ==
    /\ tpc[t] = "unparked"
    /\ IF cancelled
         THEN exec' = exec - 1 /\ Task(t, "handedback")
         ELSE Task(t, "running") /\ UNCHANGED exec
    /\ UNCHANGED <<life, overflow, pending, epc, nxt, ectx, token, fate>>

\* Mutant of ParkedCancelled: a parked task waits for a slot only.
ParkedCancelledNever(t) == tpc[t] = "parked" /\ FALSE /\ UNCHANGED vars

ParkedCancelled(t) ==
    /\ tpc[t] = "parked" /\ cancelled
    /\ LeaveQueue(t)
    /\ Task(t, "handedback")
    /\ UNCHANGED <<life, overflow, exec, epc, nxt, ectx, fate>>

\* Mutant of HandedBack: nothing is reported.
HandedBackSilent(t) ==
    /\ tpc[t] = "handedback"
    /\ Task(t, "leaving")
    /\ UNCHANGED <<life, overflow, exec, pending, epc, nxt, ectx, token, fate>>

HandedBack(t) ==
    /\ tpc[t] = "handedback"
    /\ Interrupted(t)
    /\ Task(t, "leaving")
    /\ UNCHANGED <<life, overflow, exec, pending, epc, nxt, ectx, token>>

-----------------------------------------------------------------------------
(* runTask and execute *)

\* The emits the handler that runs for u has called, and waits for.
Children(u) == {e \in Emits : parent[e] = u /\ InCall(e)}

HandlerStart(t) ==
    /\ tpc[t] \in {"running", "inline"} /\ hctx[t] = "none"
    /\ L!OpenHandler(t)
    /\ UNCHANGED bus

\* The handler returns and its result is settled.
HandlerEnd(t) ==
    /\ tpc[t] \in {"running", "inline"} /\ Children(t) = {}
    /\ L!EndHandler(t)
    /\ Ends(t, "ran")
    /\ Task(t, IF tpc[t] = "running" THEN "freeing" ELSE "leaving")
    /\ UNCHANGED <<overflow, exec, pending, epc, nxt, ectx, token>>

\* Mutant of FreeSlot: the release runs, and the slot stays taken.
FreeSlotReleases(t) ==
    /\ tpc[t] = "freeing"
    /\ L!Release(t)
    /\ Task(t, "leaving")
    /\ UNCHANGED <<overflow, exec, pending, epc, nxt, ectx, token, fate>>

\* The deferred functions: the slot, then the release.
FreeSlot(t) ==
    /\ tpc[t] = "freeing"
    /\ exec' = exec - 1
    /\ Task(t, "leaving")
    /\ UNCHANGED <<life, overflow, pending, epc, nxt, ectx, token, fate>>

\* The emitter is still at t: it runs the task itself.
Inline(t) == nxt[t[1]] = t[2]

\* The release; the one a parked goroutine defers comes second and does nothing.
\* An emitter that ran the task goes on.
Leave(t) ==
    /\ tpc[t] = "leaving"
    /\ L!Release(t)
    /\ Task(t, "gone")
    /\ IF Inline(t) THEN Advance(t[1]) ELSE UNCHANGED nxt
    /\ UNCHANGED <<overflow, exec, pending, epc, ectx, token, fate>>

-----------------------------------------------------------------------------
(* EmitSync: the handlers in order, on the goroutine of the caller. *)

Sync(e) == epc[e] = "running" /\ nxt[e] <= Handlers

\* The context of the caller has ended: dispatch no more.
SyncStop(e) ==
    /\ Sync(e) /\ tpc[At(e)] = "new" /\ ectx[e]
    /\ tpc' = [t \in Tasks |-> IF t[1] = e /\ t[2] >= nxt[e] THEN "gone" ELSE tpc[t]]
    /\ fate' = [t \in Tasks |-> IF t[1] = e /\ t[2] >= nxt[e]
                                  THEN Append(fate[t], "skipped") ELSE fate[t]]
    /\ nxt' = [nxt EXCEPT ![e] = Handlers + 1]
    /\ UNCHANGED <<life, overflow, exec, pending, epc, ectx, token>>

SyncStart(e) ==
    /\ Sync(e) /\ tpc[At(e)] = "new" /\ ~ectx[e]
    /\ L!OpenHandler(e)
    /\ Task(At(e), "sync")
    /\ UNCHANGED <<overflow, exec, pending, epc, nxt, ectx, token, fate>>

SyncEnd(e) ==
    /\ Sync(e) /\ tpc[At(e)] = "sync" /\ Children(e) = {}
    /\ L!EndHandler(e)
    /\ Ends(At(e), "ran")
    /\ Task(At(e), "gone") /\ Advance(e)
    /\ UNCHANGED <<overflow, exec, pending, epc, ectx, token>>

-----------------------------------------------------------------------------
\* The steps of an emitter goroutine.
EmitStep(e) ==
    \/ DispatchTrack(e)
    \/ DispatchRefused(e)
    \/ DispatchSlot(e)
    \/ DispatchFull(e)
    \/ Park(e)
    \/ QueueFull(e)
    \/ BlockedEnds(e)
    \/ DropRelease(e)
    \/ SyncStop(e)
    \/ SyncStart(e)
    \/ EmitReturn(e)

\* The steps of a task goroutine, or of the emitter that runs the task.
TaskStep(t) ==
    \/ ParkedSlot(t)
    \/ Unpark(t)
    \/ ParkedCheck(t)
    \/ ParkedCancelled(t)
    \/ HandedBack(t)
    \/ HandlerStart(t)
    \/ FreeSlot(t)
    \/ Leave(t)

AfterFunc(u) == L!AfterFunc(u) /\ UNCHANGED bus

\* Shutdown and its steps, of which CallStep are those of a call that began.
Shutdown(c) == (L!BeginShutdown(c) \/ L!Expire(c)) /\ UNCHANGED bus
ShutdownStep(c) == L!CallStep(c) /\ UNCHANGED bus

Next ==
    \/ \E e \in Emits :
          \/ \E p \in Units \cup {NoParent} : Emit(e, p) \/ EmitSync(e, p)
          \/ EmitStep(e)
          \/ EmitterDone(e)
          \/ SyncEnd(e)
    \/ \E t \in Tasks : TaskStep(t) \/ HandlerEnd(t)
    \/ \E u \in Units : AfterFunc(u)
    \/ \E c \in Callers : Shutdown(c) \/ ShutdownStep(c)

Spec == Init /\ [][Next]_vars

\* A goroutine that can step steps.
GoFairness ==
    /\ \A e \in Emits : WF_vars(EmitStep(e))
    /\ \A t \in Tasks : WF_vars(TaskStep(t))
    /\ \A u \in Units : WF_vars(AfterFunc(u))
    /\ \A c \in Callers : WF_vars(ShutdownStep(c))

LiveSpec == Spec /\ GoFairness

\* Handlers return.  There are finitely many, and each returns once: if some one
\* of those that can return always does, all do.
HandlersReturn ==
    WF_vars((\E t \in Tasks : HandlerEnd(t)) \/ (\E e \in Emits : SyncEnd(e)))

-----------------------------------------------------------------------------
(* Properties *)

\* Every handler of every emit that was let in runs once or is reported once,
\* never both and never neither, whatever the policy and however the shutdown
\* cuts in: "a drop or a rejection is reported ..., never lost"
\* (local-bus.go:279-281, dispatchAsync).
FateOnce ==
    \A t \in Tasks :
        /\ Len(fate[t]) <= 1
        /\ tpc[t] = "gone" => Len(fate[t]) = 1

\* A token of exec for each task that has a slot, one of pending for each that
\* is parked, and for no other: none leaks on any path, so the bounds on the
\* running handlers and on the queue keep their meaning (local-bus.go:399-473).
TokensExact ==
    /\ exec = Cardinality({t \in Tasks :
                 tpc[t] \in {"running", "freeing", "slotted", "unparked"}})
    /\ pending = Cardinality({t \in Tasks : token[t]})
    /\ \A t \in Tasks : token[t] => tpc[t] \in {"parked", "slotted"}

\* When Shutdown has returned nil every emit that was let in has returned, every
\* task of it has met its fate, parked and nested ones too, and no slot or place
\* in the queue is taken (Shutdown, local-bus.go:247-272).
DrainedMeansSettled ==
    (\E c \in Callers : pc[c] = "nil") =>
        /\ \A e \in Emits : ~InCall(e)
        /\ \A t \in Tasks : tpc[t] \in {"new", "gone"}
        /\ exec = 0 /\ pending = 0

\* A task is refused or handed back only by a shutdown whose deadline passed: a
\* graceful one runs everything that was accepted, and what it emits in turn.
GracefulLosesNothing ==
    \A t \in Tasks :
        fate[t] \in {<<"interrupted">>, <<"rejected">>} => forced

\* The tasks that wait for a slot or for room in the queue.
Waiting == {t \in Tasks : tpc[t] \in {"parked", "blocked"}}

\* The bus comes to rest when the handlers return: every emit returns and every
\* task ends.  An emit from inside a handler never waits for the slot its own
\* handler holds, and a blocked one gets room (local-bus.go:407-412, 424-446).
EmitsReturn ==
    HandlersReturn =>
        ((\E e \in Emits : InCall(e)) \/ Waiting # {}
            ~> (\A e \in Emits : ~InCall(e)) /\ Waiting = {})

\* Once the bus context is cancelled parked tasks are handed back and blocked
\* emitters go on, even when the handler in the slot never returns
\* (local-bus.go:441-445, 466-471).
InterruptFrees == cancelled /\ Waiting # {} ~> Waiting = {}
=============================================================================
