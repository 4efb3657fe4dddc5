--------------------------- MODULE LocalBusProofs ---------------------------
(***************************************************************************)
(* Proofs about LocalBus, for any set of emits, any number of handlers of  *)
(* the subject, of slots and of places in the queue, whatever the overflow *)
(* policy.  The invariant of the Lifecycle inside is used as it is proved. *)
(***************************************************************************)
EXTENDS LocalBus, FiniteSetTheorems, TLAPS

LP == INSTANCE LifecycleProofs

-----------------------------------------------------------------------------
(* The inductive invariant, by what it is about. *)

Once == {<<f>> : f \in Fates}

\* TypeOK, but for the Lifecycle, with at most one fate for each task.
Types ==
    /\ epc \in [Emits -> EmitLabels]
    /\ nxt \in [Emits -> 1 .. Handlers + 1]
    /\ tpc \in [Tasks -> TaskLabels]
    /\ token \in [Tasks -> BOOLEAN]
    /\ fate \in [Tasks -> {<<>>} \cup Once]

\* An emit and its unit.
EmitInv(e) ==
    /\ InCall(e) <=> unit[e] = "held"
    /\ epc[e] = "new" => unit[e] = "new"
    /\ epc[e] \in {"new", "rejected"} => nxt[e] = 1
    /\ epc[e] = "returned" => nxt[e] = Handlers + 1

Emitters == \A e \in Emits : EmitInv(e)

\* An emit works at one task.  The tasks after it are untouched, those before it
\* are in the hands of their goroutines, or over.
AtEmitter == {"tracked", "refused", "inline", "overflow", "blocked", "dropping", "leaving"}
Away      == {"parked", "slotted", "unparked", "handedback", "running", "freeing",
              "leaving", "gone"}

Ahead(t)  == t[2] > nxt[t[1]]
Behind(t) == t[2] < nxt[t[1]]

PosInv(t) ==
    /\ Ahead(t) => tpc[t] = "new"
    /\ Behind(t) => tpc[t] \in Away
    /\ Inline(t) => \/ tpc[t] = "new"
                    \/ tpc[t] \in AtEmitter /\ epc[t[1]] = "dispatching"
                    \/ tpc[t] = "sync" /\ epc[t[1]] = "running"

Positions == \A t \in Tasks : PosInv(t)

\* Where a task is, its unit and its fate agree.
Counted == {"tracked", "inline", "overflow", "blocked", "dropping", "parked", "slotted",
            "unparked", "handedback", "running", "freeing", "leaving"}
Fated   == {"dropping", "freeing", "leaving", "gone"}

TaskInv(t) ==
    /\ tpc[t] \in Counted <=> unit[t] = "held"
    /\ tpc[t] \in {"new", "sync"} => unit[t] = "new"
    /\ tpc[t] \in Fated <=> fate[t] # <<>>
    /\ tpc[t] \in {"refused", "handedback"} => forced

Workings == \A t \in Tasks : TaskInv(t)

\* The tasks that have a slot, and those that have a place in the queue.
Slots  == {t \in Tasks : tpc[t] \in {"running", "freeing", "slotted", "unparked"}}
Places == {t \in Tasks : token[t]}

Tokens == IsFiniteSet(Slots) /\ IsFiniteSet(Places) /\ TokensExact

BusInv == Types /\ Emitters /\ Positions /\ Workings /\ Tokens /\ GracefulLosesNothing

BInv == LP!IInv /\ BusInv

-----------------------------------------------------------------------------
(* The Lifecycle inside the bus *)

\* What its invariant says of the variables the bus shares with it.
LEMMA LifeFacts ==
    ASSUME LP!IInv
    PROVE  /\ unit \in [Units -> {"new", "held", "released", "refused"}]
           /\ cancelled => forced
           /\ done => \A u \in Units : unit[u] # "held"
           /\ \A c \in Callers : pc[c] = "nil" => done
<1>1. unit \in [Units -> {"new", "held", "released", "refused"}]
  BY DEF LP!IInv, LP!TypeOK, LP!UnitState
<1>2. cancelled => forced
  BY DEF LP!IInv
<1>3. done => \A u \in Units : unit[u] # "held"
  <2>1. LP!IInv /\ done => LP!Held = {}
    BY UnitsAssumption, LP!DoneHoldsNothing
  <2> QED
    BY <2>1 DEF LP!Held
<1>4. \A c \in Callers : pc[c] = "nil" => done
  BY DEF LP!IInv
<1> QED
  BY <1>1, <1>2, <1>3, <1>4

\* A step of the bus is a step of its Lifecycle, or leaves it alone.
LEMMA BusSteps == BInv /\ [Next]_vars => [LP!Next]_(LP!vars)
<1> SUFFICES ASSUME BInv, [Next]_vars PROVE LP!Next \/ UNCHANGED life
  BY DEF LP!vars, life
<1> USE DEF L!flags, L!chans, L!work, L!callers, LP!flags, LP!chans, LP!work, LP!callers
<1>u. Emits \subseteq Units /\ Tasks \subseteq Units
  BY DEF Units
<1>t. \A e \in Emits : nxt[e] <= Handlers => At(e) \in Units
  BY LocalBusAssumption DEF At, Units, Tasks, BInv, BusInv, Types
<1>r. ASSUME NEW u \in Units, L!Release(u) PROVE LP!Next \/ UNCHANGED life
  <2>1. LP!Release(u) \/ UNCHANGED life
    BY <1>r DEF L!Release, LP!Release, L!Uncount, LP!Uncount, L!vars, LP!vars
  <2> QED
    BY <2>1 DEF LP!Next, LP!Work
<1>h. ASSUME NEW u \in Units, L!OpenHandler(u) \/ L!EndHandler(u) \/ L!AfterFunc(u)
      PROVE  LP!Next
  <2>1. LP!OpenHandler(u) \/ LP!EndHandler(u) \/ LP!AfterFunc(u)
    BY <1>h DEF L!OpenHandler, LP!OpenHandler, L!EndHandler, LP!EndHandler, L!AfterFunc,
       LP!AfterFunc
  <2> QED
    BY <2>1 DEF LP!Next, LP!Work
<1>1. ASSUME NEW e \in Emits, NEW p \in Units \cup {NoParent}, Emit(e, p) \/ EmitSync(e, p)
      PROVE  LP!Next
  <2>1. LP!Admit(e, p)
    BY <1>1 DEF Emit, EmitSync, Begin, L!Admit, LP!Admit, L!Nested, LP!Nested, L!Admissible,
       LP!Admissible, L!Count, LP!Count, L!Refuse, LP!Refuse
  <2> QED
    BY <1>u, <2>1 DEF LP!Next, LP!Work
<1>2. ASSUME NEW e \in Emits, DispatchTrack(e) PROVE LP!Next
  <2>1. LP!Track(At(e)) /\ At(e) \in Units
    BY <1>2, <1>t DEF DispatchTrack, Async, L!Track, LP!Track, L!Trackable, LP!Trackable,
       L!Count, LP!Count, L!Refuse, LP!Refuse
  <2> QED
    BY <2>1 DEF LP!Next, LP!Work
<1>3. ASSUME NEW e \in Emits, DropRelease(e) \/ EmitReturn(e) PROVE LP!Next \/ UNCHANGED life
  BY <1>3, <1>u, <1>t, <1>r DEF DropRelease, Async, EmitReturn
<1>4. ASSUME NEW e \in Emits, SyncStart(e) \/ SyncEnd(e) PROVE LP!Next
  BY <1>4, <1>u, <1>h DEF SyncStart, SyncEnd
<1>5. ASSUME NEW e \in Emits,
             \/ DispatchRefused(e) \/ DispatchSlot(e) \/ DispatchFull(e) \/ Park(e)
             \/ QueueFull(e) \/ BlockedEnds(e) \/ SyncStop(e) \/ EmitterDone(e)
      PROVE  UNCHANGED life
  BY <1>5 DEF DispatchRefused, DispatchSlot, DispatchFull, Park, QueueFull, BlockedEnds,
     SyncStop, EmitterDone
<1>6. ASSUME NEW t \in Tasks, HandlerStart(t) \/ HandlerEnd(t) \/ Leave(t)
      PROVE  LP!Next \/ UNCHANGED life
  BY <1>6, <1>u, <1>h, <1>r DEF HandlerStart, HandlerEnd, Leave
<1>7. ASSUME NEW t \in Tasks,
             \/ ParkedSlot(t) \/ Unpark(t) \/ ParkedCheck(t) \/ ParkedCancelled(t)
             \/ HandedBack(t) \/ FreeSlot(t)
      PROVE  UNCHANGED life
  BY <1>7 DEF ParkedSlot, Unpark, ParkedCheck, ParkedCancelled, HandedBack, FreeSlot
<1>8. ASSUME NEW u \in Units, AfterFunc(u) PROVE LP!Next
  BY <1>8, <1>h DEF AfterFunc
<1>9. ASSUME NEW c \in Callers, Shutdown(c) PROVE LP!Next
  <2>1. LP!BeginShutdown(c) \/ LP!Expire(c)
    BY <1>9 DEF Shutdown, L!BeginShutdown, LP!BeginShutdown, L!Expire, LP!Expire, L!Goto,
       LP!Goto
  <2> QED
    BY <2>1 DEF LP!Next, LP!Call
<1>10. ASSUME NEW c \in Callers, ShutdownStep(c) PROVE LP!Next
  <2>1. LP!CallStep(c)
    BY <1>10 DEF ShutdownStep, L!CallStep, LP!CallStep, L!WaitIdle, LP!WaitIdle, L!WaitBusy,
       LP!WaitBusy, L!WakeIdle, LP!WakeIdle, L!WakeExpired, LP!WakeExpired, L!Goto, LP!Goto,
       L!InterruptMark, LP!InterruptMark, L!InterruptCancel, LP!InterruptCancel
  <2> QED
    BY <2>1 DEF LP!Next, LP!Call
<1>11. CASE UNCHANGED vars
  BY <1>11 DEF vars
<1> QED
  BY <1>1, <1>2, <1>3, <1>4, <1>5, <1>6, <1>7, <1>8, <1>9, <1>10, <1>11
  DEF Next, EmitStep, TaskStep

-----------------------------------------------------------------------------
(* Tasks and tokens *)

\* The task an emit is at.
LEMMA AtFacts ==
    ASSUME Types, NEW e \in Emits, nxt[e] <= Handlers
    PROVE  /\ At(e) \in Tasks /\ At(e)[1] = e /\ At(e)[2] = nxt[e]
           /\ \A t \in Tasks : t[1] = e /\ t[2] = nxt[e] => t = At(e)
BY LocalBusAssumption DEF At, Tasks, Types

\* A task is an emit and a number; no emit is a task.
LEMMA TaskFacts ==
    ASSUME NEW t \in Tasks
    PROVE  t[1] \in Emits /\ t[2] \in 1 .. Handlers /\ t \notin Emits /\ t \in Units
BY UnitsAssumption DEF Tasks, Units

SlotLabels == {"running", "freeing", "slotted", "unparked"}

\* The tokens of exec are the tasks with a slot, when a task takes one.
LEMMA SlotTaken ==
    ASSUME Types, Tokens, NEW t \in Tasks, NEW l \in SlotLabels, Task(t, l),
           tpc[t] \notin SlotLabels, exec' = exec + 1
    PROVE  IsFiniteSet(Slots') /\ exec' = Cardinality(Slots')
<1>1. Slots' = Slots \cup {t} /\ t \notin Slots
  BY DEF Slots, SlotLabels, Task, Types
<1> QED
  BY <1>1, FS_AddElement DEF Tokens, TokensExact, Slots

\* When it gives its slot back.
LEMMA SlotFreed ==
    ASSUME Types, Tokens, NEW t \in Tasks, NEW l, l \notin SlotLabels, Task(t, l),
           tpc[t] \in SlotLabels, exec' = exec - 1
    PROVE  IsFiniteSet(Slots') /\ exec' = Cardinality(Slots')
<1>1. Slots' = Slots \ {t} /\ t \in Slots
  BY DEF Slots, SlotLabels, Task, Types
<1> QED
  BY <1>1, FS_RemoveElement DEF Tokens, TokensExact, Slots

\* When every task keeps what it has.
LEMMA SlotKept ==
    ASSUME Types, Tokens, \A t \in Tasks : tpc'[t] \in SlotLabels <=> tpc[t] \in SlotLabels,
           UNCHANGED exec
    PROVE  IsFiniteSet(Slots') /\ exec' = Cardinality(Slots')
<1>1. Slots' = Slots
  BY DEF Slots, SlotLabels
<1> QED
  BY <1>1 DEF Tokens, TokensExact, Slots

\* The tokens of pending are the tasks with a place in the queue, when one is
\* parked.
LEMMA PlaceTaken ==
    ASSUME Types, Tokens, NEW t \in Tasks, ~token[t], token' = [token EXCEPT ![t] = TRUE],
           pending' = pending + 1
    PROVE  IsFiniteSet(Places') /\ pending' = Cardinality(Places')
<1>1. Places' = Places \cup {t} /\ t \notin Places
  BY DEF Places, Types
<1> QED
  BY <1>1, FS_AddElement DEF Tokens, TokensExact, Places

\* When a task leaves the queue, with a place in it or not.
LEMMA PlaceLeft ==
    ASSUME Types, Tokens, NEW t \in Tasks, LeaveQueue(t)
    PROVE  /\ IsFiniteSet(Places') /\ pending' = Cardinality(Places')
           /\ token' \in [Tasks -> BOOLEAN] /\ ~token'[t]
           /\ \A q \in Tasks : q # t => token'[q] = token[q]
<1>1. Places' = Places \ {t}
  BY DEF Places, LeaveQueue, Types
<1>2. token[t] <=> t \in Places
  BY DEF Places
<1>3. IsFiniteSet(Places') /\ pending' = Cardinality(Places')
  <2>1. CASE token[t]
    BY <1>1, <1>2, <2>1, FS_RemoveElement DEF Tokens, TokensExact, Places, LeaveQueue
  <2>2. CASE ~token[t]
    <3>1. Places' = Places
      BY <1>1, <1>2, <2>2
    <3> QED
      BY <2>2, <3>1 DEF Tokens, TokensExact, Places, LeaveQueue
  <2> QED
    BY <2>1, <2>2
<1>4. /\ token' \in [Tasks -> BOOLEAN] /\ ~token'[t]
      /\ \A q \in Tasks : q # t => token'[q] = token[q]
  BY DEF LeaveQueue, Types
<1> QED
  BY <1>3, <1>4

\* When the queue is left alone.
LEMMA PlaceKept ==
    ASSUME Tokens, UNCHANGED <<token, pending>>
    PROVE  IsFiniteSet(Places') /\ pending' = Cardinality(Places')
<1>1. Places' = Places
  BY DEF Places
<1> QED
  BY <1>1 DEF Tokens, TokensExact, Places

-----------------------------------------------------------------------------
(* What a step must leave to keep each part of the invariant *)

\* A task moves, and the emit that is at it does not, or goes on.
LEMMA Moved ==
    ASSUME Types, Positions, NEW t \in Tasks, NEW l \in TaskLabels, Task(t, l), UNCHANGED epc,
           ~Ahead(t), Behind(t) => l \in Away,
           \/ /\ UNCHANGED nxt
              /\ Inline(t) => \/ l \in AtEmitter /\ epc[t[1]] = "dispatching"
                              \/ l = "sync" /\ epc[t[1]] = "running"
           \/ Inline(t) /\ Advance(t[1]) /\ l \in Away
    PROVE  /\ Positions' /\ tpc' \in [Tasks -> TaskLabels]
           /\ nxt' \in [Emits -> 1 .. Handlers + 1]
<1>t. \A q \in Tasks : q[1] \in Emits /\ q[2] \in 1 .. Handlers
  BY TaskFacts
<1>n. \A e \in Emits : nxt[e] \in 1 .. Handlers + 1
  BY DEF Types
<1>1. /\ tpc' \in [Tasks -> TaskLabels] /\ tpc'[t] = l
      /\ \A q \in Tasks : q # t => tpc'[q] = tpc[q]
  BY DEF Task, Types
<1>2. CASE /\ UNCHANGED nxt
           /\ Inline(t) => \/ l \in AtEmitter /\ epc[t[1]] = "dispatching"
                           \/ l = "sync" /\ epc[t[1]] = "running"
  <2>1. \A q \in Tasks : q # t => PosInv(q)'
    BY <1>1, <1>2 DEF Positions, PosInv, Ahead, Behind, Inline
  <2>2. PosInv(t)'
    BY <1>t, <1>n, <1>1, <1>2 DEF PosInv, Ahead, Behind, Inline
  <2> QED
    BY <1>1, <1>2, <2>1, <2>2 DEF Types, Positions
<1>3. CASE Inline(t) /\ Advance(t[1]) /\ l \in Away
  <2>1. /\ nxt' \in [Emits -> 1 .. Handlers + 1]
        /\ nxt'[t[1]] = t[2] + 1 /\ \A e \in Emits : e # t[1] => nxt'[e] = nxt[e]
    BY <1>t, <1>3, LocalBusAssumption DEF Advance, Inline, Types
  <2>2. \A q \in Tasks : q[1] = t[1] /\ q[2] = t[2] => q = t
    BY DEF Tasks
  <2>3. \A q \in Tasks : PosInv(q)'
    <3> SUFFICES ASSUME NEW q \in Tasks PROVE PosInv(q)'
      OBVIOUS
    <3>1. CASE q[1] # t[1]
      BY <1>t, <1>1, <2>1, <3>1 DEF Positions, PosInv, Ahead, Behind, Inline
    <3>2. CASE q[1] = t[1] /\ q # t
      BY <1>t, <1>n, <1>1, <1>3, <2>1, <2>2, <3>2, LocalBusAssumption
      DEF Positions, PosInv, Ahead, Behind, Inline
    <3>3. CASE q = t
      BY <1>t, <1>1, <1>3, <2>1, <3>3, LocalBusAssumption DEF PosInv, Ahead, Behind, Inline
    <3> QED
      BY <3>1, <3>2, <3>3
  <2> QED
    BY <1>1, <2>1, <2>3 DEF Positions
<1> QED
  BY <1>2, <1>3

\* No emit begins or ends; only the one of a task that was dispatched goes on.
LEMMA EmitsOn ==
    ASSUME Types, Emitters, UNCHANGED epc, \A e \in Emits : unit'[e] = unit[e],
           \A e \in Emits : nxt'[e] = nxt[e] \/ InCall(e)
    PROVE  Emitters'
BY DEF Emitters, EmitInv, InCall

\* One task moves, and with it its unit and its fate.
LEMMA Worked ==
    ASSUME Types, Workings, NEW t \in Tasks, forced => forced', TaskInv(t)',
           \A q \in Tasks : q # t =>
               tpc'[q] = tpc[q] /\ unit'[q] = unit[q] /\ fate'[q] = fate[q]
    PROVE  Workings'
BY DEF Workings, TaskInv

\* A task meets its fate, and had none.
LEMMA Ended ==
    ASSUME Types, NEW t \in Tasks, NEW f \in Fates, Ends(t, f), fate[t] = <<>>
    PROVE  /\ fate' \in [Tasks -> {<<>>} \cup Once]
           /\ fate'[t] = <<f>> /\ fate'[t] # <<>>
           /\ \A q \in Tasks : q # t => fate'[q] = fate[q]
<1>1. Append(<<>>, f) = <<f>> /\ <<f>> \in Once /\ <<f>> # <<>>
  BY DEF Once
<1> QED
  BY <1>1 DEF Ends, Types

\* All of it: one task moves, and its unit, its fate and its tokens with it.
LEMMA OneTask ==
    ASSUME BInv, NEW t \in Tasks, NEW l \in TaskLabels, Task(t, l), UNCHANGED epc,
           forced => forced',
           ~Ahead(t), Behind(t) => l \in Away,
           \/ /\ UNCHANGED nxt
              /\ Inline(t) => \/ l \in AtEmitter /\ epc[t[1]] = "dispatching"
                              \/ l = "sync" /\ epc[t[1]] = "running"
           \/ Inline(t) /\ Advance(t[1]) /\ l \in Away /\ InCall(t[1]),
           \A u \in Units : u # t => unit'[u] = unit[u],
           l \in Counted <=> unit'[t] = "held",
           l \in {"new", "sync"} => unit'[t] = "new",
           fate' \in [Tasks -> {<<>>} \cup Once], \A q \in Tasks : q # t => fate'[q] = fate[q],
           l \in Fated <=> fate'[t] # <<>>,
           l \in {"refused", "handedback"} => forced',
           fate'[t] \in {<<"interrupted">>, <<"rejected">>} => forced',
           token' \in [Tasks -> BOOLEAN], \A q \in Tasks : q # t => token'[q] = token[q],
           token'[t] => l \in {"parked", "slotted"},
           IsFiniteSet(Slots'), exec' = Cardinality(Slots'),
           IsFiniteSet(Places'), pending' = Cardinality(Places')
    PROVE  BusInv'
<1> USE DEF BInv, BusInv
<1>1. Positions' /\ tpc' \in [Tasks -> TaskLabels] /\ nxt' \in [Emits -> 1 .. Handlers + 1]
  BY Moved
<1>2. tpc'[t] = l /\ \A q \in Tasks : q # t => tpc'[q] = tpc[q]
  BY DEF Task, Types
<1>3. Types'
  BY <1>1 DEF Types
<1>4. Emitters'
  <2>1. \A e \in Emits : unit'[e] = unit[e]
    BY TaskFacts DEF Units
  <2>2. \A e \in Emits : nxt'[e] = nxt[e] \/ InCall(e)
    BY DEF Advance, Types
  <2> QED
    BY <2>1, <2>2, EmitsOn
<1>5. Workings'
  <2>1. TaskInv(t)'
    BY <1>2 DEF TaskInv
  <2> QED
    BY <1>2, <2>1, TaskFacts, Worked
<1>6. Tokens'
  BY <1>2 DEF Tokens, TokensExact, Slots, Places
<1>7. GracefulLosesNothing'
  BY DEF GracefulLosesNothing
<1> QED
  BY <1>1, <1>3, <1>4, <1>5, <1>6, <1>7

\* None of it: the tasks, the emits and the units stay as they are.
LEMMA NoTask ==
    ASSUME BInv, UNCHANGED <<overflow, exec, pending, epc, nxt, tpc, token, fate, unit>>,
           forced => forced'
    PROVE  BusInv'
<1> USE DEF BInv, BusInv
<1>1. Types' /\ Emitters' /\ Positions'
  BY DEF Types, Emitters, EmitInv, InCall, Positions, PosInv, Ahead, Behind, Inline
<1>2. Workings' /\ GracefulLosesNothing'
  BY DEF Workings, TaskInv, GracefulLosesNothing
<1>3. Tokens'
  BY SlotKept, PlaceKept DEF Tokens, TokensExact, Slots, Places
<1> QED
  BY <1>1, <1>2, <1>3

-----------------------------------------------------------------------------
(* The steps of the bus *)

USE DEF life, bus

\* The task an emit is at, and what the emit is.
LEMMA AtEmit ==
    ASSUME BInv, NEW e \in Emits, Async(e) \/ Sync(e)
    PROVE  /\ At(e) \in Tasks /\ At(e)[1] = e
           /\ Inline(At(e)) /\ ~Ahead(At(e)) /\ ~Behind(At(e))
           /\ InCall(e) /\ unit[e] = "held" /\ TaskInv(At(e))
           /\ ~token[At(e)]
<1> USE DEF BInv, BusInv
<1>1. nxt[e] <= Handlers /\ InCall(e)
  BY DEF Async, Sync, InCall
<1>2. At(e) \in Tasks /\ At(e)[1] = e /\ At(e)[2] = nxt[e]
  BY <1>1, AtFacts
<1>3. Inline(At(e)) /\ ~Ahead(At(e)) /\ ~Behind(At(e))
  BY <1>2 DEF Inline, Ahead, Behind, Types
<1>4. unit[e] = "held" /\ TaskInv(At(e))
  BY <1>1, <1>2 DEF Emitters, EmitInv, Workings
<1>5. ~token[At(e)]
  BY <1>2, <1>3 DEF Tokens, TokensExact, Positions, PosInv, AtEmitter
<1> QED
  BY <1>1, <1>2, <1>3, <1>4, <1>5

\* A task that is with its own goroutine: the emit has gone on.
LEMMA OwnGoroutine ==
    ASSUME BInv, NEW t \in Tasks,
           tpc[t] \in {"parked", "slotted", "unparked", "handedback", "running", "freeing"}
    PROVE  ~Ahead(t) /\ Behind(t) /\ ~Inline(t) /\ TaskInv(t) /\ unit[t] = "held"
<1>1. ~Ahead(t) /\ ~Inline(t)
  BY DEF BInv, BusInv, Positions, PosInv, AtEmitter
<1>2. Behind(t)
  BY <1>1, TaskFacts DEF BInv, BusInv, Types, Ahead, Behind, Inline
<1> QED
  BY <1>1, <1>2 DEF BInv, BusInv, Workings, TaskInv, Counted

\* The task is counted, or refused after a deadline.
LEMMA DispatchTrackPreserves ==
    ASSUME BInv, NEW e \in Emits, DispatchTrack(e)
    PROVE  BusInv'
<1> USE DEF BInv, BusInv
<1> DEFINE t == At(e)
<1>a. /\ t \in Tasks /\ t[1] = e /\ Inline(t) /\ ~Ahead(t) /\ ~Behind(t)
      /\ InCall(e) /\ unit[e] = "held" /\ TaskInv(t) /\ ~token[t]
      /\ tpc[t] = "new" /\ epc[e] = "dispatching"
  BY AtEmit DEF DispatchTrack, Async, Sync
<1>1. PICK l \in {"tracked", "refused"} : Task(t, l)
  BY DEF DispatchTrack
<1>2. /\ l \in TaskLabels /\ l \in AtEmitter /\ l \notin Away /\ l \notin Fated
      /\ l \notin SlotLabels /\ l # "new" /\ l # "sync" /\ l # "handedback"
  BY DEF TaskLabels, AtEmitter, Away, Counted, Fated, SlotLabels
<1>3. IsFiniteSet(Slots') /\ exec' = Cardinality(Slots')
  BY <1>a, <1>1, <1>2, SlotKept DEF DispatchTrack, SlotLabels, Task, Types
<1>4. /\ IsFiniteSet(Places') /\ pending' = Cardinality(Places')
      /\ token' \in [Tasks -> BOOLEAN] /\ (token'[t] => l \in {"parked", "slotted"})
      /\ \A q \in Tasks : q # t => token'[q] = token[q]
  BY <1>a, <1>1, PlaceKept DEF DispatchTrack, Types, Tokens, TokensExact
<1>5. (unit'[t] = "held" <=> l \in Counted) /\ \A u \in Units : u # t => unit'[u] = unit[u]
  <2>1. \/ unit' = [unit EXCEPT ![t] = "held"]
        \/ unit' = [unit EXCEPT ![t] = "refused"]
    BY DEF DispatchTrack, L!Track, L!Count, L!Refuse
  <2>2. t \in Units
    BY <1>a, TaskFacts
  <2>3. tpc' = [tpc EXCEPT ![t] = IF unit'[t] = "held" THEN "tracked" ELSE "refused"]
    BY DEF DispatchTrack, Task
  <2>4. tpc'[t] = l
    BY <1>a, <1>1 DEF Task, Types
  <2> QED
    BY <1>a, <2>1, <2>2, <2>3, <2>4, LifeFacts DEF Types, Counted
<1>6. /\ fate' \in [Tasks -> {<<>>} \cup Once] /\ \A q \in Tasks : q # t => fate'[q] = fate[q]
      /\ fate'[t] # <<>> <=> l \in Fated
      /\ fate'[t] \in {<<"interrupted">>, <<"rejected">>} => forced
  BY <1>a, <1>1, <1>2 DEF DispatchTrack, Types, TaskInv, Fated, GracefulLosesNothing
<1>7. UNCHANGED <<epc, forced>> /\ UNCHANGED nxt
  BY DEF DispatchTrack, L!Track, L!flags
<1>8. l = "refused" => forced
  <2>1. ~done
    BY <1>a, LifeFacts DEF Units
  <2>2. unit'[t] # "held" => forced
    BY <1>a, <2>1, LifeFacts, TaskFacts DEF DispatchTrack, L!Track, L!Trackable, L!Count
  <2> QED
    BY <1>5, <2>2 DEF Counted
<1> HIDE DEF t
<1> QED
  BY <1>a, <1>1, <1>2, <1>3, <1>4, <1>5, <1>6, <1>7, <1>8, OneTask

\* A refused task is reported.
LEMMA DispatchRefusedPreserves ==
    ASSUME BInv, NEW e \in Emits, DispatchRefused(e)
    PROVE  BusInv'
<1> USE DEF BInv, BusInv
<1> DEFINE t == At(e)
<1>a. /\ t \in Tasks /\ t[1] = e /\ Inline(t) /\ ~Ahead(t) /\ ~Behind(t)
      /\ InCall(e) /\ unit[e] = "held" /\ TaskInv(t) /\ ~token[t]
      /\ tpc[t] = "refused" /\ epc[e] = "dispatching"
  BY AtEmit DEF DispatchRefused, Async, Sync
<1> DEFINE l == "gone"
<1>1. Task(t, l)
  BY DEF DispatchRefused
<1>2. /\ l \in TaskLabels /\ l \notin AtEmitter /\ l \in Away /\ l \notin Counted
      /\ l \in Fated /\ l \notin SlotLabels /\ l # "new" /\ l # "sync"
      /\ l # "refused" /\ l # "handedback"
  BY DEF TaskLabels, AtEmitter, Away, Counted, Fated, SlotLabels
<1>3. IsFiniteSet(Slots') /\ exec' = Cardinality(Slots')
  BY <1>a, <1>1, <1>2, SlotKept DEF DispatchRefused, SlotLabels, Task, Types
<1>4. /\ IsFiniteSet(Places') /\ pending' = Cardinality(Places')
      /\ token' \in [Tasks -> BOOLEAN] /\ (token'[t] => l \in {"parked", "slotted"})
      /\ \A q \in Tasks : q # t => token'[q] = token[q]
  BY <1>a, <1>1, PlaceKept DEF DispatchRefused, Types, Tokens, TokensExact
<1>5. (unit'[t] = "held" <=> l \in Counted) /\ \A u \in Units : u # t => unit'[u] = unit[u]
  BY <1>a, <1>1, <1>2 DEF DispatchRefused, TaskInv, Counted
<1>6. /\ fate' \in [Tasks -> {<<>>} \cup Once] /\ \A q \in Tasks : q # t => fate'[q] = fate[q]
      /\ fate'[t] # <<>> <=> l \in Fated
      /\ fate'[t] \in {<<"interrupted">>, <<"rejected">>} => forced
  <2>1. PICK f \in Fates : Ends(t, f) /\ (f \in {"interrupted", "rejected"} => forced)
    BY <1>a, LifeFacts DEF DispatchRefused, Interrupted, Fates, TaskInv
  <2>2. fate[t] = <<>>
    BY <1>a DEF TaskInv, Fated
  <2>3. (<<f>> \in {<<"interrupted">>, <<"rejected">>}) => f \in {"interrupted", "rejected"}
    OBVIOUS
  <2> QED
    BY <1>a, <1>2, <2>1, <2>2, <2>3, Ended
<1>7. UNCHANGED <<epc, forced>> /\ Advance(t[1])
  BY <1>a DEF DispatchRefused
<1> HIDE DEF t
<1> HIDE DEF l
<1> QED
  BY <1>a, <1>1, <1>2, <1>3, <1>4, <1>5, <1>6, <1>7, OneTask

\* A slot is free.
LEMMA DispatchSlotPreserves ==
    ASSUME BInv, NEW e \in Emits, DispatchSlot(e)
    PROVE  BusInv'
<1> USE DEF BInv, BusInv
<1> DEFINE t == At(e)
<1>a. /\ t \in Tasks /\ t[1] = e /\ Inline(t) /\ ~Ahead(t) /\ ~Behind(t)
      /\ InCall(e) /\ unit[e] = "held" /\ TaskInv(t) /\ ~token[t]
      /\ tpc[t] = "tracked" /\ epc[e] = "dispatching"
  BY AtEmit DEF DispatchSlot, Async, Sync
<1> DEFINE l == "running"
<1>1. Task(t, l)
  BY DEF DispatchSlot
<1>2. /\ l \in TaskLabels /\ l \notin AtEmitter /\ l \in Away /\ l \in Counted
      /\ l \notin Fated /\ l \in SlotLabels /\ l # "new" /\ l # "sync"
      /\ l # "refused" /\ l # "handedback"
  BY DEF TaskLabels, AtEmitter, Away, Counted, Fated, SlotLabels
<1>3. IsFiniteSet(Slots') /\ exec' = Cardinality(Slots')
  BY <1>a, <1>1, <1>2, SlotTaken DEF DispatchSlot, SlotLabels
<1>4. /\ IsFiniteSet(Places') /\ pending' = Cardinality(Places')
      /\ token' \in [Tasks -> BOOLEAN] /\ (token'[t] => l \in {"parked", "slotted"})
      /\ \A q \in Tasks : q # t => token'[q] = token[q]
  BY <1>a, <1>1, PlaceKept DEF DispatchSlot, Types, Tokens, TokensExact
<1>5. (unit'[t] = "held" <=> l \in Counted) /\ \A u \in Units : u # t => unit'[u] = unit[u]
  BY <1>a, <1>1, <1>2 DEF DispatchSlot, TaskInv, Counted
<1>6. /\ fate' \in [Tasks -> {<<>>} \cup Once] /\ \A q \in Tasks : q # t => fate'[q] = fate[q]
      /\ fate'[t] # <<>> <=> l \in Fated
      /\ fate'[t] \in {<<"interrupted">>, <<"rejected">>} => forced
  BY <1>a, <1>1, <1>2 DEF DispatchSlot, Types, TaskInv, Fated, GracefulLosesNothing
<1>7. UNCHANGED <<epc, forced>> /\ Advance(t[1])
  BY <1>a DEF DispatchSlot
<1> HIDE DEF t
<1> HIDE DEF l
<1> QED
  BY <1>a, <1>1, <1>2, <1>3, <1>4, <1>5, <1>6, <1>7, OneTask

\* No slot is free: the task goes by the policy, or runs inline.
LEMMA DispatchFullPreserves ==
    ASSUME BInv, NEW e \in Emits, DispatchFull(e)
    PROVE  BusInv'
<1> USE DEF BInv, BusInv
<1> DEFINE t == At(e)
<1>a. /\ t \in Tasks /\ t[1] = e /\ Inline(t) /\ ~Ahead(t) /\ ~Behind(t)
      /\ InCall(e) /\ unit[e] = "held" /\ TaskInv(t) /\ ~token[t]
      /\ tpc[t] = "tracked" /\ epc[e] = "dispatching"
  BY AtEmit DEF DispatchFull, Async, Sync
<1>1. PICK l \in {"inline", "overflow"} : Task(t, l)
  BY DEF DispatchFull
<1>2. /\ l \in TaskLabels /\ l \in AtEmitter /\ l \notin Away /\ l \in Counted
      /\ l \notin Fated /\ l \notin SlotLabels /\ l # "new" /\ l # "sync"
      /\ l # "refused" /\ l # "handedback"
  BY DEF TaskLabels, AtEmitter, Away, Counted, Fated, SlotLabels
<1>3. IsFiniteSet(Slots') /\ exec' = Cardinality(Slots')
  BY <1>a, <1>1, <1>2, SlotKept DEF DispatchFull, SlotLabels, Task, Types
<1>4. /\ IsFiniteSet(Places') /\ pending' = Cardinality(Places')
      /\ token' \in [Tasks -> BOOLEAN] /\ (token'[t] => l \in {"parked", "slotted"})
      /\ \A q \in Tasks : q # t => token'[q] = token[q]
  BY <1>a, <1>1, PlaceKept DEF DispatchFull, Types, Tokens, TokensExact
<1>5. (unit'[t] = "held" <=> l \in Counted) /\ \A u \in Units : u # t => unit'[u] = unit[u]
  BY <1>a, <1>1, <1>2 DEF DispatchFull, TaskInv, Counted
<1>6. /\ fate' \in [Tasks -> {<<>>} \cup Once] /\ \A q \in Tasks : q # t => fate'[q] = fate[q]
      /\ fate'[t] # <<>> <=> l \in Fated
      /\ fate'[t] \in {<<"interrupted">>, <<"rejected">>} => forced
  BY <1>a, <1>1, <1>2 DEF DispatchFull, Types, TaskInv, Fated, GracefulLosesNothing
<1>7. UNCHANGED <<epc, forced>> /\ UNCHANGED nxt
  BY DEF DispatchFull
<1> HIDE DEF t
<1> QED
  BY <1>a, <1>1, <1>2, <1>3, <1>4, <1>5, <1>6, <1>7, OneTask

\* The task is parked.
LEMMA ParkPreserves ==
    ASSUME BInv, NEW e \in Emits, Park(e)
    PROVE  BusInv'
<1> USE DEF BInv, BusInv
<1> DEFINE t == At(e)
<1>a. /\ t \in Tasks /\ t[1] = e /\ Inline(t) /\ ~Ahead(t) /\ ~Behind(t)
      /\ InCall(e) /\ unit[e] = "held" /\ TaskInv(t) /\ ~token[t]
      /\ tpc[t] \in {"overflow", "blocked"} /\ epc[e] = "dispatching"
  BY AtEmit DEF Park, Async, Sync
<1> DEFINE l == "parked"
<1>1. Task(t, l)
  BY DEF Park
<1>2. /\ l \in TaskLabels /\ l \notin AtEmitter /\ l \in Away /\ l \in Counted
      /\ l \notin Fated /\ l \notin SlotLabels /\ l # "new" /\ l # "sync"
      /\ l # "refused" /\ l # "handedback"
  BY DEF TaskLabels, AtEmitter, Away, Counted, Fated, SlotLabels
<1>3. IsFiniteSet(Slots') /\ exec' = Cardinality(Slots')
  BY <1>a, <1>1, <1>2, SlotKept DEF Park, SlotLabels, Task, Types
<1>4. /\ IsFiniteSet(Places') /\ pending' = Cardinality(Places')
      /\ token' \in [Tasks -> BOOLEAN] /\ (token'[t] => l \in {"parked", "slotted"})
      /\ \A q \in Tasks : q # t => token'[q] = token[q]
  <2>1. CASE UNCHANGED <<pending, token>>
    BY <1>a, <2>1, PlaceKept DEF Types
  <2>2. CASE pending' = pending + 1 /\ token' = [token EXCEPT ![t] = TRUE]
    BY <1>a, <2>2, PlaceTaken DEF Types
  <2> QED
    BY <2>1, <2>2 DEF Park
<1>5. (unit'[t] = "held" <=> l \in Counted) /\ \A u \in Units : u # t => unit'[u] = unit[u]
  BY <1>a, <1>1, <1>2 DEF Park, TaskInv, Counted
<1>6. /\ fate' \in [Tasks -> {<<>>} \cup Once] /\ \A q \in Tasks : q # t => fate'[q] = fate[q]
      /\ fate'[t] # <<>> <=> l \in Fated
      /\ fate'[t] \in {<<"interrupted">>, <<"rejected">>} => forced
  BY <1>a, <1>1, <1>2 DEF Park, Types, TaskInv, Fated, GracefulLosesNothing
<1>7. UNCHANGED <<epc, forced>> /\ Advance(t[1])
  BY <1>a DEF Park
<1> HIDE DEF t
<1> HIDE DEF l
<1> QED
  BY <1>a, <1>1, <1>2, <1>3, <1>4, <1>5, <1>6, <1>7, OneTask

\* The queue is full.
LEMMA QueueFullPreserves ==
    ASSUME BInv, NEW e \in Emits, QueueFull(e)
    PROVE  BusInv'
<1> USE DEF BInv, BusInv
<1> DEFINE t == At(e)
<1>a. /\ t \in Tasks /\ t[1] = e /\ Inline(t) /\ ~Ahead(t) /\ ~Behind(t)
      /\ InCall(e) /\ unit[e] = "held" /\ TaskInv(t) /\ ~token[t]
      /\ tpc[t] = "overflow" /\ epc[e] = "dispatching"
  BY AtEmit DEF QueueFull, Async, Sync
<1>1. PICK l \in {"dropping", "blocked"} :
         Task(t, l) /\ \/ l = "blocked" /\ fate' = fate
                       \/ l = "dropping" /\ Ends(t, "dropped")
  BY DEF QueueFull
<1>2. /\ l \in TaskLabels /\ l \in AtEmitter /\ l \notin Away /\ l \in Counted
      /\ l \notin SlotLabels /\ l # "new" /\ l # "sync" /\ l # "refused"
      /\ l # "handedback"
  BY DEF TaskLabels, AtEmitter, Away, Counted, Fated, SlotLabels
<1>3. IsFiniteSet(Slots') /\ exec' = Cardinality(Slots')
  BY <1>a, <1>1, <1>2, SlotKept DEF QueueFull, SlotLabels, Task, Types
<1>4. /\ IsFiniteSet(Places') /\ pending' = Cardinality(Places')
      /\ token' \in [Tasks -> BOOLEAN] /\ (token'[t] => l \in {"parked", "slotted"})
      /\ \A q \in Tasks : q # t => token'[q] = token[q]
  BY <1>a, <1>1, PlaceKept DEF QueueFull, Types, Tokens, TokensExact
<1>5. (unit'[t] = "held" <=> l \in Counted) /\ \A u \in Units : u # t => unit'[u] = unit[u]
  BY <1>a, <1>1, <1>2 DEF QueueFull, TaskInv, Counted
<1>6. /\ fate' \in [Tasks -> {<<>>} \cup Once] /\ \A q \in Tasks : q # t => fate'[q] = fate[q]
      /\ fate'[t] # <<>> <=> l \in Fated
      /\ fate'[t] \in {<<"interrupted">>, <<"rejected">>} => forced
  <2>1. CASE fate' = fate /\ l = "blocked"
    BY <1>a, <2>1 DEF Types, TaskInv, Fated, GracefulLosesNothing
  <2>2. CASE Ends(t, "dropped") /\ l = "dropping"
    <3>1. fate[t] = <<>> /\ "dropped" \in Fates /\ l \in Fated
      BY <1>a, <2>2 DEF TaskInv, Fated, Fates
    <3>2. <<"dropped">> \notin {<<"interrupted">>, <<"rejected">>}
      OBVIOUS
    <3> QED
      BY <1>a, <2>2, <3>1, <3>2, Ended
  <2> QED
    BY <1>1, <2>1, <2>2
<1>7. UNCHANGED <<epc, forced>> /\ UNCHANGED nxt
  BY DEF QueueFull
<1> HIDE DEF t
<1> QED
  BY <1>a, <1>1, <1>2, <1>3, <1>4, <1>5, <1>6, <1>7, OneTask

\* The wait for room ends.
LEMMA BlockedEndsPreserves ==
    ASSUME BInv, NEW e \in Emits, BlockedEnds(e)
    PROVE  BusInv'
<1> USE DEF BInv, BusInv
<1> DEFINE t == At(e)
<1>a. /\ t \in Tasks /\ t[1] = e /\ Inline(t) /\ ~Ahead(t) /\ ~Behind(t)
      /\ InCall(e) /\ unit[e] = "held" /\ TaskInv(t) /\ ~token[t]
      /\ tpc[t] = "blocked" /\ epc[e] = "dispatching"
  BY AtEmit DEF BlockedEnds, Async, Sync
<1> DEFINE l == "dropping"
<1>1. Task(t, l)
  BY DEF BlockedEnds
<1>2. /\ l \in TaskLabels /\ l \in AtEmitter /\ l \notin Away /\ l \in Counted
      /\ l \in Fated /\ l \notin SlotLabels /\ l # "new" /\ l # "sync"
      /\ l # "refused" /\ l # "handedback"
  BY DEF TaskLabels, AtEmitter, Away, Counted, Fated, SlotLabels
<1>3. IsFiniteSet(Slots') /\ exec' = Cardinality(Slots')
  BY <1>a, <1>1, <1>2, SlotKept DEF BlockedEnds, SlotLabels, Task, Types
<1>4. /\ IsFiniteSet(Places') /\ pending' = Cardinality(Places')
      /\ token' \in [Tasks -> BOOLEAN] /\ (token'[t] => l \in {"parked", "slotted"})
      /\ \A q \in Tasks : q # t => token'[q] = token[q]
  BY <1>a, <1>1, PlaceKept DEF BlockedEnds, Types, Tokens, TokensExact
<1>5. (unit'[t] = "held" <=> l \in Counted) /\ \A u \in Units : u # t => unit'[u] = unit[u]
  BY <1>a, <1>1, <1>2 DEF BlockedEnds, TaskInv, Counted
<1>6. /\ fate' \in [Tasks -> {<<>>} \cup Once] /\ \A q \in Tasks : q # t => fate'[q] = fate[q]
      /\ fate'[t] # <<>> <=> l \in Fated
      /\ fate'[t] \in {<<"interrupted">>, <<"rejected">>} => forced
  <2>1. PICK f \in Fates : Ends(t, f) /\ (f \in {"interrupted", "rejected"} => forced)
    BY <1>a, LifeFacts DEF BlockedEnds, Interrupted, Fates, TaskInv
  <2>2. fate[t] = <<>>
    BY <1>a DEF TaskInv, Fated
  <2>3. (<<f>> \in {<<"interrupted">>, <<"rejected">>}) => f \in {"interrupted", "rejected"}
    OBVIOUS
  <2> QED
    BY <1>a, <1>2, <2>1, <2>2, <2>3, Ended
<1>7. UNCHANGED <<epc, forced>> /\ UNCHANGED nxt
  BY DEF BlockedEnds
<1> HIDE DEF t
<1> HIDE DEF l
<1> QED
  BY <1>a, <1>1, <1>2, <1>3, <1>4, <1>5, <1>6, <1>7, OneTask

\* A dropped task is released.
LEMMA DropReleasePreserves ==
    ASSUME BInv, NEW e \in Emits, DropRelease(e)
    PROVE  BusInv'
<1> USE DEF BInv, BusInv
<1> DEFINE t == At(e)
<1>a. /\ t \in Tasks /\ t[1] = e /\ Inline(t) /\ ~Ahead(t) /\ ~Behind(t)
      /\ InCall(e) /\ unit[e] = "held" /\ TaskInv(t) /\ ~token[t]
      /\ tpc[t] = "dropping" /\ epc[e] = "dispatching"
  BY AtEmit DEF DropRelease, Async, Sync
<1> DEFINE l == "gone"
<1>1. Task(t, l)
  BY DEF DropRelease
<1>2. /\ l \in TaskLabels /\ l \notin AtEmitter /\ l \in Away /\ l \notin Counted
      /\ l \in Fated /\ l \notin SlotLabels /\ l # "new" /\ l # "sync"
      /\ l # "refused" /\ l # "handedback"
  BY DEF TaskLabels, AtEmitter, Away, Counted, Fated, SlotLabels
<1>3. IsFiniteSet(Slots') /\ exec' = Cardinality(Slots')
  BY <1>a, <1>1, <1>2, SlotKept DEF DropRelease, SlotLabels, Task, Types
<1>4. /\ IsFiniteSet(Places') /\ pending' = Cardinality(Places')
      /\ token' \in [Tasks -> BOOLEAN] /\ (token'[t] => l \in {"parked", "slotted"})
      /\ \A q \in Tasks : q # t => token'[q] = token[q]
  BY <1>a, <1>1, PlaceKept DEF DropRelease, Types, Tokens, TokensExact
<1>5. (unit'[t] = "held" <=> l \in Counted) /\ \A u \in Units : u # t => unit'[u] = unit[u]
  <2>1. unit[t] = "held"
    BY <1>a DEF TaskInv, Counted
  <2>2. unit' = [unit EXCEPT ![t] = "released"]
    BY <2>1 DEF DropRelease, L!Release, L!Uncount
  <2> QED
    BY <1>a, <1>2, <2>1, <2>2, LifeFacts, TaskFacts
<1>6. /\ fate' \in [Tasks -> {<<>>} \cup Once] /\ \A q \in Tasks : q # t => fate'[q] = fate[q]
      /\ fate'[t] # <<>> <=> l \in Fated
      /\ fate'[t] \in {<<"interrupted">>, <<"rejected">>} => forced
  BY <1>a, <1>1, <1>2 DEF DropRelease, Types, TaskInv, Fated, GracefulLosesNothing
<1>7. UNCHANGED <<epc, forced>> /\ Advance(t[1])
  BY <1>a DEF DropRelease, L!Release, L!Uncount, L!vars, L!flags, L!chans, L!callers
<1> HIDE DEF t
<1> HIDE DEF l
<1> QED
  BY <1>a, <1>1, <1>2, <1>3, <1>4, <1>5, <1>6, <1>7, OneTask

\* EmitSync runs a handler.
LEMMA SyncStartPreserves ==
    ASSUME BInv, NEW e \in Emits, SyncStart(e)
    PROVE  BusInv'
<1> USE DEF BInv, BusInv
<1> DEFINE t == At(e)
<1>a. /\ t \in Tasks /\ t[1] = e /\ Inline(t) /\ ~Ahead(t) /\ ~Behind(t)
      /\ InCall(e) /\ unit[e] = "held" /\ TaskInv(t) /\ ~token[t]
      /\ tpc[t] = "new" /\ epc[e] = "running"
  BY AtEmit DEF SyncStart, Async, Sync
<1> DEFINE l == "sync"
<1>1. Task(t, l)
  BY DEF SyncStart
<1>2. /\ l \in TaskLabels /\ l \notin AtEmitter /\ l \notin Away /\ l \notin Counted
      /\ l \notin Fated /\ l \notin SlotLabels /\ l = "sync" /\ l # "new"
      /\ l # "refused" /\ l # "handedback"
  BY DEF TaskLabels, AtEmitter, Away, Counted, Fated, SlotLabels
<1>3. IsFiniteSet(Slots') /\ exec' = Cardinality(Slots')
  BY <1>a, <1>1, <1>2, SlotKept DEF SyncStart, SlotLabels, Task, Types
<1>4. /\ IsFiniteSet(Places') /\ pending' = Cardinality(Places')
      /\ token' \in [Tasks -> BOOLEAN] /\ (token'[t] => l \in {"parked", "slotted"})
      /\ \A q \in Tasks : q # t => token'[q] = token[q]
  BY <1>a, <1>1, PlaceKept DEF SyncStart, Types, Tokens, TokensExact
<1>5. (unit'[t] = "held" <=> l \in Counted) /\ \A u \in Units : u # t => unit'[u] = unit[u]
  BY <1>a, <1>1, <1>2 DEF SyncStart, TaskInv, Counted, L!OpenHandler, L!EndHandler, L!flags,
     L!chans, L!callers
<1>6. /\ fate' \in [Tasks -> {<<>>} \cup Once] /\ \A q \in Tasks : q # t => fate'[q] = fate[q]
      /\ fate'[t] # <<>> <=> l \in Fated
      /\ fate'[t] \in {<<"interrupted">>, <<"rejected">>} => forced
  BY <1>a, <1>1, <1>2 DEF SyncStart, Types, TaskInv, Fated, GracefulLosesNothing
<1>7. UNCHANGED <<epc, forced>> /\ UNCHANGED nxt
  BY DEF SyncStart, L!OpenHandler, L!EndHandler, L!flags, L!chans, L!callers
<1>8. unit'[t] = "new"
  BY <1>a DEF TaskInv, SyncStart, L!OpenHandler
<1> HIDE DEF t
<1> HIDE DEF l
<1> QED
  BY <1>a, <1>1, <1>2, <1>3, <1>4, <1>5, <1>6, <1>7, <1>8, OneTask

\* The handler of EmitSync returns.
LEMMA SyncEndPreserves ==
    ASSUME BInv, NEW e \in Emits, SyncEnd(e)
    PROVE  BusInv'
<1> USE DEF BInv, BusInv
<1> DEFINE t == At(e)
<1>a. /\ t \in Tasks /\ t[1] = e /\ Inline(t) /\ ~Ahead(t) /\ ~Behind(t)
      /\ InCall(e) /\ unit[e] = "held" /\ TaskInv(t) /\ ~token[t]
      /\ tpc[t] = "sync" /\ epc[e] = "running"
  BY AtEmit DEF SyncEnd, Async, Sync
<1> DEFINE l == "gone"
<1>1. Task(t, l)
  BY DEF SyncEnd
<1>2. /\ l \in TaskLabels /\ l \notin AtEmitter /\ l \in Away /\ l \notin Counted
      /\ l \in Fated /\ l \notin SlotLabels /\ l # "new" /\ l # "sync"
      /\ l # "refused" /\ l # "handedback"
  BY DEF TaskLabels, AtEmitter, Away, Counted, Fated, SlotLabels
<1>3. IsFiniteSet(Slots') /\ exec' = Cardinality(Slots')
  BY <1>a, <1>1, <1>2, SlotKept DEF SyncEnd, SlotLabels, Task, Types
<1>4. /\ IsFiniteSet(Places') /\ pending' = Cardinality(Places')
      /\ token' \in [Tasks -> BOOLEAN] /\ (token'[t] => l \in {"parked", "slotted"})
      /\ \A q \in Tasks : q # t => token'[q] = token[q]
  BY <1>a, <1>1, PlaceKept DEF SyncEnd, Types, Tokens, TokensExact
<1>5. (unit'[t] = "held" <=> l \in Counted) /\ \A u \in Units : u # t => unit'[u] = unit[u]
  BY <1>a, <1>1, <1>2 DEF SyncEnd, TaskInv, Counted, L!OpenHandler, L!EndHandler, L!flags,
     L!chans, L!callers
<1>6. /\ fate' \in [Tasks -> {<<>>} \cup Once] /\ \A q \in Tasks : q # t => fate'[q] = fate[q]
      /\ fate'[t] # <<>> <=> l \in Fated
      /\ fate'[t] \in {<<"interrupted">>, <<"rejected">>} => forced
  <2>1. PICK f \in Fates : Ends(t, f) /\ (f \in {"interrupted", "rejected"} => forced)
    BY <1>a, LifeFacts DEF SyncEnd, Interrupted, Fates, TaskInv
  <2>2. fate[t] = <<>>
    BY <1>a DEF TaskInv, Fated
  <2>3. (<<f>> \in {<<"interrupted">>, <<"rejected">>}) => f \in {"interrupted", "rejected"}
    OBVIOUS
  <2> QED
    BY <1>a, <1>2, <2>1, <2>2, <2>3, Ended
<1>7. UNCHANGED <<epc, forced>> /\ Advance(t[1])
  BY <1>a DEF SyncEnd, L!OpenHandler, L!EndHandler, L!flags, L!chans, L!callers
<1> HIDE DEF t
<1> HIDE DEF l
<1> QED
  BY <1>a, <1>1, <1>2, <1>3, <1>4, <1>5, <1>6, <1>7, OneTask

\* A parked task gets a slot.
LEMMA ParkedSlotPreserves ==
    ASSUME BInv, NEW t \in Tasks, ParkedSlot(t)
    PROVE  BusInv'
<1> USE DEF BInv, BusInv
<1>a. /\ ~Ahead(t) /\ Behind(t) /\ ~Inline(t) /\ TaskInv(t) /\ unit[t] = "held"
      /\ tpc[t] = "parked"
  BY OwnGoroutine DEF ParkedSlot
<1> DEFINE l == "slotted"
<1>1. Task(t, l)
  BY DEF ParkedSlot
<1>2. /\ l \in TaskLabels /\ l \notin AtEmitter /\ l \in Away /\ l \in Counted
      /\ l \notin Fated /\ l \in SlotLabels /\ l # "new" /\ l # "sync"
      /\ l # "refused" /\ l # "handedback"
  BY DEF TaskLabels, AtEmitter, Away, Counted, Fated, SlotLabels
<1>3. IsFiniteSet(Slots') /\ exec' = Cardinality(Slots')
  BY <1>a, <1>1, <1>2, SlotTaken DEF ParkedSlot, SlotLabels
<1>4. /\ IsFiniteSet(Places') /\ pending' = Cardinality(Places')
      /\ token' \in [Tasks -> BOOLEAN] /\ (token'[t] => l \in {"parked", "slotted"})
      /\ \A q \in Tasks : q # t => token'[q] = token[q]
  BY <1>a, <1>1, PlaceKept DEF ParkedSlot, Types, Tokens, TokensExact
<1>5. (unit'[t] = "held" <=> l \in Counted) /\ \A u \in Units : u # t => unit'[u] = unit[u]
  BY <1>a, <1>1, <1>2 DEF ParkedSlot, TaskInv, Counted
<1>6. /\ fate' \in [Tasks -> {<<>>} \cup Once] /\ \A q \in Tasks : q # t => fate'[q] = fate[q]
      /\ fate'[t] # <<>> <=> l \in Fated
      /\ fate'[t] \in {<<"interrupted">>, <<"rejected">>} => forced
  BY <1>a, <1>1, <1>2 DEF ParkedSlot, Types, TaskInv, Fated, GracefulLosesNothing
<1>7. UNCHANGED <<epc, forced>> /\ UNCHANGED nxt
  BY DEF ParkedSlot
<1> HIDE DEF l
<1> QED
  BY <1>a, <1>1, <1>2, <1>3, <1>4, <1>5, <1>6, <1>7, OneTask

\* It leaves the queue.
LEMMA UnparkPreserves ==
    ASSUME BInv, NEW t \in Tasks, Unpark(t)
    PROVE  BusInv'
<1> USE DEF BInv, BusInv
<1>a. /\ ~Ahead(t) /\ Behind(t) /\ ~Inline(t) /\ TaskInv(t) /\ unit[t] = "held"
      /\ tpc[t] = "slotted"
  BY OwnGoroutine DEF Unpark
<1> DEFINE l == "unparked"
<1>1. Task(t, l)
  BY DEF Unpark
<1>2. /\ l \in TaskLabels /\ l \notin AtEmitter /\ l \in Away /\ l \in Counted
      /\ l \notin Fated /\ l \in SlotLabels /\ l # "new" /\ l # "sync"
      /\ l # "refused" /\ l # "handedback"
  BY DEF TaskLabels, AtEmitter, Away, Counted, Fated, SlotLabels
<1>3. IsFiniteSet(Slots') /\ exec' = Cardinality(Slots')
  BY <1>a, <1>1, <1>2, SlotKept DEF Unpark, SlotLabels, Task, Types
<1>4. /\ IsFiniteSet(Places') /\ pending' = Cardinality(Places')
      /\ token' \in [Tasks -> BOOLEAN] /\ (token'[t] => l \in {"parked", "slotted"})
      /\ \A q \in Tasks : q # t => token'[q] = token[q]
  BY <1>a, PlaceLeft DEF Unpark
<1>5. (unit'[t] = "held" <=> l \in Counted) /\ \A u \in Units : u # t => unit'[u] = unit[u]
  BY <1>a, <1>1, <1>2 DEF Unpark, TaskInv, Counted
<1>6. /\ fate' \in [Tasks -> {<<>>} \cup Once] /\ \A q \in Tasks : q # t => fate'[q] = fate[q]
      /\ fate'[t] # <<>> <=> l \in Fated
      /\ fate'[t] \in {<<"interrupted">>, <<"rejected">>} => forced
  BY <1>a, <1>1, <1>2 DEF Unpark, Types, TaskInv, Fated, GracefulLosesNothing
<1>7. UNCHANGED <<epc, forced>> /\ UNCHANGED nxt
  BY DEF Unpark
<1> HIDE DEF l
<1> QED
  BY <1>a, <1>1, <1>2, <1>3, <1>4, <1>5, <1>6, <1>7, OneTask

\* It runs, or gives the slot back.
LEMMA ParkedCheckPreserves ==
    ASSUME BInv, NEW t \in Tasks, ParkedCheck(t)
    PROVE  BusInv'
<1> USE DEF BInv, BusInv
<1>a. /\ ~Ahead(t) /\ Behind(t) /\ ~Inline(t) /\ TaskInv(t) /\ unit[t] = "held"
      /\ tpc[t] = "unparked"
  BY OwnGoroutine DEF ParkedCheck
<1>1. PICK l \in {"running", "handedback"} : Task(t, l) /\ (l = "running" \/ cancelled)
  BY DEF ParkedCheck
<1>2. /\ l \in TaskLabels /\ l \notin AtEmitter /\ l \in Away /\ l \in Counted
      /\ l \notin Fated /\ l # "new" /\ l # "sync" /\ l # "refused"
  BY DEF TaskLabels, AtEmitter, Away, Counted, Fated, SlotLabels
<1>3. IsFiniteSet(Slots') /\ exec' = Cardinality(Slots')
  <2>1. CASE Task(t, "running") /\ UNCHANGED exec
    BY <1>a, <2>1, SlotKept DEF SlotLabels, Task, Types
  <2>2. CASE Task(t, "handedback") /\ exec' = exec - 1
    <3>1. "handedback" \notin SlotLabels
      BY DEF SlotLabels
    <3> QED
      BY <1>a, <2>2, <3>1, SlotFreed DEF SlotLabels
  <2> QED
    BY <2>1, <2>2 DEF ParkedCheck
<1>4. /\ IsFiniteSet(Places') /\ pending' = Cardinality(Places')
      /\ token' \in [Tasks -> BOOLEAN] /\ (token'[t] => l \in {"parked", "slotted"})
      /\ \A q \in Tasks : q # t => token'[q] = token[q]
  BY <1>a, <1>1, PlaceKept DEF ParkedCheck, Types, Tokens, TokensExact
<1>5. (unit'[t] = "held" <=> l \in Counted) /\ \A u \in Units : u # t => unit'[u] = unit[u]
  BY <1>a, <1>1, <1>2 DEF ParkedCheck, TaskInv, Counted
<1>6. /\ fate' \in [Tasks -> {<<>>} \cup Once] /\ \A q \in Tasks : q # t => fate'[q] = fate[q]
      /\ fate'[t] # <<>> <=> l \in Fated
      /\ fate'[t] \in {<<"interrupted">>, <<"rejected">>} => forced
  BY <1>a, <1>1, <1>2 DEF ParkedCheck, Types, TaskInv, Fated, GracefulLosesNothing
<1>7. UNCHANGED <<epc, forced>> /\ UNCHANGED nxt
  BY DEF ParkedCheck
<1>8. l = "handedback" => forced
  BY <1>1, LifeFacts
<1> QED
  BY <1>a, <1>1, <1>2, <1>3, <1>4, <1>5, <1>6, <1>7, <1>8, OneTask

\* A parked task is handed back.
LEMMA ParkedCancelledPreserves ==
    ASSUME BInv, NEW t \in Tasks, ParkedCancelled(t)
    PROVE  BusInv'
<1> USE DEF BInv, BusInv
<1>a. /\ ~Ahead(t) /\ Behind(t) /\ ~Inline(t) /\ TaskInv(t) /\ unit[t] = "held"
      /\ tpc[t] = "parked"
  BY OwnGoroutine DEF ParkedCancelled
<1> DEFINE l == "handedback"
<1>1. Task(t, l)
  BY DEF ParkedCancelled
<1>2. /\ l \in TaskLabels /\ l \notin AtEmitter /\ l \in Away /\ l \in Counted
      /\ l \notin Fated /\ l \notin SlotLabels /\ l # "new" /\ l # "sync"
      /\ l # "refused"
  BY DEF TaskLabels, AtEmitter, Away, Counted, Fated, SlotLabels
<1>3. IsFiniteSet(Slots') /\ exec' = Cardinality(Slots')
  BY <1>a, <1>1, <1>2, SlotKept DEF ParkedCancelled, SlotLabels, Task, Types
<1>4. /\ IsFiniteSet(Places') /\ pending' = Cardinality(Places')
      /\ token' \in [Tasks -> BOOLEAN] /\ (token'[t] => l \in {"parked", "slotted"})
      /\ \A q \in Tasks : q # t => token'[q] = token[q]
  BY <1>a, PlaceLeft DEF ParkedCancelled
<1>5. (unit'[t] = "held" <=> l \in Counted) /\ \A u \in Units : u # t => unit'[u] = unit[u]
  BY <1>a, <1>1, <1>2 DEF ParkedCancelled, TaskInv, Counted
<1>6. /\ fate' \in [Tasks -> {<<>>} \cup Once] /\ \A q \in Tasks : q # t => fate'[q] = fate[q]
      /\ fate'[t] # <<>> <=> l \in Fated
      /\ fate'[t] \in {<<"interrupted">>, <<"rejected">>} => forced
  BY <1>a, <1>1, <1>2 DEF ParkedCancelled, Types, TaskInv, Fated, GracefulLosesNothing
<1>7. UNCHANGED <<epc, forced>> /\ UNCHANGED nxt
  BY DEF ParkedCancelled
<1>8. forced
  BY LifeFacts DEF ParkedCancelled
<1> HIDE DEF l
<1> QED
  BY <1>a, <1>1, <1>2, <1>3, <1>4, <1>5, <1>6, <1>7, <1>8, OneTask

\* It is reported.
LEMMA HandedBackPreserves ==
    ASSUME BInv, NEW t \in Tasks, HandedBack(t)
    PROVE  BusInv'
<1> USE DEF BInv, BusInv
<1>a. /\ ~Ahead(t) /\ Behind(t) /\ ~Inline(t) /\ TaskInv(t) /\ unit[t] = "held"
      /\ tpc[t] = "handedback"
  BY OwnGoroutine DEF HandedBack
<1> DEFINE l == "leaving"
<1>1. Task(t, l)
  BY DEF HandedBack
<1>2. /\ l \in TaskLabels /\ l \in AtEmitter /\ l \in Away /\ l \in Counted
      /\ l \in Fated /\ l \notin SlotLabels /\ l # "new" /\ l # "sync"
      /\ l # "refused" /\ l # "handedback"
  BY DEF TaskLabels, AtEmitter, Away, Counted, Fated, SlotLabels
<1>3. IsFiniteSet(Slots') /\ exec' = Cardinality(Slots')
  BY <1>a, <1>1, <1>2, SlotKept DEF HandedBack, SlotLabels, Task, Types
<1>4. /\ IsFiniteSet(Places') /\ pending' = Cardinality(Places')
      /\ token' \in [Tasks -> BOOLEAN] /\ (token'[t] => l \in {"parked", "slotted"})
      /\ \A q \in Tasks : q # t => token'[q] = token[q]
  BY <1>a, <1>1, PlaceKept DEF HandedBack, Types, Tokens, TokensExact
<1>5. (unit'[t] = "held" <=> l \in Counted) /\ \A u \in Units : u # t => unit'[u] = unit[u]
  BY <1>a, <1>1, <1>2 DEF HandedBack, TaskInv, Counted
<1>6. /\ fate' \in [Tasks -> {<<>>} \cup Once] /\ \A q \in Tasks : q # t => fate'[q] = fate[q]
      /\ fate'[t] # <<>> <=> l \in Fated
      /\ fate'[t] \in {<<"interrupted">>, <<"rejected">>} => forced
  <2>1. PICK f \in Fates : Ends(t, f) /\ (f \in {"interrupted", "rejected"} => forced)
    BY <1>a, LifeFacts DEF HandedBack, Interrupted, Fates, TaskInv
  <2>2. fate[t] = <<>>
    BY <1>a DEF TaskInv, Fated
  <2>3. (<<f>> \in {<<"interrupted">>, <<"rejected">>}) => f \in {"interrupted", "rejected"}
    OBVIOUS
  <2> QED
    BY <1>a, <1>2, <2>1, <2>2, <2>3, Ended
<1>7. UNCHANGED <<epc, forced>> /\ UNCHANGED nxt
  BY DEF HandedBack
<1> HIDE DEF l
<1> QED
  BY <1>a, <1>1, <1>2, <1>3, <1>4, <1>5, <1>6, <1>7, OneTask

\* The slot goes back.
LEMMA FreeSlotPreserves ==
    ASSUME BInv, NEW t \in Tasks, FreeSlot(t)
    PROVE  BusInv'
<1> USE DEF BInv, BusInv
<1>a. /\ ~Ahead(t) /\ Behind(t) /\ ~Inline(t) /\ TaskInv(t) /\ unit[t] = "held"
      /\ tpc[t] = "freeing"
  BY OwnGoroutine DEF FreeSlot
<1> DEFINE l == "leaving"
<1>1. Task(t, l)
  BY DEF FreeSlot
<1>2. /\ l \in TaskLabels /\ l \in AtEmitter /\ l \in Away /\ l \in Counted
      /\ l \in Fated /\ l \notin SlotLabels /\ l # "new" /\ l # "sync"
      /\ l # "refused" /\ l # "handedback"
  BY DEF TaskLabels, AtEmitter, Away, Counted, Fated, SlotLabels
<1>3. IsFiniteSet(Slots') /\ exec' = Cardinality(Slots')
  BY <1>a, <1>1, <1>2, SlotFreed DEF FreeSlot, SlotLabels
<1>4. /\ IsFiniteSet(Places') /\ pending' = Cardinality(Places')
      /\ token' \in [Tasks -> BOOLEAN] /\ (token'[t] => l \in {"parked", "slotted"})
      /\ \A q \in Tasks : q # t => token'[q] = token[q]
  BY <1>a, <1>1, PlaceKept DEF FreeSlot, Types, Tokens, TokensExact
<1>5. (unit'[t] = "held" <=> l \in Counted) /\ \A u \in Units : u # t => unit'[u] = unit[u]
  BY <1>a, <1>1, <1>2 DEF FreeSlot, TaskInv, Counted
<1>6. /\ fate' \in [Tasks -> {<<>>} \cup Once] /\ \A q \in Tasks : q # t => fate'[q] = fate[q]
      /\ fate'[t] # <<>> <=> l \in Fated
      /\ fate'[t] \in {<<"interrupted">>, <<"rejected">>} => forced
  BY <1>a, <1>1, <1>2 DEF FreeSlot, Types, TaskInv, Fated, GracefulLosesNothing
<1>7. UNCHANGED <<epc, forced>> /\ UNCHANGED nxt
  BY DEF FreeSlot
<1> HIDE DEF l
<1> QED
  BY <1>a, <1>1, <1>2, <1>3, <1>4, <1>5, <1>6, <1>7, OneTask

\* The handler returns.
LEMMA HandlerEndPreserves ==
    ASSUME BInv, NEW t \in Tasks, HandlerEnd(t)
    PROVE  BusInv'
<1> USE DEF BInv, BusInv
<1>a. /\ ~Ahead(t) /\ TaskInv(t) /\ tpc[t] \in {"running", "inline"}
      /\ tpc[t] = "inline" => epc[t[1]] = "dispatching"
      /\ tpc[t] = "running" => ~Inline(t)
  <2>1. tpc[t] \in {"running", "inline"} /\ TaskInv(t) /\ PosInv(t)
    BY DEF HandlerEnd, Positions, Workings
  <2>2. t[2] \in 1 .. Handlers /\ nxt[t[1]] \in 1 .. Handlers + 1
    BY TaskFacts DEF Types
  <2>3. Ahead(t) \/ Behind(t) \/ Inline(t)
    BY <2>2, LocalBusAssumption DEF Ahead, Behind, Inline
  <2> QED
    BY <2>1, <2>3 DEF PosInv, AtEmitter, Away
<1>1. PICK l \in {"freeing", "leaving"} : Task(t, l) /\ (l = "freeing" <=> tpc[t] = "running")
  BY DEF HandlerEnd
<1>2. /\ l \in TaskLabels /\ l \in Away /\ l \in Counted /\ l \in Fated
      /\ l # "new" /\ l # "sync" /\ l # "refused" /\ l # "handedback"
  BY DEF TaskLabels, AtEmitter, Away, Counted, Fated, SlotLabels
<1>3. IsFiniteSet(Slots') /\ exec' = Cardinality(Slots')
  BY <1>a, <1>1, <1>2, SlotKept DEF HandlerEnd, SlotLabels, Task, Types
<1>4. /\ IsFiniteSet(Places') /\ pending' = Cardinality(Places')
      /\ token' \in [Tasks -> BOOLEAN] /\ (token'[t] => l \in {"parked", "slotted"})
      /\ \A q \in Tasks : q # t => token'[q] = token[q]
  BY <1>a, <1>1, PlaceKept DEF HandlerEnd, Types, Tokens, TokensExact
<1>5. (unit'[t] = "held" <=> l \in Counted) /\ \A u \in Units : u # t => unit'[u] = unit[u]
  BY <1>a, <1>1, <1>2 DEF HandlerEnd, TaskInv, Counted, L!OpenHandler, L!EndHandler, L!flags,
     L!chans, L!callers
<1>6. /\ fate' \in [Tasks -> {<<>>} \cup Once] /\ \A q \in Tasks : q # t => fate'[q] = fate[q]
      /\ fate'[t] # <<>> <=> l \in Fated
      /\ fate'[t] \in {<<"interrupted">>, <<"rejected">>} => forced
  <2>1. PICK f \in Fates : Ends(t, f) /\ (f \in {"interrupted", "rejected"} => forced)
    BY <1>a, LifeFacts DEF HandlerEnd, Interrupted, Fates, TaskInv
  <2>2. fate[t] = <<>>
    BY <1>a DEF TaskInv, Fated
  <2>3. (<<f>> \in {<<"interrupted">>, <<"rejected">>}) => f \in {"interrupted", "rejected"}
    OBVIOUS
  <2> QED
    BY <1>a, <1>2, <2>1, <2>2, <2>3, Ended
<1>7. UNCHANGED <<epc, forced>> /\ UNCHANGED nxt
  BY DEF HandlerEnd, L!OpenHandler, L!EndHandler, L!flags, L!chans, L!callers
<1>8. Inline(t) => l \in AtEmitter /\ epc[t[1]] = "dispatching"
  BY <1>a, <1>1 DEF AtEmitter
<1> QED
  BY <1>a, <1>1, <1>2, <1>3, <1>4, <1>5, <1>6, <1>7, <1>8, OneTask

\* The task is released, and an emitter that ran it goes on.
LEMMA LeavePreserves ==
    ASSUME BInv, NEW t \in Tasks, Leave(t)
    PROVE  BusInv'
<1> USE DEF BInv, BusInv
<1>a. /\ ~Ahead(t) /\ TaskInv(t) /\ tpc[t] = "leaving"
      /\ Inline(t) => InCall(t[1])
  BY TaskFacts DEF Leave, Positions, PosInv, Workings, InCall
<1> DEFINE l == "gone"
<1>1. Task(t, l)
  BY DEF Leave
<1>2. /\ l \in TaskLabels /\ l \notin AtEmitter /\ l \in Away /\ l \notin Counted
      /\ l \in Fated /\ l \notin SlotLabels /\ l # "new" /\ l # "sync"
      /\ l # "refused" /\ l # "handedback"
  BY DEF TaskLabels, AtEmitter, Away, Counted, Fated, SlotLabels
<1>3. IsFiniteSet(Slots') /\ exec' = Cardinality(Slots')
  BY <1>a, <1>1, <1>2, SlotKept DEF Leave, SlotLabels, Task, Types
<1>4. /\ IsFiniteSet(Places') /\ pending' = Cardinality(Places')
      /\ token' \in [Tasks -> BOOLEAN] /\ (token'[t] => l \in {"parked", "slotted"})
      /\ \A q \in Tasks : q # t => token'[q] = token[q]
  BY <1>a, <1>1, PlaceKept DEF Leave, Types, Tokens, TokensExact
<1>5. (unit'[t] = "held" <=> l \in Counted) /\ \A u \in Units : u # t => unit'[u] = unit[u]
  <2>1. unit[t] = "held"
    BY <1>a DEF TaskInv, Counted
  <2>2. unit' = [unit EXCEPT ![t] = "released"]
    BY <2>1 DEF Leave, L!Release, L!Uncount
  <2> QED
    BY <1>a, <1>2, <2>1, <2>2, LifeFacts, TaskFacts
<1>6. /\ fate' \in [Tasks -> {<<>>} \cup Once] /\ \A q \in Tasks : q # t => fate'[q] = fate[q]
      /\ fate'[t] # <<>> <=> l \in Fated
      /\ fate'[t] \in {<<"interrupted">>, <<"rejected">>} => forced
  BY <1>a, <1>1, <1>2 DEF Leave, Types, TaskInv, Fated, GracefulLosesNothing
<1>7. UNCHANGED <<epc, forced>> /\ IF Inline(t) THEN Advance(t[1]) ELSE UNCHANGED nxt
  BY DEF Leave, L!Release, L!Uncount, L!vars, L!flags
<1> HIDE DEF l
<1> QED
  BY <1>a, <1>1, <1>2, <1>3, <1>4, <1>5, <1>6, <1>7, OneTask

\* A handler starts.
LEMMA HandlerStartPreserves ==
    ASSUME BInv, NEW t \in Tasks, HandlerStart(t)
    PROVE  BusInv'
<1> USE DEF BInv, BusInv
<1> QED
  BY NoTask DEF HandlerStart, L!OpenHandler, L!flags

\* A handler context is interrupted.
LEMMA AfterFuncPreserves ==
    ASSUME BInv, NEW u \in Units, AfterFunc(u)
    PROVE  BusInv'
<1> USE DEF BInv, BusInv
<1> QED
  BY NoTask DEF AfterFunc, L!AfterFunc, L!flags

\* A call of Shutdown, up to its return.
LEMMA ShutdownPreserves ==
    ASSUME BInv, NEW c \in Callers, Shutdown(c) \/ ShutdownStep(c)
    PROVE  BusInv'
<1> USE DEF BInv, BusInv
<1>1. UNCHANGED <<bus, unit>> /\ (forced => forced')
  BY DEF Shutdown, ShutdownStep, L!BeginShutdown, L!Expire, L!CallStep, L!WaitIdle, L!WaitBusy,
     L!WakeIdle, L!WakeExpired, L!InterruptMark, L!InterruptCancel, L!flags, L!work
<1> QED
  BY <1>1, NoTask

\* The context of an emitter ends.
LEMMA EmitterDonePreserves ==
    ASSUME BInv, NEW e \in Emits, EmitterDone(e)
    PROVE  BusInv'
<1> USE DEF BInv, BusInv
<1> QED
  BY NoTask DEF EmitterDone

\* Only an emit moves: its tasks are as they were, and are where they may be.
LEMMA OneEmit ==
    ASSUME BInv, NEW e \in Emits, NEW l \in EmitLabels, epc' = [epc EXCEPT ![e] = l],
           UNCHANGED <<overflow, exec, pending, nxt, tpc, token, fate, forced>>,
           \A u \in Units : u # e => unit'[u] = unit[u], EmitInv(e)',
           \A t \in Tasks : t[1] = e /\ Inline(t) => tpc[t] = "new"
    PROVE  BusInv'
<1> USE DEF BInv, BusInv
<1>1. Types' /\ epc'[e] = l /\ \A f \in Emits : f # e => epc'[f] = epc[f]
  BY DEF Types
<1>2. Emitters'
  BY <1>1 DEF Emitters, EmitInv, InCall, Units
<1>3. Positions'
  BY <1>1, TaskFacts DEF Positions, PosInv, Ahead, Behind, Inline
<1>4. Workings'
  <2>1. \A t \in Tasks : unit'[t] = unit[t]
    BY TaskFacts
  <2> QED
    BY <2>1 DEF Workings, TaskInv
<1>5. Tokens' /\ GracefulLosesNothing'
  BY SlotKept, PlaceKept DEF Tokens, TokensExact, Slots, Places, GracefulLosesNothing
<1> QED
  BY <1>1, <1>2, <1>3, <1>4, <1>5

\* A call begins, and is let in or not.
LEMMA BeginPreserves ==
    ASSUME BInv, NEW e \in Emits, NEW p \in Units \cup {NoParent}, Emit(e, p) \/ EmitSync(e, p)
    PROVE  BusInv'
<1> USE DEF BInv, BusInv
<1>1. PICK k \in {"dispatching", "running"} : Begin(e, p, k)
  BY DEF Emit, EmitSync
<1>2. epc[e] = "new" /\ nxt[e] = 1 /\ e \in Units
  BY <1>1 DEF Begin, Emitters, EmitInv, Units
<1>3. \/ unit' = [unit EXCEPT ![e] = "held"]
      \/ unit' = [unit EXCEPT ![e] = "refused"]
  BY <1>1 DEF Begin, L!Admit, L!Count, L!Refuse
<1>4. PICK l \in {"dispatching", "running", "rejected"} :
         /\ epc' = [epc EXCEPT ![e] = l]
         /\ l \in {"dispatching", "running"} <=> unit'[e] = "held"
  BY <1>1, <1>3 DEF Begin
<1>5. UNCHANGED <<overflow, exec, pending, nxt, tpc, token, fate, forced>>
  BY <1>1 DEF Begin, L!Admit, L!flags
<1>6. EmitInv(e)'
  BY <1>2, <1>4, <1>5 DEF EmitInv, InCall, Types
<1>7. \A t \in Tasks : t[1] = e /\ Inline(t) => tpc[t] = "new"
  BY <1>2 DEF Positions, PosInv
<1>8. l \in EmitLabels /\ \A u \in Units : u # e => unit'[u] = unit[u]
  BY <1>3, LifeFacts DEF EmitLabels
<1> QED
  BY <1>4, <1>5, <1>6, <1>7, <1>8, OneEmit

\* A call returns, and is released.
LEMMA EmitReturnPreserves ==
    ASSUME BInv, NEW e \in Emits, EmitReturn(e)
    PROVE  BusInv'
<1> USE DEF BInv, BusInv
<1>1. InCall(e) /\ unit[e] = "held" /\ nxt[e] = Handlers + 1 /\ e \in Units
  BY LocalBusAssumption DEF EmitReturn, Emitters, EmitInv, Units, Types
<1>2. unit' = [unit EXCEPT ![e] = "released"] /\ UNCHANGED forced
  BY <1>1 DEF EmitReturn, L!Release, L!Uncount, L!flags
<1>3. epc' = [epc EXCEPT ![e] = "returned"] /\ "returned" \in EmitLabels
      /\ UNCHANGED <<overflow, exec, pending, nxt, tpc, token, fate>>
  BY DEF EmitReturn, EmitLabels
<1>4. EmitInv(e)' /\ \A u \in Units : u # e => unit'[u] = unit[u]
  BY <1>1, <1>2, <1>3, LifeFacts DEF EmitInv, InCall, Types
<1>5. \A t \in Tasks : t[1] = e => ~Inline(t)
  BY <1>1, TaskFacts, LocalBusAssumption DEF Inline
<1> QED
  BY <1>2, <1>3, <1>4, <1>5, OneEmit

\* EmitSync gives up: the handlers it has not run are skipped.
LEMMA SyncStopPreserves ==
    ASSUME BInv, NEW e \in Emits, SyncStop(e)
    PROVE  BusInv'
<1> USE DEF BInv, BusInv
<1> DEFINE Rest == {t \in Tasks : t[1] = e /\ t[2] >= nxt[e]}
<1>a. epc[e] = "running" /\ InCall(e) /\ nxt[e] \in 1 .. Handlers
  BY LocalBusAssumption DEF SyncStop, Sync, InCall, Types
<1>b. \A t \in Rest : tpc[t] = "new" /\ fate[t] = <<>> /\ unit[t] # "held" /\ ~token[t]
  <2> SUFFICES ASSUME NEW t \in Rest
               PROVE  tpc[t] = "new" /\ fate[t] = <<>> /\ unit[t] # "held" /\ ~token[t]
    OBVIOUS
  <2>1. tpc[t] = "new"
    <3>1. CASE t[2] > nxt[e]
      BY <3>1 DEF Positions, PosInv, Ahead
    <3>2. CASE t[2] = nxt[e]
      BY <1>a, <3>2, AtFacts DEF SyncStop
    <3> QED
      BY <1>a, <3>1, <3>2, TaskFacts
  <2> QED
    BY <2>1 DEF Workings, TaskInv, Fated, Tokens, TokensExact
<1>1. /\ \A t \in Rest : tpc'[t] = "gone"
      /\ \A t \in Tasks \ Rest : tpc'[t] = tpc[t] /\ fate'[t] = fate[t]
      /\ tpc' \in [Tasks -> TaskLabels]
  BY DEF SyncStop, Types, TaskLabels
<1>2. \A t \in Rest : fate'[t] = <<"skipped">>
  <2>1. Append(<<>>, "skipped") = <<"skipped">>
    OBVIOUS
  <2> QED
    BY <1>b, <2>1 DEF SyncStop
<1>3. <<"skipped">> # <<>> /\ <<"skipped">> \in Once
      /\ <<"skipped">> \notin {<<"interrupted">>, <<"rejected">>}
  BY DEF Once, Fates
<1>4. fate' \in [Tasks -> {<<>>} \cup Once]
  <2>1. fate' = [t \in Tasks |-> fate'[t]]
    BY DEF SyncStop
  <2>2. \A t \in Tasks : fate'[t] \in {<<>>} \cup Once
    BY <1>1, <1>2, <1>3 DEF Types
  <2> QED
    BY <2>1, <2>2
<1>5. /\ nxt' \in [Emits -> 1 .. Handlers + 1] /\ nxt'[e] = Handlers + 1
      /\ \A f \in Emits : f # e => nxt'[f] = nxt[f]
  BY LocalBusAssumption DEF SyncStop, Types
<1>6. UNCHANGED <<overflow, exec, pending, epc, token, unit, forced>>
  BY DEF SyncStop
<1> HIDE DEF Rest
<1>7. Types'
  BY <1>1, <1>4, <1>5, <1>6 DEF Types
<1>8. Emitters'
  BY <1>a, <1>5, <1>6, EmitsOn
<1>9. Positions'
  <2> SUFFICES ASSUME NEW t \in Tasks PROVE PosInv(t)'
    BY DEF Positions
  <2>1. CASE t[1] # e
    BY <1>1, <1>5, <1>6, <2>1, TaskFacts DEF Rest, Positions, PosInv, Ahead, Behind, Inline
  <2>2. CASE t[1] = e
    <3>1. t[2] \in 1 .. Handlers /\ nxt'[t[1]] = Handlers + 1
      BY <1>5, <2>2, TaskFacts
    <3>2. ~Ahead(t)' /\ ~Inline(t)'
      BY <3>1, LocalBusAssumption DEF Ahead, Inline
    <3>3. tpc'[t] \in Away
      <4>1. CASE t \in Rest
        BY <1>1, <4>1 DEF Away
      <4>2. CASE t \notin Rest
        BY <1>a, <1>1, <2>2, <3>1, <4>2 DEF Rest, Positions, PosInv, Behind
      <4> QED
        BY <4>1, <4>2
    <3> QED
      BY <3>2, <3>3 DEF PosInv
  <2> QED
    BY <2>1, <2>2
<1>10. Workings'
  BY <1>b, <1>1, <1>2, <1>3, <1>6 DEF Workings, TaskInv, Counted, Fated
<1>11. Tokens'
  <2>1. \A t \in Tasks : tpc'[t] \in SlotLabels <=> tpc[t] \in SlotLabels
    BY <1>b, <1>1 DEF SlotLabels
  <2>2. \A t \in Tasks : token'[t] => tpc'[t] \in {"parked", "slotted"}
    BY <1>b, <1>1, <1>6 DEF Tokens, TokensExact
  <2> QED
    BY <1>6, <2>1, <2>2, SlotKept, PlaceKept DEF Tokens, TokensExact, Slots, Places
<1>12. GracefulLosesNothing'
  BY <1>1, <1>2, <1>3, <1>6 DEF GracefulLosesNothing
<1> QED
  BY <1>7, <1>8, <1>9, <1>10, <1>11, <1>12

-----------------------------------------------------------------------------
(* The invariant *)

\* A new bus has run nothing.
LEMMA InitBInv == Init => BInv
<1> SUFFICES ASSUME Init PROVE BInv
  OBVIOUS
<1>1. LP!IInv
  <2>1. LP!Init
    BY DEF Init, L!Init, LP!Init
  <2>2. LP!Init => LP!IInv
    BY UnitsAssumption, LP!InitIInv
  <2> QED
    BY <2>1, <2>2
<1>2. unit = [u \in Units |-> "new"]
  BY DEF Init, L!Init
<1>3. Types
  BY LocalBusAssumption DEF Init, Types, EmitLabels, TaskLabels
<1>4. Emitters
  BY <1>2 DEF Init, Emitters, EmitInv, InCall, Units
<1>5. Positions
  BY TaskFacts, LocalBusAssumption DEF Init, Positions, PosInv, Ahead, Behind, Inline
<1>6. Workings
  BY <1>2, TaskFacts DEF Init, Workings, TaskInv, Counted, Fated
<1>7. Tokens
  <2>1. Slots = {} /\ Places = {}
    BY DEF Init, Slots, Places
  <2> QED
    BY <2>1, FS_EmptySet DEF Init, Tokens, TokensExact, Slots, Places
<1>8. GracefulLosesNothing
  BY DEF Init, GracefulLosesNothing
<1> QED
  BY <1>1, <1>3, <1>4, <1>5, <1>6, <1>7, <1>8 DEF BInv, BusInv

\* Every step keeps the invariant of the Lifecycle and that of the bus.
LEMMA NextBInv == BInv /\ [Next]_vars => BInv'
<1> SUFFICES ASSUME BInv, [Next]_vars PROVE BInv'
  OBVIOUS
<1>1. LP!IInv'
  <2>1. LP!IInv /\ [LP!Next]_(LP!vars) => LP!IInv'
    BY UnitsAssumption, LP!StepIInv
  <2> QED
    BY <2>1, BusSteps DEF BInv
<1>2. BusInv'
  <2>1. ASSUME NEW e \in Emits, NEW p \in Units \cup {NoParent}, Emit(e, p) \/ EmitSync(e, p)
        PROVE  BusInv'
    BY <2>1, BeginPreserves
  <2>2. ASSUME NEW e \in Emits, EmitStep(e) \/ EmitterDone(e) \/ SyncEnd(e) PROVE BusInv'
    BY <2>2, DispatchTrackPreserves, DispatchRefusedPreserves, DispatchSlotPreserves,
       DispatchFullPreserves, ParkPreserves, QueueFullPreserves, BlockedEndsPreserves,
       DropReleasePreserves, SyncStopPreserves, SyncStartPreserves, EmitReturnPreserves,
       EmitterDonePreserves, SyncEndPreserves DEF EmitStep
  <2>3. ASSUME NEW t \in Tasks, TaskStep(t) \/ HandlerEnd(t) PROVE BusInv'
    BY <2>3, ParkedSlotPreserves, UnparkPreserves, ParkedCheckPreserves,
       ParkedCancelledPreserves, HandedBackPreserves, HandlerStartPreserves,
       FreeSlotPreserves, LeavePreserves, HandlerEndPreserves DEF TaskStep
  <2>4. ASSUME NEW u \in Units, AfterFunc(u) PROVE BusInv'
    BY <2>4, AfterFuncPreserves
  <2>5. ASSUME NEW c \in Callers, Shutdown(c) \/ ShutdownStep(c) PROVE BusInv'
    BY <2>5, ShutdownPreserves
  <2>6. CASE UNCHANGED vars
    BY <2>6, NoTask DEF vars
  <2> QED
    BY <2>1, <2>2, <2>3, <2>4, <2>5, <2>6 DEF Next
<1> QED
  BY <1>1, <1>2 DEF BInv

\* The invariant of the local bus holds whatever is emitted, from outside or by
\* handlers, and whoever shuts it down.
THEOREM BusInvariant == Spec => []BInv
BY InitBInv, NextBInv, PTL DEF Spec

-----------------------------------------------------------------------------
(* What it says *)

\* Every handler of every emit that was let in runs once or is reported once.
THEOREM FatesAreMetOnce == Spec => []FateOnce
<1>1. BInv => FateOnce
  <2> SUFFICES ASSUME BInv, NEW t \in Tasks
               PROVE  Len(fate[t]) <= 1 /\ (tpc[t] = "gone" => Len(fate[t]) = 1)
    BY DEF FateOnce
  <2>1. fate[t] \in {<<>>} \cup Once /\ (tpc[t] = "gone" => fate[t] # <<>>)
    BY DEF BInv, BusInv, Types, Workings, TaskInv, Fated
  <2>2. Len(<<>>) = 0 /\ \A q \in Once : Len(q) = 1
    BY DEF Once
  <2>3. CASE fate[t] = <<>>
    BY <2>1, <2>2, <2>3
  <2>4. CASE fate[t] \in Once
    <3>1. Len(fate[t]) = 1
      BY <2>2, <2>4
    <3> QED
      BY <3>1
  <2> QED
    BY <2>1, <2>3, <2>4
<1> QED
  BY <1>1, BusInvariant, PTL

\* No token of a slot or of a place in the queue leaks, or is given back twice.
THEOREM TokensAreExact == Spec => []TokensExact
<1>1. BInv => TokensExact
  BY DEF BInv, BusInv, Tokens
<1> QED
  BY <1>1, BusInvariant, PTL

\* A graceful shutdown refuses and hands back no task of an emit it let in.
THEOREM GracefulNeverLoses == Spec => []GracefulLosesNothing
<1>1. BInv => GracefulLosesNothing
  BY DEF BInv, BusInv
<1> QED
  BY <1>1, BusInvariant, PTL

\* When Shutdown has returned nil every emit has returned, every task has met
\* its fate, and nothing is held.
THEOREM DrainedAlwaysSettled == Spec => []DrainedMeansSettled
<1>1. BInv => DrainedMeansSettled
  <2> SUFFICES ASSUME BInv, NEW c \in Callers, pc[c] = "nil"
               PROVE  /\ \A e \in Emits : ~InCall(e)
                      /\ \A t \in Tasks : tpc[t] \in {"new", "gone"}
                      /\ exec = 0 /\ pending = 0
    BY DEF DrainedMeansSettled
  <2>1. \A u \in Units : unit[u] # "held"
    BY LifeFacts DEF BInv
  <2>2. \A e \in Emits : ~InCall(e)
    BY <2>1 DEF BInv, BusInv, Emitters, EmitInv, Units
  <2>3. \A t \in Tasks : tpc[t] \in {"new", "gone"}
    <3> SUFFICES ASSUME NEW t \in Tasks PROVE tpc[t] \in {"new", "gone"}
      OBVIOUS
    <3>1. tpc[t] \in TaskLabels /\ tpc[t] \notin Counted
      BY <2>1, TaskFacts DEF BInv, BusInv, Types, Workings, TaskInv
    <3>2. tpc[t] \notin {"refused", "sync"}
      <4>1. t[1] \in Emits /\ t[2] \in 1 .. Handlers /\ nxt[t[1]] \in 1 .. Handlers + 1
        BY TaskFacts DEF BInv, BusInv, Types
      <4>2. Ahead(t) \/ Behind(t) \/ Inline(t)
        BY <4>1, LocalBusAssumption DEF Ahead, Behind, Inline
      <4> QED
        BY <2>2, <4>1, <4>2 DEF BInv, BusInv, Positions, PosInv, Away, InCall
    <3> QED
      BY <3>1, <3>2 DEF TaskLabels, Counted
  <2>4. Slots = {} /\ Places = {}
    BY <2>3 DEF Slots, Places, BInv, BusInv, Tokens, TokensExact
  <2>5. exec = 0 /\ pending = 0
    BY <2>4, FS_EmptySet DEF BInv, BusInv, Tokens, TokensExact, Slots, Places
  <2> QED
    BY <2>2, <2>3, <2>5
<1> QED
  BY <1>1, BusInvariant, PTL

-----------------------------------------------------------------------------
(* The bus and its Lifecycle *)

\* The Lifecycle inside the bus behaves as it does alone: what an
\* emit, a dispatch, a handler or a Shutdown of the local bus does to it is one
\* of its own operations, so that what is proved of Lifecycle holds in the bus.
THEOREM BusRunsLifecycle == Spec => LP!Spec
<1>1. Init => LP!Init
  BY DEF Init, L!Init, LP!Init
<1>2. BInv /\ [Next]_vars => [LP!Next]_(LP!vars)
  BY BusSteps
<1> QED
  BY <1>1, <1>2, BusInvariant, PTL DEF Spec, LP!Spec

\* The bus keeps the promise of GracefulStop: nothing starts behind a shut door,
\* and no caller of Shutdown is told nil while a unit of the bus is live.
THEOREM BusStopsGracefully == Spec => LP!GracefulStopSpec
<1>1. LP!Spec => LP!GracefulStopSpec
  BY UnitsAssumption, LP!Refinement
<1> QED
  BY <1>1, BusRunsLifecycle, PTL
=============================================================================
