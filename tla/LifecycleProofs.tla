-------------------------- MODULE LifecycleProofs --------------------------
(***************************************************************************)
(* Proofs about Lifecycle, for any set of units and any set of callers.    *)
(***************************************************************************)
EXTENDS Lifecycle, FiniteSetTheorems, TLAPS

(* Counting: what one unit does to the set of held units. *)

\* The set of held units gains one element when a unit is counted, so the
\* counter that Admit and Track increment stays the size of that set.
LEMMA HeldGains ==
    ASSUME TypeOK, IsFiniteSet(Held), CountExact,
           NEW u \in Units, unit[u] = "new", Count(u)
    PROVE  /\ Held' = Held \cup {u}
           /\ IsFiniteSet(Held')
           /\ CountExact'
           /\ unit' \in [Units -> UnitState]
           /\ inflight' \in Int
           /\ inflight' > 0
<1>1. Held' = Held \cup {u} /\ u \notin Held
  BY DEF TypeOK, Held, Count, UnitState
<1>2. IsFiniteSet(Held') /\ Cardinality(Held') = Cardinality(Held) + 1
  BY <1>1, FS_AddElement
<1>3. Cardinality(Held) \in Nat
  BY FS_CardinalityType
<1> QED
  BY <1>1, <1>2, <1>3 DEF TypeOK, Count, CountExact, UnitState

\* The set of held units loses one element when a unit is released, and it is
\* empty afterwards exactly when the counter was one.
LEMMA HeldLoses ==
    ASSUME TypeOK, IsFiniteSet(Held), CountExact,
           NEW u \in Units, unit[u] = "held", Uncount(u)
    PROVE  /\ Held' = Held \ {u}
           /\ IsFiniteSet(Held')
           /\ CountExact'
           /\ unit' \in [Units -> UnitState]
           /\ inflight' \in Int
           /\ inflight > 0
<1>1. Held' = Held \ {u} /\ u \in Held
  BY DEF TypeOK, Held, Uncount, UnitState
<1>2. IsFiniteSet(Held') /\ Cardinality(Held') = Cardinality(Held) - 1
  BY <1>1, FS_RemoveElement
<1>3. Cardinality(Held) \in Nat /\ Cardinality(Held') \in Nat
  BY <1>2, FS_CardinalityType
<1> QED
  BY <1>1, <1>2, <1>3 DEF TypeOK, Uncount, CountExact, UnitState

\* A step that leaves the state of the units and the counter alone leaves the
\* counting facts alone.
LEMMA HeldSame ==
    ASSUME IsFiniteSet(Held), CountExact, UNCHANGED <<unit, inflight>>
    PROVE  Held' = Held /\ IsFiniteSet(Held') /\ CountExact'
BY DEF Held, CountExact

\* Refusing a unit that was never counted does so too.
LEMMA HeldRefused ==
    ASSUME TypeOK, IsFiniteSet(Held), CountExact,
           NEW u \in Units, unit[u] = "new", Refuse(u)
    PROVE  /\ Held' = Held
           /\ IsFiniteSet(Held')
           /\ CountExact'
           /\ unit' \in [Units -> UnitState]
           /\ inflight' = inflight
<1>1. Held' = Held
  BY DEF TypeOK, Held, Refuse, UnitState
<1> QED
  BY <1>1 DEF TypeOK, Refuse, CountExact, UnitState

-----------------------------------------------------------------------------
(* The inductive invariant *)

\* A new bus, with nobody in flight and nobody waiting, satisfies the invariant.
LEMMA InitIInv == Init => IInv
<1> SUFFICES ASSUME Init PROVE IInv
  OBVIOUS
<1>1. TypeOK
  <2>1. /\ closed \in BOOLEAN /\ forced \in BOOLEAN /\ done \in BOOLEAN
        /\ idleClosed \in BOOLEAN /\ cancelled \in BOOLEAN
        /\ expired \in [Callers -> BOOLEAN]
    BY Zenon DEF Init
  <2> QED
    BY <2>1 DEF Init, TypeOK, UnitState, CtxState, CallState
<1>2. Held = {}
  BY DEF Init, Held
<1>3. IsFiniteSet(Held) /\ CountExact
  BY <1>2, FS_EmptySet DEF CountExact, Init
<1> QED
  BY <1>1, <1>3 DEF Init, IInv, IdleFlagTruthful, NoLostWakeup, ErrMeansInterrupted

\* Every critical section keeps it, and so does a handler context that opens,
\* ends or is interrupted.
LEMMA StepIInv == IInv /\ [Next]_vars => IInv'
<1> SUFFICES ASSUME IInv, [Next]_vars PROVE IInv'
  OBVIOUS
<1> USE DEF IInv, flags, chans, work, callers
<1>1. ASSUME NEW u \in Units, NEW p \in Units \cup {NoParent}, Admit(u, p)
      PROVE  IInv'
  <2>1. CASE Admissible(p) /\ Count(u)
    <3>1. /\ IsFiniteSet(Held') /\ CountExact' /\ unit' \in [Units -> UnitState]
          /\ inflight' \in Int /\ inflight' > 0
      BY <1>1, <2>1, HeldGains DEF Admit
    <3> QED
      BY <1>1, <2>1, <3>1 DEF Admit, Admissible, TypeOK, IdleFlagTruthful,
         NoLostWakeup, ErrMeansInterrupted
  <2>2. CASE Refuse(u)
    <3>1. /\ IsFiniteSet(Held') /\ CountExact' /\ unit' \in [Units -> UnitState]
          /\ inflight' = inflight
      BY <1>1, <2>2, HeldRefused DEF Admit
    <3> QED
      BY <1>1, <2>2, <3>1 DEF Admit, TypeOK, IdleFlagTruthful,
         NoLostWakeup, ErrMeansInterrupted
  <2> QED
    BY <1>1, <2>1, <2>2 DEF Admit
<1>2. ASSUME NEW u \in Units, Track(u)
      PROVE  IInv'
  <2>1. CASE Trackable /\ Count(u)
    <3>1. /\ IsFiniteSet(Held') /\ CountExact' /\ unit' \in [Units -> UnitState]
          /\ inflight' \in Int /\ inflight' > 0
      BY <1>2, <2>1, HeldGains DEF Track
    <3> QED
      BY <1>2, <2>1, <3>1 DEF Track, Trackable, TypeOK, IdleFlagTruthful,
         NoLostWakeup, ErrMeansInterrupted
  <2>2. CASE Refuse(u)
    <3>1. /\ IsFiniteSet(Held') /\ CountExact' /\ unit' \in [Units -> UnitState]
          /\ inflight' = inflight
      BY <1>2, <2>2, HeldRefused DEF Track
    <3> QED
      BY <1>2, <2>2, <3>1 DEF Track, TypeOK, IdleFlagTruthful,
         NoLostWakeup, ErrMeansInterrupted
  <2> QED
    BY <1>2, <2>1, <2>2 DEF Track
<1>3. ASSUME NEW u \in Units, Release(u)
      PROVE  IInv'
  <2>1. CASE unit[u] = "held" /\ Uncount(u)
    <3>1. /\ IsFiniteSet(Held') /\ CountExact' /\ unit' \in [Units -> UnitState]
          /\ inflight' \in Int /\ inflight > 0
      BY <1>3, <2>1, HeldLoses
    <3>2. inflight' = inflight - 1
      BY <2>1 DEF Uncount
    <3>3. TypeOK' /\ IdleFlagTruthful' /\ ErrMeansInterrupted'
      BY <2>1, <3>1 DEF Uncount, TypeOK, IdleFlagTruthful, ErrMeansInterrupted
    <3>4. (closedCh \subseteq 1 .. idle)'
      <4>1. idle' = idle /\ idle \in Nat /\ closedCh \subseteq 1 .. idle
        BY <2>1 DEF Uncount, TypeOK
      <4>2. \/ closedCh' = closedCh
            \/ idle # 0 /\ closedCh' = closedCh \cup {idle}
        BY <2>1 DEF Uncount
      <4>3. idle # 0 => idle \in 1 .. idle
        BY <4>1
      <4> HIDE DEF IInv
      <4> QED
        BY <4>1, <4>2, <4>3, Zenon
    <3>5. NoLostWakeup'
      <4> SUFFICES ASSUME NEW c \in Callers, pc[c] = "waiting"
                   PROVE  \/ wch[c] \in closedCh'
                          \/ wch[c] = idle /\ idle \notin closedCh' /\ inflight' > 0
        BY <2>1 DEF Uncount, NoLostWakeup
      <4>1. closed
        OBVIOUS
      <4>2. CASE wch[c] \in closedCh
        BY <2>1, <4>2 DEF Uncount
      <4>3. CASE wch[c] = idle /\ idle \notin closedCh
        <5>1. (~idleClosed /\ idle # 0) \/ idle = 0
          BY <4>3 DEF IdleFlagTruthful
        <5>2. pc[c] = "waiting" => wch[c] # 0
          BY DEF IInv
        <5> QED
          BY <2>1, <3>1, <3>2, <4>1, <4>3, <5>1, <5>2 DEF Uncount, TypeOK
      <4> QED
        BY <4>2, <4>3 DEF NoLostWakeup
    <3> QED
      BY <2>1, <3>1, <3>2, <3>3, <3>4, <3>5 DEF Uncount, TypeOK
  <2>2. CASE UNCHANGED vars
    BY <2>2, HeldSame DEF vars, TypeOK, IdleFlagTruthful, NoLostWakeup,
       ErrMeansInterrupted
  <2> QED
    BY <1>3, <2>1, <2>2 DEF Release
<1>4. ASSUME NEW u \in Units, OpenHandler(u) \/ AfterFunc(u) \/ EndHandler(u)
      PROVE  IInv'
  <2>1. IsFiniteSet(Held') /\ CountExact'
    BY <1>4, HeldSame DEF OpenHandler, AfterFunc, EndHandler
  <2>2. hctx' \in [Units -> CtxState]
    BY <1>4 DEF OpenHandler, AfterFunc, EndHandler, TypeOK, CtxState
  <2>3. UNCHANGED <<flags, inflight, chans, cancelled, unit, parent, callers>>
    BY <1>4 DEF OpenHandler, AfterFunc, EndHandler
  <2> QED
    BY <2>1, <2>2, <2>3 DEF TypeOK, IdleFlagTruthful, NoLostWakeup,
       ErrMeansInterrupted
<1>5. ASSUME NEW c \in Callers, Call(c)
      PROVE  IInv'
  <2>1. IsFiniteSet(Held') /\ CountExact'
    BY <1>5, HeldSame DEF Call, CallStep, BeginShutdown, CallInterrupt, WaitIdle,
       WaitBusy, WakeIdle, WakeExpired, InterruptMark, InterruptCancel, Expire
  <2> USE <2>1 DEF Goto, TypeOK, CallState, IdleFlagTruthful, NoLostWakeup,
          ErrMeansInterrupted
  <2>2. CASE BeginShutdown(c)
    BY <2>2 DEF BeginShutdown
  <2>3. CASE CallInterrupt(c)
    BY <2>3 DEF CallInterrupt
  <2>4. CASE WaitIdle(c)
    BY <2>4 DEF WaitIdle
  <2>5. CASE WaitBusy(c)
    <3>1. inflight > 0
      BY <2>5, FS_CardinalityType DEF WaitBusy, CountExact
    <3>2. /\ idle' \in Nat /\ idle' # 0 /\ idle' \notin closedCh
          /\ closedCh \subseteq 1 .. idle'
          /\ idle' = idle \/ idle \in closedCh \/ idle = 0
      BY <2>5 DEF WaitBusy
    <3>3. TypeOK' /\ IdleFlagTruthful' /\ ErrMeansInterrupted'
      BY <2>5, <3>2 DEF WaitBusy
    <3>4. NoLostWakeup'
      BY <2>5, <3>1, <3>2 DEF WaitBusy
    <3> QED
      BY <2>5, <3>2, <3>3, <3>4 DEF WaitBusy
  <2>6. CASE WakeIdle(c)
    BY <2>6 DEF WakeIdle
  <2>7. CASE WakeExpired(c)
    BY <2>7 DEF WakeExpired
  <2>8. CASE InterruptMark(c)
    BY <2>8 DEF InterruptMark
  <2>9. CASE InterruptCancel(c)
    BY <2>9 DEF InterruptCancel
  <2>10. CASE Expire(c)
    BY <2>10 DEF Expire
  <2> QED
    BY <1>5, <2>2, <2>3, <2>4, <2>5, <2>6, <2>7, <2>8, <2>9, <2>10
       DEF Call, CallStep
<1>6. CASE UNCHANGED vars
  BY <1>6, HeldSame DEF vars, TypeOK, IdleFlagTruthful, NoLostWakeup,
     ErrMeansInterrupted
<1> QED
  BY <1>1, <1>2, <1>3, <1>4, <1>5, <1>6 DEF Next, Work

\* Every reachable state of the lifecycle satisfies the inductive invariant,
\* its type invariant included.
THEOREM Invariance == Spec => []IInv
BY InitIInv, StepIInv, PTL DEF Spec

\* The counter is exact, for any number of units: every path of lifecycle.go
\* that counts is matched by one effective release.
THEOREM CountIsExact == Spec => []CountExact
<1>1. IInv => CountExact
  BY DEF IInv
<1> QED
  BY <1>1, Invariance, PTL

\* No wake-up of Wait is lost, for any number of concurrent callers.
THEOREM WakeupsAreNotLost == Spec => []NoLostWakeup
<1>1. IInv => NoLostWakeup
  BY DEF IInv
<1> QED
  BY <1>1, Invariance, PTL

\* A bus that is done holds nothing.
LEMMA DoneHoldsNothing == IInv /\ done => Held = {}
<1> SUFFICES ASSUME IInv, done PROVE Held = {}
  OBVIOUS
<1>1. Cardinality(Held) = 0
  BY DEF IInv, CountExact
<1> QED
  BY <1>1, FS_EmptySet DEF IInv

\* Once Wait has returned nil to anyone, nothing is in flight, then or later.
THEOREM NothingRunsAfterNil == Spec => []NothingAfterNil
<1>1. IInv => NothingAfterNil
  BY DoneHoldsNothing DEF IInv, NothingAfterNil
<1> QED
  BY <1>1, Invariance, PTL

-----------------------------------------------------------------------------
(* Refinement *)

\* An initial state of the lifecycle is one of GracefulStop.
LEMMA InitRefines == Init => Stop!Init
BY DEF Init, Stop!Init, Held, Door, Verdict

\* A step of the lifecycle is a step of GracefulStop, or changes nothing of it.
LEMMA StepRefines == IInv /\ [Next]_vars => [Stop!Next]_(Stop!vars)
<1> SUFFICES ASSUME IInv, [Next]_vars, ~UNCHANGED Stop!vars PROVE Stop!Next
  OBVIOUS
<1> USE DEF IInv, flags, chans, work, callers
<1>1. ASSUME NEW u \in Units, NEW p \in Units \cup {NoParent}, Admit(u, p)
      PROVE  Stop!Next
  <2>1. Door' = Door /\ Verdict' = Verdict
    BY <1>1 DEF Admit, Door, Verdict
  <2>2. CASE Admissible(p) /\ Count(u)
    <3>1. Held' = Held \cup {u} /\ u \notin Held
      BY <1>1, <2>2, HeldGains DEF Admit, Held
    <3>2. Door \in {"open", "draining"}
      BY <2>2 DEF Admissible, Door
    <3> QED
      BY <2>1, <3>1, <3>2 DEF Stop!Next, Stop!Start
  <2>3. CASE Refuse(u)
    <3>1. Held' = Held
      BY <1>1, <2>3, HeldRefused DEF Admit
    <3> QED
      BY <2>1, <3>1 DEF Stop!vars
  <2> QED
    BY <1>1, <2>2, <2>3 DEF Admit
<1>2. ASSUME NEW u \in Units, Track(u)
      PROVE  Stop!Next
  <2>1. Door' = Door /\ Verdict' = Verdict
    BY <1>2 DEF Track, Door, Verdict
  <2>2. CASE Trackable /\ Count(u)
    <3>1. Held' = Held \cup {u} /\ u \notin Held
      BY <1>2, <2>2, HeldGains DEF Track, Held
    <3>2. Door \in {"open", "draining"}
      BY <2>2 DEF Trackable, Door
    <3> QED
      BY <2>1, <3>1, <3>2 DEF Stop!Next, Stop!Start
  <2>3. CASE Refuse(u)
    <3>1. Held' = Held
      BY <1>2, <2>3, HeldRefused DEF Track
    <3> QED
      BY <2>1, <3>1 DEF Stop!vars
  <2> QED
    BY <1>2, <2>2, <2>3 DEF Track
<1>3. ASSUME NEW u \in Units, Release(u)
      PROVE  Stop!Next
  <2>1. CASE unit[u] = "held" /\ Uncount(u)
    <3>1. Held' = Held \ {u} /\ u \in Held
      BY <2>1, HeldLoses DEF Held
    <3>2. Door' = Door /\ Verdict' = Verdict
      BY <2>1 DEF Uncount, Door, Verdict
    <3> QED
      BY <3>1, <3>2 DEF Stop!Next, Stop!Finish
  <2>2. CASE UNCHANGED vars
    BY <2>2 DEF vars, Stop!vars, Held, Door, Verdict
  <2> QED
    BY <1>3, <2>1, <2>2 DEF Release
<1>4. ASSUME NEW u \in Units, OpenHandler(u) \/ AfterFunc(u) \/ EndHandler(u)
      PROVE  Stop!Next
  BY <1>4 DEF OpenHandler, AfterFunc, EndHandler, Stop!vars, Held, Door, Verdict
<1>5. ASSUME NEW c \in Callers, Call(c)
      PROVE  Stop!Next
  <2>0. Held' = Held
    BY <1>5 DEF Call, CallStep, BeginShutdown, CallInterrupt, WaitIdle, WaitBusy,
       WakeIdle, WakeExpired, InterruptMark, InterruptCancel, Expire, Held
  <2> USE <2>0 DEF Goto, TypeOK, CallState, Door, Verdict, Stop!vars
  <2>1. CASE BeginShutdown(c)
    <3>1. Verdict' = Verdict
      BY <2>1 DEF BeginShutdown
    <3>2. Door' = IF Door = "open" THEN "draining" ELSE Door
      BY <2>1 DEF BeginShutdown
    <3> QED
      BY <3>1, <3>2 DEF Stop!Next, Stop!Drain
  <2>2. CASE WaitIdle(c)
    <3>1. Held = {}
      BY <2>2, FS_EmptySet DEF WaitIdle, CountExact
    <3>2. Verdict' = [Verdict EXCEPT ![c] = "nil"]
      BY <2>2 DEF WaitIdle
    <3>3. Door' = IF Door = "forced" THEN "forced" ELSE "quiet"
      BY <2>2 DEF WaitIdle
    <3> QED
      BY <3>1, <3>2, <3>3 DEF Stop!Next, Stop!Succeed
  <2>3. CASE InterruptMark(c)
    <3>1. Verdict' = Verdict /\ Door' = "forced"
      BY <2>3 DEF InterruptMark
    <3> QED
      BY <3>1 DEF Stop!Next, Stop!Force
  <2>4. CASE InterruptCancel(c)
    <3>1. Verdict' = [Verdict EXCEPT ![c] = "err"]
      BY <2>4 DEF InterruptCancel
    <3>2. Door = "forced" /\ Door' = Door
      BY <2>4 DEF InterruptCancel
    <3> QED
      BY <3>1, <3>2 DEF Stop!Next, Stop!GiveUp
  <2>5. CASE CallInterrupt(c) \/ WaitBusy(c) \/ WakeIdle(c) \/ WakeExpired(c) \/ Expire(c)
    <3>1. Verdict' = Verdict /\ Door' = Door
      BY <2>5 DEF CallInterrupt, WaitBusy, WakeIdle, WakeExpired, Expire
    <3> QED
      BY <3>1
  <2> QED
    BY <1>5, <2>1, <2>2, <2>3, <2>4, <2>5 DEF Call, CallStep
<1>6. CASE UNCHANGED vars
  BY <1>6 DEF vars, Stop!vars, Held, Door, Verdict
<1> QED
  BY <1>1, <1>2, <1>3, <1>4, <1>5, <1>6 DEF Next, Work

\* The lifecycle implements GracefulStop: no unit starts behind a shut door,
\* and a caller that is told nil saw nothing live.
THEOREM Refinement == Spec => GracefulStopSpec
<1>1. Init => Stop!Init
  BY InitRefines
<1>2. IInv /\ [Next]_vars => [Stop!Next]_(Stop!vars)
  BY StepRefines
<1> QED
  BY <1>1, <1>2, Invariance, PTL DEF Spec, GracefulStopSpec, Stop!Spec
=============================================================================
