-------------------------- MODULE BrokerBusProofs --------------------------
(***************************************************************************)
(* Proofs about BrokerBus, for any number of subscriptions, messages and   *)
(* callers of Shutdown, on either transport.  What holds of the Lifecycle  *)
(* holds of the one inside the bus: its invariant is used as it is proved. *)
(***************************************************************************)
EXTENDS BrokerBus, TLAPS

LP == INSTANCE LifecycleProofs

-----------------------------------------------------------------------------
(* The inductive invariant, by what it is about. *)

Answers == {"sent", "lost", "reported"}
Once    == {<<a>> : a \in Answers}

\* TypeOK, but for the Lifecycle, with at most one answer for each message.
Types ==
    /\ kind \in {"jetstream", "nats"} /\ conn \in {"open", "closed"}
    /\ spc \in [Subs -> SubCalls] /\ sst \in [Subs -> SubStates]
    /\ registered \in SUBSET Subs /\ draining \in SUBSET Subs
    /\ drained \in {"nil", "open", "closed"} /\ stopped \in BOOLEAN
    /\ cpc \in [Callers -> Calls] /\ owns \in [Callers -> BOOLEAN]
    /\ mpc \in [Msgs -> Labels] /\ of \in [Msgs -> Subs]
    /\ acts \in [Msgs -> {<<>>} \cup Once]

\* Where message m is, its unit, its handler context and its answer agree.
Waits(m)    == unit[m] = "new"
Counted(m)  == unit[m] = "held"
InHandler(m) == hctx[m] \in {"live", "interrupted"}

MsgInv(m) ==
    /\ mpc[m] \in {"server", "buffered", "dropped"} => Waits(m) /\ hctx[m] = "none"
    /\ mpc[m] = "tracked" => Counted(m) /\ hctx[m] = "none"
    /\ mpc[m] = "refused" => unit[m] = "refused" /\ hctx[m] = "none"
    /\ mpc[m] = "handback" => unit[m] \in {"held", "refused"} /\ hctx[m] = "none"
    /\ mpc[m] \in {"handling", "panicked", "ending"} => Counted(m) /\ InHandler(m)
    /\ mpc[m] = "recovering" => Counted(m) /\ hctx[m] = "ended"
    /\ mpc[m] = "releasing" => unit[m] \in {"held", "refused"} /\ hctx[m] \in {"none", "ended"}
    /\ mpc[m] = "gone" => unit[m] \in {"released", "refused"} /\ hctx[m] \in {"none", "ended"}
    /\ acts[m] # <<>> <=> mpc[m] \in {"ending", "releasing", "gone"}

Messages == \A m \in Msgs : MsgInv(m)

\* A subscription and the Subscribe that made it.
SubInv(s) ==
    /\ spc[s] \in {"new", "consuming"} => sst[s] = "none"
    /\ spc[s] = "refused" => sst[s] \in {"none", "closed"}
    /\ spc[s] = "registering" => sst[s] \in {"active", "closed"}
    /\ spc[s] = "ok" => sst[s] # "none"
    /\ spc[s] = "ok" <=> s \in registered \cup draining

Subscriptions ==
    /\ \A s \in Subs : SubInv(s)
    /\ \A m \in Msgs : mpc[m] = "buffered" => sst[of[m]] \in {"active", "draining"}

AllClosed == \A s \in draining : sst[s] = "closed"

\* The drain step, which the callers share.
Drains ==
    /\ drained = "nil" => draining = {} /\ ~stopped
    /\ drained # "nil" => registered = {} /\ closed
    /\ stopped => kind = "jetstream"
    /\ kind = "jetstream" /\ (stopped \/ drained = "closed") => AllClosed
    /\ ~forced /\ drained = "closed" => AllClosed
    /\ kind = "jetstream" /\ forced => stopped \/ drained = "closed"

\* A call of Shutdown, and where it is in the Lifecycle.
CallInv(c) ==
    /\ cpc[c] = "idle" => pc[c] = "idle"
    /\ cpc[c] \in {"begun", "drain", "awaiting", "later"} => pc[c] = "begun"
    /\ cpc[c] = "waiting" => pc[c] # "idle" /\ drained = "closed"
    /\ cpc[c] = "forcing" => pc[c] \in {"interrupting", "cancelling", "err"}
    /\ cpc[c] = "forcing" /\ kind = "jetstream" => stopped
    /\ cpc[c] = "nil" => pc[c] = "nil" /\ drained = "closed"
    /\ cpc[c] = "err" => pc[c] = "err"
    /\ cpc[c] \notin {"idle", "begun"} => drained # "nil"
    /\ cpc[c] # "idle" => closed
    /\ cpc[c] \in {"nil", "err"} /\ kind = "nats" => conn = "closed"

Callings == \A c \in Callers : CallInv(c)

\* The connection is closed last, by a call that returns.
Connection ==
    conn = "closed" =>
        /\ kind = "nats" /\ closed /\ \A s \in Subs : sst[s] \in {"none", "closed"}
        /\ forced \/ (done /\ drained = "closed")

\* What is dropped without a deadline never was anyone's.
Dropped ==
    ~Pressed => \A m \in Msgs :
        mpc[m] = "dropped" => closed /\ spc[of[m]] \in {"registering", "refused"}

BusInv ==
    /\ Types /\ Messages /\ Subscriptions /\ Drains
    /\ Callings /\ Connection /\ Dropped /\ RepliesGoOut

BInv == LP!IInv /\ BusInv

-----------------------------------------------------------------------------
(* The Lifecycle inside the bus *)

\* What its invariant says of the variables the bus shares with it.
LEMMA LifeFacts ==
    ASSUME LP!IInv
    PROVE  /\ unit \in [Msgs -> {"new", "held", "released", "refused"}]
           /\ hctx \in [Msgs -> {"none", "live", "interrupted", "ended"}]
           /\ pc \in [Callers -> {"idle", "begun", "checking", "waiting", "interrupting",
                                  "cancelling", "nil", "err"}]
           /\ cancelled => forced
           /\ forced => closed
           /\ done => \A m \in Msgs : unit[m] # "held"
           /\ \A c \in Callers : /\ pc[c] = "nil" => done
                                 /\ pc[c] \in {"cancelling", "err"} => forced
<1>1. /\ unit \in [Msgs -> {"new", "held", "released", "refused"}]
      /\ hctx \in [Msgs -> {"none", "live", "interrupted", "ended"}]
      /\ pc \in [Callers -> {"idle", "begun", "checking", "waiting", "interrupting",
                             "cancelling", "nil", "err"}]
  BY DEF Units, LP!IInv, LP!TypeOK, LP!UnitState, LP!CtxState, LP!CallState
<1>2. (cancelled => forced) /\ (forced => closed)
  BY DEF LP!IInv
<1>3. done => \A m \in Msgs : unit[m] # "held"
  <2>1. LP!IInv /\ done => LP!Held = {}
    BY MsgsAssumption, LP!DoneHoldsNothing DEF Units
  <2> QED
    BY <2>1 DEF LP!Held, Units
<1>4. \A c \in Callers : /\ pc[c] = "nil" => done
                         /\ pc[c] \in {"cancelling", "err"} => forced
  BY DEF LP!IInv, LP!ErrMeansInterrupted
<1> QED
  BY <1>1, <1>2, <1>3, <1>4

\* A step of the bus is a step of its Lifecycle, or leaves it alone.
LEMMA BusSteps == [Next]_vars => [LP!Next]_(LP!vars)
<1> SUFFICES ASSUME [Next]_vars PROVE LP!Next \/ UNCHANGED life
  BY DEF LP!vars, life
<1> USE DEF Units, L!flags, L!chans, L!work, L!callers, LP!flags, LP!chans, LP!work, LP!callers
<1>1. ASSUME NEW s \in Subs, SubscribeStep(s) \/ ReportClosed(s)
      PROVE  UNCHANGED life
  BY <1>1 DEF SubscribeStep, SubscribeCheck, Consume, ConsumeFails, Register, ReportClosed
<1>2. ASSUME NEW m \in Msgs,
             Receive(m) \/ Turned(m) \/ HandBack(m) \/ Recover(m) \/ HandlerEnd(m) \/ Panic(m)
      PROVE  UNCHANGED life
  BY <1>2 DEF Receive, Turned, HandBack, Recover, HandlerEnd, Panic
<1>3. ASSUME NEW m \in Msgs, Dispatch(m) PROVE LP!Next
  <2>1. LP!Track(m)
    BY <1>3 DEF Dispatch, L!Track, LP!Track, L!Trackable, LP!Trackable, L!Count, LP!Count,
       L!Refuse, LP!Refuse
  <2> QED
    BY <2>1 DEF LP!Next, LP!Work
<1>4. ASSUME NEW m \in Msgs, HandlerStart(m) PROVE LP!Next
  <2>1. LP!OpenHandler(m)
    BY <1>4 DEF HandlerStart, L!OpenHandler, LP!OpenHandler
  <2> QED
    BY <2>1 DEF LP!Next, LP!Work
<1>5. ASSUME NEW m \in Msgs, Unwind(m) PROVE LP!Next
  <2>1. LP!EndHandler(m)
    BY <1>5 DEF Unwind, L!EndHandler, LP!EndHandler
  <2> QED
    BY <2>1 DEF LP!Next, LP!Work
<1>6. ASSUME NEW m \in Msgs, AfterFunc(m) PROVE LP!Next
  <2>1. LP!AfterFunc(m)
    BY <1>6 DEF AfterFunc, L!AfterFunc, LP!AfterFunc
  <2> QED
    BY <2>1 DEF LP!Next, LP!Work
<1>7. ASSUME NEW m \in Msgs, Leave(m) PROVE LP!Next \/ UNCHANGED life
  <2>1. LP!Release(m) \/ UNCHANGED life
    BY <1>7 DEF Leave, L!Release, LP!Release, L!Uncount, LP!Uncount, L!vars, LP!vars
  <2> QED
    BY <2>1 DEF LP!Next, LP!Work
<1>8. ASSUME NEW c \in Callers, Shutdown(c) \/ ForceStop(c) \/ Expire(c) PROVE LP!Next
  <2>1. LP!BeginShutdown(c) \/ LP!CallInterrupt(c) \/ LP!Expire(c)
    BY <1>8 DEF Shutdown, ForceStop, Expire, L!BeginShutdown, LP!BeginShutdown,
       L!CallInterrupt, LP!CallInterrupt, L!Expire, LP!Expire, L!Goto, LP!Goto
  <2> QED
    BY <2>1 DEF LP!Next, LP!Call
<1>9. ASSUME NEW c \in Callers, LifeStep(c) PROVE LP!Next
  <2> USE DEF L!Goto, LP!Goto
  <2>1. LP!CallStep(c)
    BY <1>9 DEF LifeStep, L!CallStep, LP!CallStep, L!WaitIdle, LP!WaitIdle, L!WaitBusy,
       LP!WaitBusy, L!WakeIdle, LP!WakeIdle, L!WakeExpired, LP!WakeExpired,
       L!InterruptMark, LP!InterruptMark, L!InterruptCancel, LP!InterruptCancel
  <2> QED
    BY <2>1 DEF LP!Next, LP!Call
<1>10. ASSUME NEW c \in Callers,
              TakeDrain(c) \/ Drain(c) \/ Drained(c) \/ SeesDrained(c) \/ Return(c)
       PROVE  UNCHANGED life
  BY <1>10 DEF TakeDrain, Drain, Drained, SeesDrained, Return
<1>11. CASE UNCHANGED vars
  BY <1>11 DEF vars
<1> QED
  BY <1>1, <1>2, <1>3, <1>4, <1>5, <1>6, <1>7, <1>8, <1>9, <1>10, <1>11
  DEF Next, MsgStep, ShutdownStep
-----------------------------------------------------------------------------
(* The steps of the bus *)

USE DEF life, subs, stop, msgs, Msg, Call

\* Subscriptions that end close, and what they have buffered is dropped.
LEMMA EndFacts ==
    ASSUME Types, NEW S, End(S)
    PROVE  /\ sst' \in [Subs -> SubStates] /\ mpc' \in [Msgs -> Labels]
           /\ \A s \in Subs : sst'[s] = IF s \in S /\ sst[s] # "none" THEN "closed" ELSE sst[s]
           /\ \A m \in Msgs :
                 mpc'[m] = IF of[m] \in S /\ mpc[m] = "buffered" THEN "dropped" ELSE mpc[m]
BY DEF Types, End, SubStates, Labels

\* The one answer for a message.
LEMMA AnswerFacts ==
    ASSUME BInv, NEW m \in Msgs, Answer(m), acts[m] = <<>>
    PROVE  \E a \in Answers : /\ acts' = [acts EXCEPT ![m] = <<a>>]
                              /\ a = "lost" => conn = "closed"
<1>1. PICK a \in Answers : /\ acts' = [acts EXCEPT ![m] = Append(@, a)]
                           /\ a = "lost" => conn = "closed"
  BY DEF Answer, Answers, BInv, BusInv, Types
<1>2. Append(<<>>, a) = <<a>>
  OBVIOUS
<1> QED
  BY <1>1, <1>2

\* A counted message is answered with the connection open, unless the shutdown
\* was forced.
LEMMA AnswerGoesOut ==
    ASSUME BInv, NEW m \in Msgs, NEW a \in Answers, acts' = [acts EXCEPT ![m] = <<a>>],
           a = "lost" => conn = "closed", unit[m] \in {"held", "refused"},
           UNCHANGED <<forced, stopped, unit>>
    PROVE  RepliesGoOut' /\ acts' \in [Msgs -> {<<>>} \cup Once]
<1>1. acts' \in [Msgs -> {<<>>} \cup Once]
  BY DEF BInv, BusInv, Types, Once
<1>2. ~Pressed /\ unit[m] # "refused" => a # "lost"
  BY LifeFacts DEF BInv, BusInv, Connection, Pressed
<1>3. a # "lost" => <<a>> # <<"lost">>
  OBVIOUS
<1> QED
  BY <1>1, <1>2, <1>3 DEF BInv, BusInv, Types, RepliesGoOut, Pressed

\* Subscribe, up to its registration.
LEMMA SubscribePreserves ==
    ASSUME BInv, NEW s \in Subs, SubscribeCheck(s) \/ Consume(s) \/ ConsumeFails(s)
    PROVE  BusInv'
<1> USE DEF BInv, BusInv
<1>1. Types'
  BY LifeFacts DEF SubscribeCheck, Consume, ConsumeFails, Types, SubCalls, SubStates, Calls,
     Labels, Once, Answers
<1>2. Subscriptions'
  BY LifeFacts DEF SubscribeCheck, Consume, ConsumeFails, Types, Subscriptions, SubInv
<1>3. Drains'
  <2>1. drained' = drained /\ draining' = draining /\ \A t \in draining : sst'[t] = sst[t]
    BY DEF SubscribeCheck, Consume, ConsumeFails, Types, Subscriptions, SubInv
  <2> QED
    BY <2>1 DEF SubscribeCheck, Consume, ConsumeFails, Drains, AllClosed
<1>4. Connection'
  BY LifeFacts DEF SubscribeCheck, Consume, ConsumeFails, Types, Connection
<1>5. Dropped'
  BY LifeFacts DEF SubscribeCheck, Consume, ConsumeFails, Types, Dropped, Pressed
<1>6. Messages' /\ Callings' /\ RepliesGoOut'
  BY DEF SubscribeCheck, Consume, ConsumeFails, Messages, MsgInv, Waits, Counted, InHandler,
     Callings, CallInv, RepliesGoOut, Pressed
<1> QED
  BY <1>1, <1>2, <1>3, <1>4, <1>5, <1>6

\* The registration looks at closed again, under the lock.
LEMMA RegisterPreserves ==
    ASSUME BInv, NEW s \in Subs, Register(s)
    PROVE  BusInv'
<1> USE DEF BInv, BusInv
<1>1. Types'
  BY LifeFacts DEF Register, End, Types, SubCalls, SubStates, Calls, Labels, Once, Answers
<1>2. Messages'
  BY LifeFacts DEF Register, End, Types, Messages, MsgInv, Waits, Counted, InHandler
<1>3. Subscriptions'
  BY LifeFacts DEF Register, End, Types, Subscriptions, SubInv
<1>4. Drains'
  BY LifeFacts DEF Register, End, Types, Drains, AllClosed
<1>5. Connection'
  BY LifeFacts DEF Register, End, Types, Connection
<1>6. Dropped'
  BY LifeFacts DEF Register, End, Types, Dropped, Pressed
<1>7. Callings' /\ RepliesGoOut'
  BY DEF Register, End, Callings, CallInv, RepliesGoOut, Pressed
<1> QED
  BY <1>1, <1>2, <1>3, <1>4, <1>5, <1>6, <1>7

\* A drained subscription reports Closed.
LEMMA ReportClosedPreserves ==
    ASSUME BInv, NEW s \in Subs, ReportClosed(s)
    PROVE  BusInv'
<1> USE DEF BInv, BusInv
<1>1. Types'
  BY LifeFacts DEF ReportClosed, Types, SubCalls, SubStates, Calls, Labels, Once, Answers
<1>2. Subscriptions'
  BY LifeFacts DEF ReportClosed, Types, Subscriptions, SubInv
<1>3. Drains'
  BY LifeFacts DEF ReportClosed, Types, Drains, AllClosed
<1>4. Connection'
  BY LifeFacts DEF ReportClosed, Types, Connection
<1>5. Messages' /\ Callings' /\ Dropped' /\ RepliesGoOut'
  BY DEF ReportClosed, Messages, MsgInv, Waits, Counted, InHandler, Callings, CallInv,
     Dropped, Pressed, RepliesGoOut
<1> QED
  BY <1>1, <1>2, <1>3, <1>4, <1>5

\* A message reaches a subscription.
LEMMA ReceivePreserves ==
    ASSUME BInv, NEW m \in Msgs, Receive(m)
    PROVE  BusInv'
<1> USE DEF BInv, BusInv
<1>1. Types'
  BY LifeFacts DEF Receive, Types, SubCalls, SubStates, Calls, Labels, Once, Answers
<1>2. Messages'
  BY LifeFacts DEF Receive, Types, Messages, MsgInv, Waits, Counted, InHandler
<1>3. Subscriptions'
  BY LifeFacts DEF Receive, Types, Subscriptions, SubInv
<1>4. Dropped'
  BY LifeFacts DEF Receive, Types, Dropped, Pressed
<1>5. Drains' /\ Callings' /\ Connection' /\ RepliesGoOut'
  BY DEF Receive, Drains, AllClosed, Callings, CallInv, Connection, RepliesGoOut, Pressed
<1> QED
  BY <1>1, <1>2, <1>3, <1>4, <1>5

\* A callback begins, counted or refused.
LEMMA DispatchPreserves ==
    ASSUME BInv, NEW m \in Msgs, Dispatch(m)
    PROVE  BusInv'
<1> USE DEF BInv, BusInv
<1>a. /\ mpc[m] = "buffered" /\ UNCHANGED <<hctx, acts>>
      /\ \/ unit' = [unit EXCEPT ![m] = "held"] /\ mpc' = [mpc EXCEPT ![m] = "tracked"]
         \/ unit' = [unit EXCEPT ![m] = "refused"] /\ mpc' = [mpc EXCEPT ![m] = "refused"]
  <2>1. \/ unit' = [unit EXCEPT ![m] = "held"]
        \/ unit' = [unit EXCEPT ![m] = "refused"]
    BY DEF Dispatch, L!Track, L!Count, L!Refuse
  <2>2. unit \in [Msgs -> {"new", "held", "released", "refused"}]
    BY LifeFacts
  <2> QED
    BY <2>1, <2>2 DEF Dispatch, L!Track, L!flags, L!chans, L!callers
<1>1. Types'
  BY LifeFacts DEF Dispatch, L!Track, L!Trackable, L!Count, L!Refuse, L!Goto, L!flags,
     L!chans, L!work, L!callers, Types, SubCalls, SubStates, Calls, Labels, Once, Answers
<1>2. Messages'
  BY LifeFacts, <1>a DEF Types, Messages, MsgInv, Waits, Counted, InHandler, Labels
<1>3. Subscriptions'
  BY LifeFacts DEF Dispatch, L!Track, L!Trackable, L!Count, L!Refuse, L!Goto, L!flags,
     L!chans, L!work, L!callers, Types, Subscriptions, SubInv
<1>4. Dropped'
  BY LifeFacts DEF Dispatch, L!Track, L!Trackable, L!Count, L!Refuse, L!Goto, L!flags,
     L!chans, L!work, L!callers, Types, Dropped, Pressed
<1>5. RepliesGoOut'
  BY LifeFacts DEF Dispatch, L!Track, L!Trackable, L!Count, L!Refuse, L!Goto, L!flags,
     L!chans, L!work, L!callers, Types, RepliesGoOut, Pressed
<1>6. Drains' /\ Callings' /\ Connection'
  BY DEF Dispatch, L!Track, L!Trackable, L!Count, L!Refuse, L!Goto, L!flags, L!chans, L!work,
     L!callers, Drains, AllClosed, Callings, CallInv, Connection
<1> QED
  BY <1>1, <1>2, <1>3, <1>4, <1>5, <1>6

\* A message is turned away.
LEMMA TurnedPreserves ==
    ASSUME BInv, NEW m \in Msgs, Turned(m)
    PROVE  BusInv'
<1> USE DEF BInv, BusInv
<1>1. Types'
  BY LifeFacts DEF Turned, Types, SubCalls, SubStates, Calls, Labels, Once, Answers
<1>2. Messages'
  BY LifeFacts DEF Turned, Types, Messages, MsgInv, Waits, Counted, InHandler
<1>3. Subscriptions'
  BY LifeFacts DEF Turned, Types, Subscriptions, SubInv
<1>4. Dropped'
  BY LifeFacts DEF Turned, Types, Dropped, Pressed
<1>5. Drains' /\ Callings' /\ Connection' /\ RepliesGoOut'
  BY DEF Turned, Drains, AllClosed, Callings, CallInv, Connection, RepliesGoOut, Pressed
<1> QED
  BY <1>1, <1>2, <1>3, <1>4, <1>5

\* The handler starts.
LEMMA HandlerStartPreserves ==
    ASSUME BInv, NEW m \in Msgs, HandlerStart(m)
    PROVE  BusInv'
<1> USE DEF BInv, BusInv
<1>1. Types'
  BY LifeFacts DEF HandlerStart, L!OpenHandler, L!Goto, L!flags, L!chans, L!work, L!callers,
     Types, SubCalls, SubStates, Calls, Labels, Once, Answers
<1>2. Messages'
  BY LifeFacts DEF HandlerStart, L!OpenHandler, L!Goto, L!flags, L!chans, L!work, L!callers,
     Types, Messages, MsgInv, Waits, Counted, InHandler
<1>3. Subscriptions'
  BY LifeFacts DEF HandlerStart, L!OpenHandler, L!Goto, L!flags, L!chans, L!work, L!callers,
     Types, Subscriptions, SubInv
<1>4. Dropped'
  BY LifeFacts DEF HandlerStart, L!OpenHandler, L!Goto, L!flags, L!chans, L!work, L!callers,
     Types, Dropped, Pressed
<1>5. Drains' /\ Callings' /\ Connection' /\ RepliesGoOut'
  BY DEF HandlerStart, L!OpenHandler, L!Goto, L!flags, L!chans, L!work, L!callers, Drains,
     AllClosed, Callings, CallInv, Connection, RepliesGoOut, Pressed
<1> QED
  BY <1>1, <1>2, <1>3, <1>4, <1>5

\* The message is handed back.
LEMMA HandBackPreserves ==
    ASSUME BInv, NEW m \in Msgs, HandBack(m)
    PROVE  BusInv'
<1> USE DEF BInv, BusInv
<1>a. /\ mpc[m] = "handback" /\ UNCHANGED <<life, kind, conn, subs, stop, of>>
      /\ unit[m] \in {"held", "refused"} /\ acts[m] = <<>>
  BY DEF HandBack, Messages, MsgInv, Counted
<1>b. PICK a \in Answers : /\ acts' = [acts EXCEPT ![m] = <<a>>]
                           /\ a = "lost" => conn = "closed"
  BY <1>a, AnswerFacts DEF HandBack
<1>c. RepliesGoOut' /\ acts' \in [Msgs -> {<<>>} \cup Once]
  BY <1>a, <1>b, AnswerGoesOut
<1>1. Types'
  BY LifeFacts, <1>a, <1>c DEF HandBack, Types, SubCalls, SubStates, Calls, Labels, Once,
     Answers
<1>2. Messages'
  BY LifeFacts, <1>a, <1>b DEF HandBack, Types, Messages, MsgInv, Waits, Counted, InHandler
<1>3. Subscriptions'
  BY LifeFacts DEF HandBack, Types, Subscriptions, SubInv
<1>4. Dropped'
  BY LifeFacts DEF HandBack, Types, Dropped, Pressed
<1>5. RepliesGoOut'
  BY LifeFacts, <1>c DEF HandBack, Types, RepliesGoOut, Pressed
<1>6. Drains' /\ Callings' /\ Connection'
  BY DEF HandBack, Drains, AllClosed, Callings, CallInv, Connection
<1> QED
  BY <1>1, <1>2, <1>3, <1>4, <1>5, <1>6

\* The handler ends, and is answered for.
LEMMA HandlerEndPreserves ==
    ASSUME BInv, NEW m \in Msgs, HandlerEnd(m)
    PROVE  BusInv'
<1> USE DEF BInv, BusInv
<1>a. /\ mpc[m] = "handling" /\ UNCHANGED <<life, kind, conn, subs, stop, of>>
      /\ unit[m] \in {"held", "refused"} /\ acts[m] = <<>>
  BY DEF HandlerEnd, Messages, MsgInv, Counted
<1>b. PICK a \in Answers : /\ acts' = [acts EXCEPT ![m] = <<a>>]
                           /\ a = "lost" => conn = "closed"
  <2>1. CASE Answer(m)
    BY <1>a, <2>1, AnswerFacts
  <2>2. CASE acts' = [acts EXCEPT ![m] = Append(@, "reported")]
    <3>1. Append(<<>>, "reported") = <<"reported">> /\ "reported" \in Answers
      BY DEF Answers
    <3> QED
      BY <1>a, <2>2, <3>1
  <2> QED
    BY <2>1, <2>2 DEF HandlerEnd
<1>c. RepliesGoOut' /\ acts' \in [Msgs -> {<<>>} \cup Once]
  BY <1>a, <1>b, AnswerGoesOut
<1>1. Types'
  BY LifeFacts, <1>a, <1>c DEF HandlerEnd, Types, SubCalls, SubStates, Calls, Labels, Once,
     Answers
<1>2. Messages'
  BY LifeFacts, <1>a, <1>b DEF HandlerEnd, Types, Messages, MsgInv, Waits, Counted, InHandler
<1>3. Subscriptions'
  BY LifeFacts DEF HandlerEnd, Types, Subscriptions, SubInv
<1>4. Dropped'
  BY LifeFacts DEF HandlerEnd, Types, Dropped, Pressed
<1>5. RepliesGoOut'
  BY LifeFacts, <1>c DEF HandlerEnd, Types, RepliesGoOut, Pressed
<1>6. Drains' /\ Callings' /\ Connection'
  BY DEF HandlerEnd, Drains, AllClosed, Callings, CallInv, Connection
<1> QED
  BY <1>1, <1>2, <1>3, <1>4, <1>5, <1>6

\* The callback panics.
LEMMA PanicPreserves ==
    ASSUME BInv, NEW m \in Msgs, Panic(m)
    PROVE  BusInv'
<1> USE DEF BInv, BusInv
<1>1. Types'
  BY LifeFacts DEF Panic, Types, SubCalls, SubStates, Calls, Labels, Once, Answers
<1>2. Messages'
  BY LifeFacts DEF Panic, Types, Messages, MsgInv, Waits, Counted, InHandler
<1>3. Subscriptions'
  BY LifeFacts DEF Panic, Types, Subscriptions, SubInv
<1>4. Dropped'
  BY LifeFacts DEF Panic, Types, Dropped, Pressed
<1>5. Drains' /\ Callings' /\ Connection' /\ RepliesGoOut'
  BY DEF Panic, Drains, AllClosed, Callings, CallInv, Connection, RepliesGoOut, Pressed
<1> QED
  BY <1>1, <1>2, <1>3, <1>4, <1>5

\* The handler context ends.
LEMMA UnwindPreserves ==
    ASSUME BInv, NEW m \in Msgs, Unwind(m)
    PROVE  BusInv'
<1> USE DEF BInv, BusInv
<1>1. Types'
  BY LifeFacts DEF Unwind, L!EndHandler, L!Goto, L!flags, L!chans, L!work, L!callers, Types,
     SubCalls, SubStates, Calls, Labels, Once, Answers
<1>2. Messages'
  BY LifeFacts DEF Unwind, L!EndHandler, L!Goto, L!flags, L!chans, L!work, L!callers, Types,
     Messages, MsgInv, Waits, Counted, InHandler
<1>3. Subscriptions'
  BY LifeFacts DEF Unwind, L!EndHandler, L!Goto, L!flags, L!chans, L!work, L!callers, Types,
     Subscriptions, SubInv
<1>4. Dropped'
  BY LifeFacts DEF Unwind, L!EndHandler, L!Goto, L!flags, L!chans, L!work, L!callers, Types,
     Dropped, Pressed
<1>5. Drains' /\ Callings' /\ Connection' /\ RepliesGoOut'
  BY DEF Unwind, L!EndHandler, L!Goto, L!flags, L!chans, L!work, L!callers, Drains,
     AllClosed, Callings, CallInv, Connection, RepliesGoOut, Pressed
<1> QED
  BY <1>1, <1>2, <1>3, <1>4, <1>5

\* The recover answers.
LEMMA RecoverPreserves ==
    ASSUME BInv, NEW m \in Msgs, Recover(m)
    PROVE  BusInv'
<1> USE DEF BInv, BusInv
<1>a. /\ mpc[m] = "recovering" /\ UNCHANGED <<life, kind, conn, subs, stop, of>>
      /\ unit[m] \in {"held", "refused"} /\ acts[m] = <<>>
  BY DEF Recover, Messages, MsgInv, Counted
<1>b. PICK a \in Answers : /\ acts' = [acts EXCEPT ![m] = <<a>>]
                           /\ a = "lost" => conn = "closed"
  BY <1>a, AnswerFacts DEF Recover
<1>c. RepliesGoOut' /\ acts' \in [Msgs -> {<<>>} \cup Once]
  BY <1>a, <1>b, AnswerGoesOut
<1>1. Types'
  BY LifeFacts, <1>a, <1>c DEF Recover, Types, SubCalls, SubStates, Calls, Labels, Once,
     Answers
<1>2. Messages'
  BY LifeFacts, <1>a, <1>b DEF Recover, Types, Messages, MsgInv, Waits, Counted, InHandler
<1>3. Subscriptions'
  BY LifeFacts DEF Recover, Types, Subscriptions, SubInv
<1>4. Dropped'
  BY LifeFacts DEF Recover, Types, Dropped, Pressed
<1>5. RepliesGoOut'
  BY LifeFacts, <1>c DEF Recover, Types, RepliesGoOut, Pressed
<1>6. Drains' /\ Callings' /\ Connection'
  BY DEF Recover, Drains, AllClosed, Callings, CallInv, Connection
<1> QED
  BY <1>1, <1>2, <1>3, <1>4, <1>5, <1>6

\* The callback is over.
LEMMA LeavePreserves ==
    ASSUME BInv, NEW m \in Msgs, Leave(m)
    PROVE  BusInv'
<1> USE DEF BInv, BusInv
<1>a. /\ mpc[m] = "releasing" /\ mpc' = [mpc EXCEPT ![m] = "gone"] /\ UNCHANGED <<hctx, acts>>
      /\ \/ unit[m] = "held" /\ unit' = [unit EXCEPT ![m] = "released"]
         \/ unit[m] \in {"released", "refused"} /\ UNCHANGED unit
  BY DEF Leave, L!Release, L!Uncount, L!vars, L!flags, L!callers
<1>1. Types'
  BY LifeFacts DEF Leave, L!Release, L!Uncount, L!vars, L!Goto, L!flags, L!chans, L!work,
     L!callers, Types, SubCalls, SubStates, Calls, Labels, Once, Answers
<1>2. Messages'
  BY LifeFacts, <1>a DEF Types, Messages, MsgInv, Waits, Counted, InHandler, Labels
<1>3. Subscriptions'
  BY LifeFacts DEF Leave, L!Release, L!Uncount, L!vars, L!Goto, L!flags, L!chans, L!work,
     L!callers, Types, Subscriptions, SubInv
<1>4. Dropped'
  BY LifeFacts DEF Leave, L!Release, L!Uncount, L!vars, L!Goto, L!flags, L!chans, L!work,
     L!callers, Types, Dropped, Pressed
<1>5. RepliesGoOut'
  BY LifeFacts DEF Leave, L!Release, L!Uncount, L!vars, L!Goto, L!flags, L!chans, L!work,
     L!callers, Types, RepliesGoOut, Pressed
<1>6. Drains' /\ Callings' /\ Connection'
  BY DEF Leave, L!Release, L!Uncount, L!vars, L!Goto, L!flags, L!chans, L!work, L!callers,
     Drains, AllClosed, Callings, CallInv, Connection
<1> QED
  BY <1>1, <1>2, <1>3, <1>4, <1>5, <1>6

\* The context of a handler is interrupted.
LEMMA AfterFuncPreserves ==
    ASSUME BInv, NEW m \in Msgs, AfterFunc(m)
    PROVE  BusInv'
<1> USE DEF BInv, BusInv
<1>1. Messages'
  BY LifeFacts DEF AfterFunc, L!AfterFunc, L!Goto, L!flags, L!chans, L!work, L!callers,
     Types, Messages, MsgInv, Waits, Counted, InHandler
<1>2. /\ Types' /\ Subscriptions' /\ Drains' /\ Callings'
      /\ Connection' /\ Dropped' /\ RepliesGoOut'
  BY DEF AfterFunc, L!AfterFunc, L!Goto, L!flags, L!chans, L!work, L!callers, Types,
     Subscriptions, SubInv, Drains, AllClosed, Callings, CallInv, Connection, Dropped,
     Pressed, RepliesGoOut
<1> QED
  BY <1>1, <1>2

\* A call of Shutdown begins.
LEMMA ShutdownPreserves ==
    ASSUME BInv, NEW c \in Callers, Shutdown(c)
    PROVE  BusInv'
<1> USE DEF BInv, BusInv
<1>1. Types'
  BY LifeFacts DEF Shutdown, L!BeginShutdown, L!Goto, L!flags, L!chans, L!work, L!callers,
     Types, SubCalls, SubStates, Calls, Labels, Once, Answers
<1>2. Drains'
  BY LifeFacts DEF Shutdown, L!BeginShutdown, L!Goto, L!flags, L!chans, L!work, L!callers,
     Types, Drains, AllClosed
<1>3. Callings'
  BY LifeFacts DEF Shutdown, L!BeginShutdown, L!Goto, L!flags, L!chans, L!work, L!callers,
     Types, Callings, CallInv
<1>4. Connection'
  BY LifeFacts DEF Shutdown, L!BeginShutdown, L!Goto, L!flags, L!chans, L!work, L!callers,
     Types, Connection
<1>5. Dropped'
  BY LifeFacts DEF Shutdown, L!BeginShutdown, L!Goto, L!flags, L!chans, L!work, L!callers,
     Types, Dropped, Pressed
<1>6. Messages' /\ Subscriptions' /\ RepliesGoOut'
  BY DEF Shutdown, L!BeginShutdown, L!Goto, L!flags, L!chans, L!work, L!callers, Messages,
     MsgInv, Waits, Counted, InHandler, Subscriptions, SubInv, RepliesGoOut, Pressed
<1> QED
  BY <1>1, <1>2, <1>3, <1>4, <1>5, <1>6

\* The first caller takes the list.
LEMMA TakeDrainPreserves ==
    ASSUME BInv, NEW c \in Callers, TakeDrain(c)
    PROVE  BusInv'
<1> USE DEF BInv, BusInv
<1>1. Types'
  BY LifeFacts DEF TakeDrain, Types, SubCalls, SubStates, Calls, Labels, Once, Answers
<1>2. Subscriptions'
  BY LifeFacts DEF TakeDrain, Types, Subscriptions, SubInv, Drains
<1>3. Drains'
  BY LifeFacts DEF TakeDrain, Types, Drains, AllClosed, Callings, CallInv
<1>4. Callings'
  BY LifeFacts DEF TakeDrain, Types, Callings, CallInv
<1>5. Connection'
  BY LifeFacts DEF TakeDrain, Types, Connection
<1>6. Messages' /\ Dropped' /\ RepliesGoOut'
  BY DEF TakeDrain, Messages, MsgInv, Waits, Counted, InHandler, Dropped, Pressed, RepliesGoOut
<1> QED
  BY <1>1, <1>2, <1>3, <1>4, <1>5, <1>6

\* The owner drains the list.
LEMMA DrainPreserves ==
    ASSUME BInv, NEW c \in Callers, Drain(c)
    PROVE  BusInv'
<1> USE DEF BInv, BusInv
<1>1. Types'
  BY LifeFacts DEF Drain, Types, SubCalls, SubStates, Calls, Labels, Once, Answers
<1>2. Subscriptions'
  BY LifeFacts DEF Drain, Types, Subscriptions, SubInv
<1>3. Drains'
  BY LifeFacts DEF Drain, Types, Drains, AllClosed
<1>4. Callings'
  BY LifeFacts DEF Drain, Types, Callings, CallInv
<1>5. Connection'
  BY LifeFacts DEF Drain, Types, Connection
<1>6. Messages' /\ Dropped' /\ RepliesGoOut'
  BY DEF Drain, Messages, MsgInv, Waits, Counted, InHandler, Dropped, Pressed, RepliesGoOut
<1> QED
  BY <1>1, <1>2, <1>3, <1>4, <1>5, <1>6

\* The drain step ends.
LEMMA DrainedPreserves ==
    ASSUME BInv, NEW c \in Callers, Drained(c)
    PROVE  BusInv'
<1> USE DEF BInv, BusInv
<1>1. Types'
  BY LifeFacts DEF Drained, Types, SubCalls, SubStates, Calls, Labels, Once, Answers
<1>2. Drains'
  BY LifeFacts DEF Drained, Types, Drains, AllClosed, Callings, CallInv
<1>3. Callings'
  BY LifeFacts DEF Drained, Types, Callings, CallInv
<1>4. Connection'
  BY LifeFacts DEF Drained, Types, Connection
<1>5. Messages' /\ Subscriptions' /\ Dropped' /\ RepliesGoOut'
  BY DEF Drained, Messages, MsgInv, Waits, Counted, InHandler, Subscriptions, SubInv,
     Dropped, Pressed, RepliesGoOut
<1> QED
  BY <1>1, <1>2, <1>3, <1>4, <1>5

\* A later caller sees it end.
LEMMA SeesDrainedPreserves ==
    ASSUME BInv, NEW c \in Callers, SeesDrained(c)
    PROVE  BusInv'
<1> USE DEF BInv, BusInv
<1>1. Types'
  BY LifeFacts DEF SeesDrained, Types, SubCalls, SubStates, Calls, Labels, Once, Answers
<1>2. Callings'
  BY LifeFacts DEF SeesDrained, Types, Callings, CallInv
<1>3. Messages' /\ Subscriptions' /\ Drains' /\ Connection' /\ Dropped' /\ RepliesGoOut'
  BY DEF SeesDrained, Messages, MsgInv, Waits, Counted, InHandler, Subscriptions, SubInv,
     Drains, AllClosed, Connection, Dropped, Pressed, RepliesGoOut
<1> QED
  BY <1>1, <1>2, <1>3

\* A deadline passes.
LEMMA ForceStopPreserves ==
    ASSUME BInv, NEW c \in Callers, ForceStop(c)
    PROVE  BusInv'
<1> USE DEF BInv, BusInv
<1>a. /\ sst' \in [Subs -> SubStates] /\ mpc' \in [Msgs -> Labels] /\ stopped' \in BOOLEAN
      /\ kind = "jetstream" /\ ~stopped =>
            \A s \in Subs :
               sst'[s] = IF s \in draining /\ sst[s] # "none" THEN "closed" ELSE sst[s]
      /\ kind = "nats" \/ stopped => UNCHANGED <<sst, mpc, stopped>>
  BY EndFacts DEF ForceStop, Types
<1>1. Types'
  BY LifeFacts, <1>a DEF ForceStop, Expired, End, L!CallInterrupt, L!Goto, L!flags, L!chans,
     L!work, L!callers, Types, SubCalls, SubStates, Calls, Labels, Once, Answers
<1>2. Messages'
  BY LifeFacts DEF ForceStop, Expired, End, L!CallInterrupt, L!Goto, L!flags, L!chans,
     L!work, L!callers, Types, Messages, MsgInv, Waits, Counted, InHandler
<1>3. Subscriptions'
  BY LifeFacts DEF ForceStop, Expired, End, L!CallInterrupt, L!Goto, L!flags, L!chans,
     L!work, L!callers, Types, Subscriptions, SubInv
<1>4. Drains'
  BY LifeFacts, <1>a DEF ForceStop, Expired, End, L!CallInterrupt, L!Goto, L!flags, L!chans,
     L!work, L!callers, Types, Drains, AllClosed, Callings, CallInv, Subscriptions, SubInv
<1>5. Callings'
  BY LifeFacts DEF ForceStop, Expired, End, L!CallInterrupt, L!Goto, L!flags, L!chans,
     L!work, L!callers, Types, Callings, CallInv
<1>6. Connection'
  BY LifeFacts DEF ForceStop, Expired, End, L!CallInterrupt, L!Goto, L!flags, L!chans,
     L!work, L!callers, Types, Connection
<1>7. Dropped'
  BY LifeFacts DEF ForceStop, Expired, End, L!CallInterrupt, L!Goto, L!flags, L!chans,
     L!work, L!callers, Types, Dropped, Pressed
<1>8. RepliesGoOut'
  BY LifeFacts DEF ForceStop, Expired, End, L!CallInterrupt, L!Goto, L!flags, L!chans,
     L!work, L!callers, Types, RepliesGoOut, Pressed
<1> QED
  BY <1>1, <1>2, <1>3, <1>4, <1>5, <1>6, <1>7, <1>8

\* Wait, or Interrupt.
LEMMA LifePreserves ==
    ASSUME BInv, NEW c \in Callers, LifeStep(c)
    PROVE  BusInv'
<1> USE DEF BInv, BusInv
<1>a. /\ cpc[c] \in {"waiting", "forcing"} /\ UNCHANGED <<kind, conn, subs, stop, msgs>>
      /\ closed => closed'
      /\ done => done'
      /\ forced => forced'
      /\ forced' => forced \/ pc[c] = "interrupting"
  BY DEF LifeStep, L!CallStep, L!WaitIdle, L!WaitBusy, L!WakeIdle, L!WakeExpired,
     L!InterruptMark, L!InterruptCancel, L!Goto, L!flags, L!chans, L!work, L!callers
<1>1. Drains'
  BY <1>a DEF Types, Drains, AllClosed, Callings, CallInv
<1>2. Callings'
  BY LifeFacts DEF LifeStep, L!CallStep, L!WaitIdle, L!WaitBusy, L!WakeIdle, L!WakeExpired,
     L!InterruptMark, L!InterruptCancel, L!Goto, L!flags, L!chans, L!work, L!callers, Types,
     Callings, CallInv
<1>3. Connection'
  BY <1>a DEF Types, Connection
<1>4. Dropped'
  BY LifeFacts DEF LifeStep, L!CallStep, L!WaitIdle, L!WaitBusy, L!WakeIdle, L!WakeExpired,
     L!InterruptMark, L!InterruptCancel, L!Goto, L!flags, L!chans, L!work, L!callers, Types,
     Dropped, Pressed
<1>5. RepliesGoOut'
  BY LifeFacts DEF LifeStep, L!CallStep, L!WaitIdle, L!WaitBusy, L!WakeIdle, L!WakeExpired,
     L!InterruptMark, L!InterruptCancel, L!Goto, L!flags, L!chans, L!work, L!callers, Types,
     RepliesGoOut, Pressed
<1>6. Types' /\ Messages' /\ Subscriptions'
  BY DEF LifeStep, L!CallStep, L!WaitIdle, L!WaitBusy, L!WakeIdle, L!WakeExpired,
     L!InterruptMark, L!InterruptCancel, L!Goto, L!flags, L!chans, L!work, L!callers, Types,
     Messages, MsgInv, Waits, Counted, InHandler, Subscriptions, SubInv
<1> QED
  BY <1>1, <1>2, <1>3, <1>4, <1>5, <1>6

\* A call returns.
LEMMA ReturnPreserves ==
    ASSUME BInv, NEW c \in Callers, Return(c)
    PROVE  BusInv'
<1> USE DEF BInv, BusInv
<1>1. Types'
  BY LifeFacts DEF Return, End, CloseDrained, Types, SubCalls, SubStates, Calls, Labels,
     Once, Answers
<1>2. Messages'
  BY LifeFacts DEF Return, End, CloseDrained, Types, Messages, MsgInv, Waits, Counted,
     InHandler
<1>3. Subscriptions'
  BY LifeFacts DEF Return, End, CloseDrained, Types, Subscriptions, SubInv
<1>4. Drains'
  BY LifeFacts DEF Return, End, CloseDrained, Types, Drains, AllClosed, Callings, CallInv
<1>5. Callings'
  BY LifeFacts DEF Return, End, CloseDrained, Types, Callings, CallInv
<1>6. Connection'
  BY LifeFacts DEF Return, End, CloseDrained, Types, Connection, Callings, CallInv
<1>7. Dropped'
  <2>1. CASE kind = "jetstream"
    BY <2>1 DEF Return, Types, Dropped, Pressed
  <2>2. CASE kind = "nats" /\ ~Pressed
    <3>1. closed /\ AllClosed
      BY <2>2, LifeFacts DEF Return, Callings, CallInv, Drains, Pressed
    <3>2. \A m \in Msgs : mpc[m] = "buffered" => spc[of[m]] = "registering"
      BY <2>2, <3>1, LifeFacts DEF Types, Subscriptions, SubInv, AllClosed, Drains,
         Return, Callings, CallInv, SubCalls
    <3>3. \A m \in Msgs : mpc'[m] = "dropped" => mpc[m] \in {"buffered", "dropped"}
      BY <2>2, EndFacts DEF Return, Types
    <3> QED
      BY <2>2, <3>1, <3>2, <3>3 DEF Return, Dropped, Pressed
  <2>3. CASE kind = "nats" /\ Pressed
    BY <2>3 DEF Return, Dropped, Pressed
  <2> QED
    BY <2>1, <2>2, <2>3 DEF Types
<1>8. RepliesGoOut'
  BY DEF Return, End, CloseDrained, RepliesGoOut, Pressed
<1> QED
  BY <1>1, <1>2, <1>3, <1>4, <1>5, <1>6, <1>7, <1>8

\* A context expires.
LEMMA ExpirePreserves ==
    ASSUME BInv, NEW c \in Callers, Expire(c)
    PROVE  BusInv'
<1> USE DEF BInv, BusInv
<1>1. /\ Types' /\ Messages' /\ Subscriptions' /\ Drains' /\ Callings'
      /\ Connection' /\ Dropped' /\ RepliesGoOut'
  BY DEF Expire, L!Expire, L!Goto, L!flags, L!chans, L!work, L!callers, Types, Messages,
     MsgInv, Waits, Counted, InHandler, Subscriptions, SubInv, Drains, AllClosed, Callings,
     CallInv, Connection, Dropped, Pressed, RepliesGoOut
<1> QED
  BY <1>1

\* A step that leaves everything alone.
LEMMA StutterPreserves ==
    ASSUME BInv, UNCHANGED vars
    PROVE  BusInv'
BY DEF BInv, BusInv, vars, Types, Messages, MsgInv, Waits, Counted, InHandler, Subscriptions,
   SubInv, Drains, AllClosed, Callings, CallInv, Connection, Dropped, RepliesGoOut, Pressed

-----------------------------------------------------------------------------
(* The invariant *)

\* A bus that was just made: nothing is subscribed, and nobody closes it.
LEMMA InitBInv == Init => BInv
<1> SUFFICES ASSUME Init PROVE BInv
  OBVIOUS
<1>1. LP!IInv
  <2>1. LP!Init
    BY DEF Init, L!Init, LP!Init, Units
  <2>2. LP!Init => LP!IInv
    BY MsgsAssumption, LP!InitIInv DEF Units
  <2> QED
    BY <2>1, <2>2
<1>2. /\ unit = [m \in Msgs |-> "new"] /\ hctx = [m \in Msgs |-> "none"]
      /\ pc = [c \in Callers |-> "idle"] /\ forced = FALSE
  BY DEF Init, L!Init, Units
<1>3. Types
  BY KindsAssumption DEF Init, Types, SubCalls, SubStates, Calls, Labels
<1>4. Messages
  BY <1>2 DEF Init, Messages, MsgInv, Waits
<1>5. Subscriptions
  BY DEF Init, Subscriptions, SubInv
<1>6. Drains /\ Connection /\ Dropped
  BY <1>2 DEF Init, Drains, Connection, Dropped
<1>7. Callings
  BY <1>2 DEF Init, Callings, CallInv
<1>8. RepliesGoOut
  BY DEF Init, RepliesGoOut
<1> QED
  BY <1>1, <1>3, <1>4, <1>5, <1>6, <1>7, <1>8 DEF BInv, BusInv

\* Every step keeps the invariant of the Lifecycle, which is its own, and that
\* of the bus.
LEMMA NextBInv == BInv /\ [Next]_vars => BInv'
<1> SUFFICES ASSUME BInv, [Next]_vars PROVE BInv'
  OBVIOUS
<1>1. LP!IInv'
  <2>1. LP!IInv /\ [LP!Next]_(LP!vars) => LP!IInv'
    BY MsgsAssumption, LP!StepIInv DEF Units
  <2> QED
    BY <2>1, BusSteps DEF BInv
<1>2. BusInv'
  <2>1. ASSUME NEW s \in Subs, SubscribeStep(s) \/ ReportClosed(s) PROVE BusInv'
    BY <2>1, SubscribePreserves, RegisterPreserves, ReportClosedPreserves DEF SubscribeStep
  <2>2. ASSUME NEW m \in Msgs, MsgStep(m) PROVE BusInv'
    BY <2>2, TurnedPreserves, HandlerStartPreserves, HandBackPreserves, UnwindPreserves,
       RecoverPreserves, LeavePreserves DEF MsgStep
  <2>3. ASSUME NEW m \in Msgs,
               Receive(m) \/ Dispatch(m) \/ HandlerEnd(m) \/ Panic(m) \/ AfterFunc(m)
        PROVE  BusInv'
    BY <2>3, ReceivePreserves, DispatchPreserves, HandlerEndPreserves, PanicPreserves,
       AfterFuncPreserves
  <2>4. ASSUME NEW c \in Callers, ShutdownStep(c) PROVE BusInv'
    BY <2>4, TakeDrainPreserves, DrainPreserves, DrainedPreserves, SeesDrainedPreserves,
       ForceStopPreserves, LifePreserves, ReturnPreserves DEF ShutdownStep
  <2>5. ASSUME NEW c \in Callers, Shutdown(c) \/ Expire(c) PROVE BusInv'
    BY <2>5, ShutdownPreserves, ExpirePreserves
  <2>6. CASE UNCHANGED vars
    BY <2>6, StutterPreserves
  <2> QED
    BY <2>1, <2>2, <2>3, <2>4, <2>5, <2>6 DEF Next
<1> QED
  BY <1>1, <1>2 DEF BInv

\* The invariant holds whatever Subscribe, the callbacks and the callers of
\* Shutdown do, and in whatever order.
THEOREM BusInvariant == Spec => []BInv
BY InitBInv, NextBInv, PTL DEF Spec

-----------------------------------------------------------------------------
(* What it says *)

\* When Shutdown of either broker bus has returned nil no handler runs, and
\* every message that was counted has had its one action or reply.
THEOREM NilAlwaysMeansActed == Spec => []NilMeansActed
<1>1. BInv => NilMeansActed
  <2> SUFFICES ASSUME BInv, Nil # {}, NEW m \in Msgs
               PROVE  /\ mpc[m] # "handling"
                      /\ unit[m] \in {"held", "released"} => Len(acts[m]) = 1
    BY DEF NilMeansActed
  <2>1. unit[m] # "held"
    BY LifeFacts DEF Nil, BInv, BusInv, Callings, CallInv
  <2>2. mpc[m] # "handling"
    BY <2>1 DEF BInv, BusInv, Messages, MsgInv, Counted
  <2>3. unit[m] = "released" => acts[m] \in Once
    BY LifeFacts DEF BInv, BusInv, Types, Labels, Messages, MsgInv, Waits, Counted
  <2>4. \A q \in Once : Len(q) = 1
    BY DEF Once
  <2> QED
    BY <2>1, <2>2, <2>3, <2>4
<1> QED
  BY <1>1, BusInvariant, PTL

\* Without a deadline no reply or action of a counted message meets a closed
\* connection.
THEOREM RepliesAlwaysGoOut == Spec => []RepliesGoOut
<1>1. BInv => RepliesGoOut
  BY DEF BInv, BusInv
<1> QED
  BY <1>1, BusInvariant, PTL

\* A call of Shutdown that has returned, with or without an error, leaves no
\* subscription open but one that its own Subscribe is about to drop.
THEOREM NoneEverEscapes == Spec => []NoneEscapes
<1>1. BInv => NoneEscapes
  <2> SUFFICES ASSUME BInv, NEW c \in Callers, cpc[c] \in {"nil", "err"}, NEW s \in Subs,
                      spc[s] # "registering"
               PROVE  sst[s] \in {"none", "closed"}
    BY DEF NoneEscapes, Returned
  <2>1. CASE kind = "nats"
    BY <2>1 DEF BInv, BusInv, Callings, CallInv, Connection
  <2>2. CASE kind = "jetstream"
    <3>1. registered = {} /\ AllClosed
      BY <2>2, LifeFacts DEF BInv, BusInv, Callings, CallInv, Drains
    <3> QED
      BY <3>1 DEF BInv, BusInv, Types, SubCalls, Subscriptions, SubInv, AllClosed
  <2> QED
    BY <2>1, <2>2 DEF BInv, BusInv, Types
<1> QED
  BY <1>1, BusInvariant, PTL

\* Without a deadline nobody is told of a drain that is not complete: the one
\* drain step has ended, and no message of a registered subscription is left in
\* a buffer that was thrown away.
THEOREM DrainIsAlwaysShared == Spec => []DrainIsShared
<1>1. BInv => DrainIsShared
  <2> SUFFICES ASSUME BInv, ~Pressed, Nil # {} \/ conn = "closed"
               PROVE  /\ drained = "closed"
                      /\ \A m \in Msgs : mpc[m] = "dropped" => spc[of[m]] # "ok"
    BY DEF DrainIsShared
  <2>1. drained = "closed"
    BY DEF Nil, Pressed, BInv, BusInv, Callings, CallInv, Connection
  <2>2. \A m \in Msgs : mpc[m] = "dropped" => spc[of[m]] # "ok"
    BY DEF BInv, BusInv, Dropped
  <2> QED
    BY <2>1, <2>2
<1> QED
  BY <1>1, BusInvariant, PTL

-----------------------------------------------------------------------------
(* The bus and its Lifecycle *)

\* The Lifecycle inside the bus behaves as it does alone: what a
\* callback, a subscription, a drain or a Shutdown of a broker bus does to it is
\* one of its own operations, so that what is proved of Lifecycle holds here.
THEOREM BusRunsLifecycle == Spec => LP!Spec
<1>1. Init => LP!Init
  BY DEF Init, L!Init, LP!Init
<1>2. BInv /\ [Next]_vars => [LP!Next]_(LP!vars)
  BY BusSteps
<1> QED
  BY <1>1, <1>2, BusInvariant, PTL DEF Spec, LP!Spec

\* The bus keeps the promise of GracefulStop: nothing starts behind a shut door,
\* and no Wait of a Shutdown or a ForceStop says nil while a message is counted.
THEOREM BusStopsGracefully == Spec => LP!GracefulStopSpec
<1>1. NoParent \notin Units
  BY MsgsAssumption DEF Units
<1>2. LP!Spec => LP!GracefulStopSpec
  BY <1>1, LP!Refinement
<1> QED
  BY <1>2, BusRunsLifecycle, PTL
=============================================================================
