----------------------------- MODULE BrokerBus -----------------------------
(***************************************************************************)
(* jetstream/bus.go and nats/bus.go: Subscribe, the message callbacks and  *)
(* Shutdown, which callers share, on top of the Lifecycle, whose units are *)
(* the messages.  A subscription is a ConsumeContext of nats.go/jetstream, *)
(* or a nats.Subscription; its buffer, its one delivery goroutine, Drain   *)
(* and Stop are modelled from how the buses use them.                      *)
(*                                                                         *)
(* What becomes of one message is the Settlement module; here a callback   *)
(* takes one broker action, or on NATS sends one reply.                    *)
(***************************************************************************)
EXTENDS Integers, Sequences

CONSTANTS Kinds,        \* the transports to choose from
          Subs,         \* the calls of Subscribe, and the subscriptions they make
          Msgs, Callers,
          NoParent      \* of the Lifecycle: a message is tracked, not admitted

Units == Msgs

ASSUME KindsAssumption == Kinds \subseteq {"jetstream", "nats"}
ASSUME MsgsAssumption == NoParent \notin Msgs

VARIABLES
    closed, forced, done, inflight, idle, idleClosed, cancelled, closedCh,
    unit, parent, hctx, pc, wch, expired,       \* the Lifecycle
    kind,           \* the transport
    conn,           \* the NATS connection, which JetStream does not own
    spc, sst,       \* spc[s]: the Subscribe call; sst[s]: the subscription
    registered,     \* b.consumers, b.subs
    draining,       \* b.draining, the list the owner drains
    drained,        \* the channel: "nil", "open" or "closed"
    stopped,        \* stopOnce
    cpc,            \* cpc[c]: where a call of Shutdown is
    owns,           \* owns[c]: whether it owns the drain
    mpc, of,        \* mpc[m]: where message m is; of[m]: its subscription
    acts            \* acts[m]: the broker actions, or the replies, for m

L == INSTANCE Lifecycle

life == <<closed, forced, done, inflight, idle, idleClosed, cancelled, closedCh,
          unit, parent, hctx, pc, wch, expired>>
subs == <<spc, sst, registered>>
stop == <<draining, drained, stopped, cpc, owns>>
msgs == <<mpc, of, acts>>
vars == <<life, kind, conn, subs, stop, msgs>>

SubCalls  == {"new", "consuming", "registering", "ok", "refused"}
SubStates == {"none", "active", "draining", "closed"}
Calls     == {"idle", "begun", "drain", "awaiting", "later", "waiting", "forcing",
              "nil", "err"}
Labels    == {"server", "buffered", "tracked", "refused", "handback", "handling",
              "panicked", "recovering", "ending", "releasing", "gone", "dropped"}

TypeOK ==
    /\ L!TypeOK
    /\ kind \in Kinds /\ conn \in {"open", "closed"}
    /\ spc \in [Subs -> SubCalls] /\ sst \in [Subs -> SubStates]
    /\ registered \in SUBSET Subs /\ draining \in SUBSET Subs
    /\ drained \in {"nil", "open", "closed"} /\ stopped \in BOOLEAN
    /\ cpc \in [Callers -> Calls] /\ owns \in [Callers -> BOOLEAN]
    /\ mpc \in [Msgs -> Labels]
    /\ of \in [Msgs -> Subs]
    /\ acts \in [Msgs -> Seq({"sent", "lost", "reported"})]

Init ==
    /\ L!Init
    /\ kind \in Kinds /\ conn = "open"
    /\ spc = [s \in Subs |-> "new"] /\ sst = [s \in Subs |-> "none"]
    /\ registered = {} /\ draining = {}
    /\ drained = "nil" /\ stopped = FALSE
    /\ cpc = [c \in Callers |-> "idle"] /\ owns = [c \in Callers |-> FALSE]
    /\ mpc = [m \in Msgs |-> "server"]
    /\ of \in [Msgs -> Subs]
    /\ acts = [m \in Msgs |-> <<>>]

-----------------------------------------------------------------------------
(* Subscribe *)

SubscribeCheck(s) ==
    /\ spc[s] = "new"
    /\ spc' = [spc EXCEPT ![s] = IF closed THEN "refused" ELSE "consuming"]
    /\ UNCHANGED <<life, kind, conn, sst, registered, stop, msgs>>

\* Consume, or nc.Subscribe: messages flow from here on.
Consume(s) ==
    /\ spc[s] = "consuming" /\ conn = "open"
    /\ sst' = [sst EXCEPT ![s] = "active"]
    /\ spc' = [spc EXCEPT ![s] = "registering"]
    /\ UNCHANGED <<life, kind, conn, registered, stop, msgs>>

\* It fails, as on a closed connection.
ConsumeFails(s) ==
    /\ spc[s] = "consuming"
    /\ spc' = [spc EXCEPT ![s] = "refused"]
    /\ UNCHANGED <<life, kind, conn, sst, registered, stop, msgs>>

\* The subscriptions of S end at once: what they have buffered is left to the
\* server, a callback that runs goes on.
End(S) ==
    /\ sst' = [s \in Subs |-> IF s \in S /\ sst[s] # "none" THEN "closed" ELSE sst[s]]
    /\ mpc' = [m \in Msgs |-> IF of[m] \in S /\ mpc[m] = "buffered" THEN "dropped" ELSE mpc[m]]

\* Mutant of Register: closing is not looked at again.
RegisterUnchecked(s) ==
    /\ spc[s] = "registering"
    /\ registered' = registered \cup {s}
    /\ spc' = [spc EXCEPT ![s] = "ok"]
    /\ UNCHANGED <<life, kind, conn, sst, stop, msgs>>

\* Under the lock: Shutdown may have begun since the check.
Register(s) ==
    /\ spc[s] = "registering"
    /\ \/ /\ closed
          /\ End({s})
          /\ spc' = [spc EXCEPT ![s] = "refused"]
          /\ UNCHANGED registered
       \/ /\ ~closed
          /\ registered' = registered \cup {s}
          /\ spc' = [spc EXCEPT ![s] = "ok"]
          /\ UNCHANGED <<sst, mpc>>
    /\ UNCHANGED <<life, kind, conn, stop, of, acts>>

-----------------------------------------------------------------------------
(* The client library *)

Receive(m) ==
    /\ mpc[m] = "server" /\ sst[of[m]] = "active"
    /\ mpc' = [mpc EXCEPT ![m] = "buffered"]
    /\ UNCHANGED <<life, kind, conn, subs, stop, of, acts>>

\* A subscription runs one callback at a time.
Busy(s) ==
    \E m \in Msgs : of[m] = s /\ mpc[m] \notin {"server", "buffered", "gone", "dropped"}

\* A drained subscription has delivered what it had, and reports Closed.
ReportClosed(s) ==
    /\ sst[s] = "draining" /\ ~Busy(s)
    /\ \A m \in Msgs : of[m] = s => mpc[m] # "buffered"
    /\ sst' = [sst EXCEPT ![s] = "closed"]
    /\ UNCHANGED <<life, kind, conn, spc, registered, stop, msgs>>

-----------------------------------------------------------------------------
(* The message callbacks *)

Msg(m, l) == mpc' = [mpc EXCEPT ![m] = l]

\* The callback begins with Track.
Dispatch(m) ==
    /\ mpc[m] = "buffered" /\ ~Busy(of[m])
    /\ L!Track(m)
    /\ Msg(m, IF unit'[m] = "held" THEN "tracked" ELSE "refused")
    /\ UNCHANGED <<kind, conn, subs, stop, of, acts>>

\* A JetStream bus that is closing hands a message back, tracked or not; a NATS
\* bus rejects one that was refused.
Turned(m) ==
    /\ \/ mpc[m] = "refused"
       \/ mpc[m] = "tracked" /\ kind = "jetstream" /\ closed
    /\ Msg(m, "handback")
    /\ UNCHANGED <<life, kind, conn, subs, stop, of, acts>>

HandlerStart(m) ==
    /\ mpc[m] = "tracked"
    /\ kind = "jetstream" => ~closed
    /\ L!OpenHandler(m)
    /\ Msg(m, "handling")
    /\ UNCHANGED <<kind, conn, subs, stop, of, acts>>

\* The broker action, or the reply, which needs the connection.
Answer(m) == acts' = [acts EXCEPT ![m] = Append(@, IF conn = "open" THEN "sent" ELSE "lost")]

HandBack(m) ==
    /\ mpc[m] = "handback"
    /\ Answer(m)
    /\ Msg(m, "releasing")
    /\ UNCHANGED <<life, kind, conn, subs, stop, of>>

\* The handler returns, its result is settled and acted upon.  On NATS a reply
\* that cannot be encoded is reported, and not sent.
HandlerEnd(m) ==
    /\ mpc[m] = "handling"
    /\ \/ Answer(m)
       \/ kind = "nats" /\ acts' = [acts EXCEPT ![m] = Append(@, "reported")]
    /\ Msg(m, "ending")
    /\ UNCHANGED <<life, kind, conn, subs, stop, of>>

\* The callback panics outside the handler chain.
Panic(m) ==
    /\ mpc[m] = "handling"
    /\ Msg(m, "panicked")
    /\ UNCHANGED <<life, kind, conn, subs, stop, of, acts>>

\* Mutant of Unwind: the release is deferred after the recover, and runs first.
UnwindReleases(m) ==
    /\ mpc[m] \in {"ending", "panicked"}
    /\ unit' = [unit EXCEPT ![m] = "released"]
    /\ inflight' = inflight - 1
    /\ hctx' = [hctx EXCEPT ![m] = "ended"]
    /\ IF closed /\ inflight = 1 /\ idle # 0 /\ ~idleClosed
         THEN closedCh' = closedCh \cup {idle} /\ idleClosed' = TRUE
         ELSE UNCHANGED <<closedCh, idleClosed>>
    /\ Msg(m, IF mpc[m] = "ending" THEN "gone" ELSE "recovering")
    /\ UNCHANGED <<closed, forced, done, idle, cancelled, parent, pc, wch, expired,
                   kind, conn, subs, stop, of, acts>>

\* The deferred functions: the context first, then the recover, then the release.
Unwind(m) ==
    /\ mpc[m] \in {"ending", "panicked"}
    /\ L!EndHandler(m)
    /\ Msg(m, IF mpc[m] = "ending" THEN "releasing" ELSE "recovering")
    /\ UNCHANGED <<kind, conn, subs, stop, of, acts>>

\* Mutant of Recover: the release is not deferred, and is lost with a panic.
RecoverKeeps(m) ==
    /\ mpc[m] = "recovering"
    /\ Answer(m)
    /\ Msg(m, "gone")
    /\ UNCHANGED <<life, kind, conn, subs, stop, of>>

\* The recover acts, or replies, in its place.
Recover(m) ==
    /\ mpc[m] = "recovering"
    /\ Answer(m)
    /\ Msg(m, "releasing")
    /\ UNCHANGED <<life, kind, conn, subs, stop, of>>

Leave(m) ==
    /\ mpc[m] = "releasing"
    /\ \/ unit[m] # "refused" /\ L!Release(m)
       \/ unit[m] = "refused" /\ UNCHANGED life
    /\ Msg(m, "gone")
    /\ UNCHANGED <<kind, conn, subs, stop, of, acts>>

-----------------------------------------------------------------------------
(* Shutdown *)

Call(c, l) == cpc' = [cpc EXCEPT ![c] = l]

Shutdown(c) ==
    /\ cpc[c] = "idle"
    /\ L!BeginShutdown(c)
    /\ Call(c, "begun")
    /\ UNCHANGED <<kind, conn, subs, draining, drained, stopped, owns, msgs>>

\* Under the lock: the first caller owns the drain, the others wait for it.
TakeDrain(c) ==
    /\ cpc[c] = "begun"
    /\ \/ /\ drained = "nil"
          /\ drained' = "open"
          /\ draining' = registered /\ registered' = {}
          /\ owns' = [owns EXCEPT ![c] = TRUE]
          /\ Call(c, "drain")
       \/ /\ drained # "nil"
          /\ Call(c, "later")
          /\ UNCHANGED <<drained, draining, registered, owns>>
    /\ UNCHANGED <<life, kind, conn, spc, sst, stopped, msgs>>

\* Drain of every subscription of the list; one that is closed is left alone.
Drain(c) ==
    /\ cpc[c] = "drain"
    /\ sst' = [s \in Subs |-> IF s \in draining /\ sst[s] = "active" THEN "draining" ELSE sst[s]]
    /\ Call(c, "awaiting")
    /\ UNCHANGED <<life, kind, conn, spc, registered, draining, drained, stopped, owns, msgs>>

\* Mutant of Drained: the owner does not wait for Closed.
DrainedAtOnce(c) ==
    /\ cpc[c] = "awaiting"
    /\ drained' = "closed"
    /\ Call(c, "waiting")
    /\ UNCHANGED <<life, kind, conn, subs, draining, stopped, owns, msgs>>

\* Every one has reported Closed, or another caller forced the shutdown.
Drained(c) ==
    /\ cpc[c] = "awaiting"
    /\ (\A s \in draining : sst[s] = "closed") \/ cancelled
    /\ drained' = "closed"
    /\ Call(c, "waiting")
    /\ UNCHANGED <<life, kind, conn, subs, draining, stopped, owns, msgs>>

\* A later caller sees the drain step end.
SeesDrained(c) ==
    /\ cpc[c] = "later" /\ drained = "closed"
    /\ Call(c, "waiting")
    /\ UNCHANGED <<life, kind, conn, subs, draining, drained, stopped, owns, msgs>>

\* The context of the caller is done first.  A select with several cases ready
\* takes any; that of NATS looks at drained before.
Expired(c) ==
    /\ expired[c]
    /\ \/ cpc[c] = "awaiting" /\ draining # {}
       \/ cpc[c] = "later" /\ (kind = "nats" => drained # "closed")

\* force: JetStream stops the consumers, once; then Interrupt begins.
ForceStop(c) ==
    /\ Expired(c)
    /\ IF kind = "jetstream" /\ ~stopped
         THEN End(draining) /\ stopped' = TRUE
         ELSE UNCHANGED <<sst, mpc, stopped>>
    /\ L!CallInterrupt(c)
    /\ Call(c, "forcing")
    /\ UNCHANGED <<kind, conn, spc, registered, draining, drained, owns, of, acts>>

\* Wait, or the rest of Interrupt.
LifeStep(c) ==
    /\ cpc[c] \in {"waiting", "forcing"}
    /\ L!CallStep(c)
    /\ UNCHANGED <<kind, conn, subs, stop, msgs>>

\* Mutant of CloseDrained: the channel stays open when the owner gives up.
CloseDrainedNot(c) == UNCHANGED drained

\* The deferred close of the channel, when the owner gave up on the drain.
CloseDrained(c) == drained' = IF owns[c] THEN "closed" ELSE drained

\* The call returns.  NATS closes the connection first, and with it every
\* subscription.
Return(c) ==
    /\ cpc[c] \in {"waiting", "forcing"} /\ pc[c] \in {"nil", "err"}
    /\ IF kind = "nats"
         THEN conn' = "closed" /\ End(Subs)
         ELSE UNCHANGED <<conn, sst, mpc>>
    /\ CloseDrained(c)
    /\ Call(c, pc[c])
    /\ UNCHANGED <<life, kind, spc, registered, draining, stopped, owns, of, acts>>

Expire(c) == L!Expire(c) /\ UNCHANGED <<kind, conn, subs, stop, msgs>>
AfterFunc(m) == L!AfterFunc(m) /\ UNCHANGED <<kind, conn, subs, stop, msgs>>

-----------------------------------------------------------------------------
SubscribeStep(s) == SubscribeCheck(s) \/ Consume(s) \/ ConsumeFails(s) \/ Register(s)

MsgStep(m) ==
    \/ Turned(m)
    \/ HandlerStart(m)
    \/ HandBack(m)
    \/ Unwind(m)
    \/ Recover(m)
    \/ Leave(m)

ShutdownStep(c) ==
    \/ TakeDrain(c)
    \/ Drain(c)
    \/ Drained(c)
    \/ SeesDrained(c)
    \/ ForceStop(c)
    \/ LifeStep(c)
    \/ Return(c)

Next ==
    \/ \E s \in Subs : SubscribeStep(s) \/ ReportClosed(s)
    \/ \E m \in Msgs :
          \/ Receive(m)
          \/ Dispatch(m)
          \/ MsgStep(m)
          \/ HandlerEnd(m)
          \/ Panic(m)
          \/ AfterFunc(m)
    \/ \E c \in Callers : Shutdown(c) \/ ShutdownStep(c) \/ Expire(c)

Spec == Init /\ [][Next]_vars

\* A goroutine of the bus that can step steps.
LiveSpec ==
    /\ Spec
    /\ \A m \in Msgs : WF_vars(MsgStep(m)) /\ WF_vars(AfterFunc(m))
    /\ \A c \in Callers : WF_vars(ShutdownStep(c))

\* Handlers return.
HandlersReturn == \A m \in Msgs : WF_vars(HandlerEnd(m) \/ Panic(m))

\* The client library delivers what it has, and then reports Closed.
DrainsComplete ==
    /\ \A m \in Msgs : WF_vars(Dispatch(m))
    /\ \A s \in Subs : WF_vars(ReportClosed(s))

-----------------------------------------------------------------------------
(* Properties *)

Nil      == {c \in Callers : cpc[c] = "nil"}
Returned == {c \in Callers : cpc[c] \in {"nil", "err"}}
\* A deadline has passed and the shutdown is being forced.
Pressed  == forced \/ stopped
InCall   == {c \in Callers : cpc[c] \notin {"idle", "nil", "err"}}

\* When Shutdown has returned nil no handler runs, and every message that was
\* counted has had its one broker action or reply, that of a recovered panic
\* included: it goes out "while the message is still counted in flight, so
\* Shutdown does not return before it" (jetstream/bus.go:739, nats/bus.go:514).
NilMeansActed ==
    Nil # {} => \A m \in Msgs :
        /\ mpc[m] # "handling"
        /\ unit[m] \in {"held", "released"} => Len(acts[m]) = 1

\* The connection outlives the replies: one is lost only when a deadline forced
\* the shutdown, or for a message that was never counted (nats/bus.go:671-676).
RepliesGoOut ==
    ~Pressed => \A m \in Msgs : unit[m] # "refused" => acts[m] # <<"lost">>

\* No subscription escapes: when a call has returned, every one is closed, but
\* for one whose Subscribe is about to drop it (jetstream/bus.go:452-462,
\* nats/bus.go:543-565); no message is left in a buffer that nobody empties.
NoneEscapes ==
    Returned # {} => \A s \in Subs :
        sst[s] \in {"none", "closed"} \/ spc[s] = "registering"

\* Without a deadline the drain is complete before anyone is told so: a later
\* caller "never reports a completed drain while a consumer has not reported
\* Closed", and the connection is not closed under a draining subscription
\* (jetstream/bus.go:514-516, nats/bus.go:690-692).
DrainIsShared ==
    ~Pressed /\ (Nil # {} \/ conn = "closed") =>
        /\ drained = "closed"
        /\ \A m \in Msgs : mpc[m] = "dropped" => spc[of[m]] # "ok"

\* Once one caller forced the shutdown all return when the handlers do, though
\* their contexts last and a subscription never reports Closed
\* (jetstream/bus.go:575-576, nats/bus.go:760-762).
ForceFreesAll == HandlersReturn => (forced /\ InCall # {} ~> InCall = {})

\* Every call returns when the handlers and the drains do, with no deadline.
DrainReturns == HandlersReturn /\ DrainsComplete => (InCall # {} ~> InCall = {})
=============================================================================
