---------------------------- MODULE Settlement ----------------------------
(***************************************************************************)
(* One message on its way through a bus: delivered, decoded, run through   *)
(* the handler chain, settled and acted upon, over all its deliveries.     *)
(* invoke.go, scope.go, settle.go, dlq.go, invoker/dlq.go and the message  *)
(* callbacks of the three transports.                                      *)
(*                                                                         *)
(* The contexts end while this goes on: the subscription context when the  *)
(* bus gives up on a drain or its owner cancels it, the handler context    *)
(* also by the timeout of a LocalBus.  Each step reads them when it runs.  *)
(***************************************************************************)
EXTENDS Integers, Sequences, FiniteSets, Failure

CONSTANTS HandlerErrors,    \* what the invokers inside the DLQ may return
          MaxDelivers,      \* the MaxDeliver settings; 0 is unlimited
          DeliveryBound     \* bound: the deliveries the server makes

ASSUME ErrorsAssumption ==
    \A e \in HandlerErrors :
        /\ e \subseteq Sentinels \ {"dead_lettered", "dlq_failed", "timeout"}
        /\ e # Nil => "error" \in e
ASSUME BoundsAssumption == MaxDelivers \subseteq Nat /\ DeliveryBound \in Nat

Transports == {"local", "local_sync", "nats", "jetstream"}

\* chain: a DLQ invoker with a publisher is in the chain; backstop: the bus has
\* a DLQPublisher; max: Delivery.Max.
Configs ==
    {c \in [transport : Transports, chain : BOOLEAN, backstop : BOOLEAN,
            max : MaxDelivers \cup {1}] :
        c.transport # "jetstream" => c.max = 1}

DecodeErrors  == {{"error", "decode"}, {"error", "decode", "unknown_version"}}
PublishErrors == {{}, {"deadline"}}     \* what a failed publish adds to match

publishAttemptsFinal == 3

VARIABLES
    conf,       \* the configuration of the bus
    msg,        \* the message: queued, in hand, or gone
    count,      \* how often the message was delivered
    seen,       \* Delivery.Count: the same, if the metadata can be read
    pc,         \* where the callback is
    sub,        \* the subscription context, by the cause that ended it
    forced,     \* whether the bus context is cancelled
    timedOut,   \* whether the handler timeout ended the handler context
    err,        \* the error the callback carries
    decoded,    \* whether there is an event
    tries,      \* attempts of the running dead-letter publish
    pending,    \* FailureScope: a HandlerDone waits for Settle
    ended,      \* settleGuard
    disp, out,  \* the Settlement
    panicked,   \* the callback panicked outside the handler chain
    done,       \* the HandlerDone signals of this delivery
    reports,    \* the Failure signals of this delivery
    records,    \* the records in the dead-letter queue whose publish succeeded
    strays,     \* those stored by a publish that failed all the same
    slips       \* why a message that was settled came back, or the last
                \* delivery was not known to be the last

counts   == <<count, seen>>
contexts == <<sub, forced, timedOut>>
settled  == <<disp, out>>
signals  == <<done, reports>>
dlq      == <<records, strays>>
vars     == <<conf, msg, counts, pc, sub, forced, timedOut, err, decoded, tries,
              pending, ended, disp, out, panicked, done, reports, records,
              strays, slips>>

Gone         == {"acked", "termed", "spent"}
Dispositions == {"ack", "retry", "retry_delayed", "terminal"}
Reported     == {"dead_lettered", "dlq_publish_failed", "dropped", "interrupted",
                 "decode_failed"}
Completed    == {"ok", "dead_lettered", "duplicate", "interrupted", "retry",
                 "failed", "dropped"} \cup FlowControl
Labels       == {"idle", "decoding", "handling", "chain", "chainPublish",
                 "returning", "wrapping", "settling", "publishing", "published",
                 "flushing", "acting", "recovering"}

TypeOK ==
    /\ conf \in Configs
    /\ msg \in {"queued", "inhand"} \cup Gone
    /\ count \in Nat /\ seen \in 0 .. count
    /\ pc \in Labels
    /\ sub \in {"live", "interrupted", "cancelled"}
    /\ forced \in BOOLEAN /\ timedOut \in BOOLEAN
    /\ err \in SUBSET Sentinels
    /\ decoded \in BOOLEAN
    /\ tries \in 0 .. publishAttemptsFinal
    /\ pending \in BOOLEAN /\ ended \in BOOLEAN
    /\ disp \in Dispositions \cup {"none"}
    /\ out \in Reported \cup {"none"}
    /\ panicked \in BOOLEAN
    /\ done \in Seq(Completed)
    /\ reports \in Seq(Reported)
    /\ records \in Nat /\ strays \in Nat
    /\ slips \in SUBSET {"broker", "interrupted", "metadata"}

-----------------------------------------------------------------------------
Redelivers == conf.transport = "jetstream"
FinalAt(n) == conf.max > 0 /\ n >= conf.max     \* Delivery.Final
Final      == FinalAt(seen)

\* The contexts of the handler and of the dead-letter publish of Settle: that
\* of a LocalBus is detached, and ends only with the bus.
HandlerCtxEnded == sub # "live" \/ timedOut
SettleCtxEnded  ==
    IF conf.transport \in {"local", "local_sync"} THEN forced ELSE sub # "live"

Goto(l) == pc' = l

\* A new scope, guard and result for the delivery that begins.
Fresh ==
    /\ timedOut' = FALSE
    /\ err' = Nil /\ decoded' = TRUE /\ tries' = 0
    /\ pending' = FALSE /\ ended' = FALSE
    /\ disp' = "none" /\ out' = "none"
    /\ panicked' = FALSE
    /\ done' = <<>>

\* The message after delivery n that did not end it.
After(n) == IF Redelivers /\ ~FinalAt(n) THEN "queued" ELSE "spent"

Init ==
    /\ conf \in Configs
    /\ msg = "queued" /\ count = 0 /\ seen = 0
    /\ pc = "idle"
    /\ sub = "live" /\ forced = FALSE /\ timedOut = FALSE
    /\ err = Nil /\ decoded = TRUE /\ tries = 0
    /\ pending = FALSE /\ ended = FALSE
    /\ disp = "none" /\ out = "none"
    /\ panicked = FALSE
    /\ done = <<>> /\ reports = <<>>
    /\ records = 0 /\ strays = 0 /\ slips = {}

-----------------------------------------------------------------------------
(* Delivery.  Each one may go to another process: its bus context is live. *)

\* Delivery n begins.  A delivery whose metadata cannot be read, which the bus
\* signals as an internal error, is taken for the first.
Counted(n, readable) ==
    /\ readable \/ Redelivers
    /\ count' = n /\ seen' = IF readable THEN n ELSE 1
    /\ slips' = IF FinalAt(n) /\ ~FinalAt(seen') THEN slips \cup {"metadata"} ELSE slips

\* The owner's context may have ended already, except for an asynchronous
\* handler of a LocalBus, which is detached from it.
Deliver(s, readable) ==
    /\ msg = "queued" /\ count < DeliveryBound
    /\ msg' = "inhand" /\ Counted(count + 1, readable)
    /\ s = "cancelled" => conf.transport # "local"
    /\ sub' = s /\ forced' = FALSE
    /\ Fresh /\ reports' = <<>>
    /\ Goto(IF conf.transport \in {"local", "local_sync"} THEN "handling" ELSE "decoding")
    /\ UNCHANGED <<conf, dlq>>

\* handBack, on a JetStream bus that is closing: Nak, and a report through
\* Settle, with a context that has ended, when no delivery follows.
HandBack(readable) ==
    /\ Redelivers /\ msg = "queued" /\ count < DeliveryBound
    /\ Counted(count + 1, readable)
    /\ Fresh
    /\ msg' = After(count + 1)
    /\ reports' = IF FinalAt(seen') THEN <<"interrupted">> ELSE <<>>
    /\ UNCHANGED <<conf, pc, sub, forced, dlq>>

\* rejectInbound, on a NATS bus that refuses work: reported, never run.
RejectInbound ==
    /\ conf.transport = "nats" /\ msg = "queued" /\ count < DeliveryBound
    /\ Counted(count + 1, TRUE)
    /\ Fresh
    /\ msg' = "spent"
    /\ reports' = <<"interrupted">>
    /\ UNCHANGED <<conf, pc, sub, forced, dlq>>

DecodeOK ==
    /\ pc = "decoding"
    /\ Goto("handling")
    /\ UNCHANGED <<conf, msg, counts, contexts, err, decoded, tries, pending, ended,
                   settled, panicked, signals, dlq, slips>>

DecodeFails(e) ==
    /\ pc = "decoding"
    /\ err' = e /\ decoded' = FALSE
    /\ Goto("settling")
    /\ UNCHANGED <<conf, msg, counts, contexts, tries, pending, ended,
                   settled, panicked, signals, dlq, slips>>

DecodePanics ==
    /\ pc = "decoding"
    /\ panicked' = TRUE
    /\ Goto("recovering")
    /\ UNCHANGED <<conf, msg, counts, contexts, err, decoded, tries, pending, ended,
                   settled, signals, dlq, slips>>

-----------------------------------------------------------------------------
(* InvokeHandler *)

\* The handler, and the invokers inside the DLQ, return.
Handle(e) ==
    /\ pc = "handling"
    /\ err' = e
    /\ Goto(IF conf.chain THEN "chain" ELSE "returning")
    /\ UNCHANGED <<conf, msg, counts, contexts, decoded, tries, pending, ended,
                   settled, panicked, signals, dlq, slips>>

\* Whether DLQ.Invoke publishes.
ChainDecides ==
    /\ err # Nil
    /\ ~IsInterrupted(HandlerCtxEnded, err)
    /\ Dispose(err, Final) = "terminal"

Chain ==
    /\ pc = "chain"
    /\ Goto(IF ChainDecides THEN "chainPublish" ELSE "returning")
    /\ tries' = 0
    /\ UNCHANGED <<conf, msg, counts, contexts, err, decoded, pending, ended,
                   settled, panicked, signals, dlq, slips>>

\* The attempts publishDeadLetter makes.
Attempts == IF Final THEN publishAttemptsFinal ELSE 1

\* Mutant of LastTry: a single attempt, also on the final delivery.
LastTryOnce(ctxEnded) == TRUE

\* Mutant of LastTry: all the attempts, also when a redelivery follows.
LastTryAlways(ctxEnded) == tries + 1 = publishAttemptsFinal \/ ctxEnded

\* publishDeadLetter: whether the attempt that just failed was the last.
LastTry(ctxEnded) == tries + 1 = Attempts \/ ctxEnded

\* What a publish leaves in the queue that succeeds, and one that does not: the
\* record carries no message id, and may be stored although the acknowledgement
\* is lost or comes too late.
Confirmed   == records' = records + 1 /\ UNCHANGED strays
Unconfirmed == strays' \in {strays, strays + 1} /\ UNCHANGED records

\* One attempt of the publish of the chain.
ChainPublish ==
    /\ pc = "chainPublish"
    /\ tries' = tries + 1
    /\ \/ /\ Confirmed
          /\ err' = err \cup {"dead_lettered"}
          /\ Goto("returning")
       \/ /\ LastTry(HandlerCtxEnded)
          /\ \E p \in PublishErrors : err' = err \cup {"dlq_failed"} \cup p
          /\ Goto("returning")
          /\ Unconfirmed
       \/ /\ ~LastTry(HandlerCtxEnded)
          /\ Unconfirmed
          /\ UNCHANGED <<pc, err>>
       \/ /\ err' = PanicError
          /\ Goto("returning")
          /\ Unconfirmed
    /\ UNCHANGED <<conf, msg, counts, contexts, decoded, pending, ended, settled,
                   panicked, signals, slips>>

\* Mutant of Deferred: a flow-control outcome is never deferred.
DeferredFailedOnly(o) == o = "failed"

\* Whether HandlerDone waits for Settle.
Deferred(o) == o = "failed" \/ (IsFlowControl(o) /\ Final)

\* Mutant of InvokeDone: a deferred HandlerDone is emitted as well.
InvokeDoneBoth ==
    /\ pc = "returning"
    /\ LET o == OutcomeOf(err, HandlerCtxEnded, timedOut, Final)
       IN  /\ pending' = Deferred(o)
           /\ done' = Append(done, o)
    /\ Goto("wrapping")
    /\ UNCHANGED <<conf, msg, counts, contexts, err, decoded, tries, ended, settled,
                   panicked, reports, dlq, slips>>

\* The deferred function of InvokeHandler.
InvokeDone ==
    /\ pc = "returning"
    /\ LET o == OutcomeOf(err, HandlerCtxEnded, timedOut, Final)
       IN  IF Deferred(o)
             THEN pending' = TRUE /\ UNCHANGED done
             ELSE done' = Append(done, o) /\ UNCHANGED pending
    /\ Goto("wrapping")
    /\ UNCHANGED <<conf, msg, counts, contexts, err, decoded, tries, ended, settled,
                   panicked, reports, dlq, slips>>

\* The callback, when the chain has returned: a success is not settled, or is
\* settled as an Ack; a failure gets its marks.
Wrap ==
    /\ pc = "wrapping"
    /\ IF err = Nil
         THEN disp' = "ack" /\ Goto("acting") /\ UNCHANGED err
         ELSE /\ err' = WrapInterrupted(sub = "interrupted", WrapTimeout(timedOut, err))
              /\ Goto("settling")
              /\ UNCHANGED disp
    /\ UNCHANGED <<conf, msg, counts, contexts, decoded, tries, pending, ended, out,
                   panicked, signals, dlq, slips>>

-----------------------------------------------------------------------------
(* Settle *)

\* reportTerminal: once per scope; guardObserver notes it.
ReportTerminal(o) ==
    LET label == IF o # "dlq_publish_failed" /\ ~decoded /\ "decode" \in err
                   THEN "decode_failed" ELSE o
    IN  /\ reports' = IF reports = <<>> THEN <<label>> ELSE reports
        /\ ended' = TRUE

NoReport == UNCHANGED <<reports, ended>>

\* A settlement that reports o, or with "none" nothing.
Conclude(d, o) ==
    /\ disp' = d
    /\ out' = o
    /\ IF o = "none" THEN NoReport ELSE ReportTerminal(o)
    /\ Goto("flushing")

\* Mutant of SettleInterrupted: not reported on the final delivery.
SettleInterruptedSilent ==
    /\ IsInterrupted(sub # "live", err)
    /\ Conclude("retry", "none")
    /\ slips' = IF "dead_lettered" \in err THEN slips \cup {"interrupted"} ELSE slips

SettleInterrupted ==
    /\ IsInterrupted(sub # "live", err)
    /\ Conclude("retry", IF Final THEN "interrupted" ELSE "none")
    /\ slips' = IF "dead_lettered" \in err THEN slips \cup {"interrupted"} ELSE slips

SettleAck ==
    /\ Dispose(err, Final) = "ack"
    /\ Conclude("ack", IF "duplicate" \in err THEN "none" ELSE "dead_lettered")

SettleRetry ==
    /\ Dispose(err, Final) = "retry_delayed"
    /\ Conclude("retry_delayed",
                IF "dlq_failed" \in err /\ Final THEN "dlq_publish_failed" ELSE "none")

SettleTerminal ==
    /\ Dispose(err, Final) = "terminal"
    /\ \/ ~conf.backstop /\ Conclude("terminal", "dropped")
       \/ conf.backstop /\ Goto("publishing") /\ UNCHANGED settled /\ NoReport

Settle ==
    /\ pc = "settling"
    /\ tries' = IF Dispose(err, Final) = "terminal" THEN 0 ELSE tries
    /\ \/ SettleInterrupted
       \/ /\ ~IsInterrupted(sub # "live", err)
          /\ SettleAck \/ SettleRetry \/ SettleTerminal
          /\ UNCHANGED slips
    /\ UNCHANGED <<conf, msg, counts, contexts, err, decoded, pending, panicked,
                   done, dlq>>

\* One attempt of the publish of Settle that returns.
SettlePublish ==
    /\ pc = "publishing"
    /\ tries' = tries + 1
    /\ \/ /\ Confirmed
          /\ ended' = TRUE
          /\ Goto("published")
          /\ UNCHANGED <<err, settled, reports>>
       \/ /\ LastTry(SettleCtxEnded)
          /\ \E p \in PublishErrors : err' = err \cup {"dlq_failed"} \cup p
          /\ Conclude("retry_delayed", IF Final THEN "dlq_publish_failed" ELSE "none")
          /\ Unconfirmed
       \/ /\ ~LastTry(SettleCtxEnded)
          /\ Unconfirmed
          /\ UNCHANGED <<pc, err, ended, settled, reports>>
    /\ UNCHANGED <<conf, msg, counts, contexts, decoded, pending, panicked, done, slips>>

\* The record is stored: the DeadLettered signal, then the report.
SettlePublished ==
    /\ pc = "published"
    /\ Conclude("terminal", "dead_lettered")
    /\ UNCHANGED <<conf, msg, counts, contexts, err, decoded, tries, pending, panicked,
                   done, dlq, slips>>

\* flushHandlerDone, with what HandlerDone is completed by.
FlushAs(o) ==
    /\ done' = IF pending THEN Append(done, o) ELSE done
    /\ pending' = FALSE

Flush ==
    /\ pc = "flushing"
    /\ FlushAs(HandlerDoneOutcome(disp, out))
    /\ Goto("acting")
    /\ UNCHANGED <<conf, msg, counts, contexts, err, decoded, tries, ended, settled,
                   panicked, reports, dlq, slips>>

\* Settle panics: its publisher does, or, on a JetStream bus whose observer is
\* not isolated by a MultiObserver, the observer does, in DeadLettered or in
\* Failure.  The deferred flush sees the zero Settlement.
SettlePanics ==
    /\ \/ pc = "publishing" /\ Unconfirmed
       \/ pc = "published" /\ Redelivers /\ UNCHANGED dlq
       \/ pc = "flushing" /\ reports # <<>> /\ Redelivers /\ UNCHANGED dlq
    /\ FlushAs(HandlerDoneOutcome("none", "none"))
    /\ disp' = "none" /\ out' = "none"
    /\ panicked' = TRUE
    /\ Goto("recovering")
    /\ UNCHANGED <<conf, msg, counts, contexts, err, decoded, tries, ended, reports,
                   slips>>

-----------------------------------------------------------------------------
(* The broker *)

\* Where the message is after the broker action of disposition d, which may be
\* lost: the server then redelivers it as long as it may.
Broker(d) ==
    \/ /\ msg' = CASE d = "ack" -> "acked"
                   [] d = "terminal" -> "termed"
                   [] OTHER -> After(count)
       /\ UNCHANGED slips
    \/ /\ msg' = After(count)
       /\ slips' = slips \cup {"broker"}

\* apply on JetStream; the other transports have no broker action to take.
Act ==
    /\ pc = "acting"
    /\ IF Redelivers THEN Broker(disp) ELSE msg' = "spent" /\ UNCHANGED slips
    /\ Goto("idle")
    /\ UNCHANGED <<conf, counts, contexts, err, decoded, tries, pending, ended, settled,
                   panicked, signals, dlq>>

\* Mutant of RecoverDisposition: a settled message is handed back.
RecoverDispositionNak == IF Final /\ ~ended THEN "terminal" ELSE "retry_delayed"

\* The disposition the recover of the JetStream callback chooses.
RecoverDisposition ==
    IF (Final /\ ~ended) \/ (ended /\ ~Final) THEN "terminal" ELSE "retry_delayed"

\* The recover of the callback: JetStream reports a message that no delivery
\* follows, past the scope, and acts; the others only signal the panic.
Recover ==
    /\ pc = "recovering"
    /\ IF Redelivers
         THEN /\ Broker(RecoverDisposition)
              /\ reports' = IF Final /\ ~ended THEN Append(reports, "dropped") ELSE reports
         ELSE msg' = "spent" /\ UNCHANGED <<reports, slips>>
    /\ Goto("idle")
    /\ UNCHANGED <<conf, counts, contexts, err, decoded, tries, pending, ended, settled,
                   panicked, done, dlq>>

-----------------------------------------------------------------------------
(* The contexts *)

\* The drain is given up: HandlerContext is cancelled.
Interrupt ==
    /\ msg = "inhand" /\ ~forced
    /\ forced' = TRUE
    /\ sub' = IF sub = "live" THEN "interrupted" ELSE sub
    /\ UNCHANGED <<conf, msg, counts, pc, timedOut, err, decoded, tries, pending, ended,
                   settled, panicked, signals, dlq, slips>>

\* The owner of the subscription context cancels it.
Cancel ==
    /\ msg = "inhand" /\ sub = "live" /\ conf.transport # "local"
    /\ sub' = "cancelled"
    /\ UNCHANGED <<conf, msg, counts, pc, forced, timedOut, err, decoded, tries, pending,
                   ended, settled, panicked, signals, dlq, slips>>

\* The handler timeout of a LocalBus.
Timeout ==
    /\ msg = "inhand" /\ sub = "live" /\ conf.transport = "local" /\ ~timedOut
    /\ timedOut' = TRUE
    /\ UNCHANGED <<conf, msg, counts, pc, sub, forced, err, decoded, tries, pending,
                   ended, settled, panicked, signals, dlq, slips>>

Next ==
    \/ \E s \in {"live", "cancelled"}, readable \in BOOLEAN : Deliver(s, readable)
    \/ \E readable \in BOOLEAN : HandBack(readable)
    \/ RejectInbound
    \/ DecodeOK
    \/ \E e \in DecodeErrors : DecodeFails(e)
    \/ DecodePanics
    \/ \E e \in HandlerErrors : Handle(e)
    \/ Chain
    \/ ChainPublish
    \/ InvokeDone
    \/ Wrap
    \/ Settle
    \/ SettlePublish
    \/ SettlePublished
    \/ Flush
    \/ SettlePanics
    \/ Act
    \/ Recover
    \/ Interrupt
    \/ Cancel
    \/ Timeout

Spec == Init /\ [][Next]_vars
-----------------------------------------------------------------------------
(* Properties *)

\* The message needs no more: it was handled, or handled before.
Handled ==
    /\ disp = "ack"
    /\ err = Nil \/ "duplicate" \in err

\* The handler chain ran in this delivery.
Ran == decoded /\ (err # Nil \/ disp = "ack")

\* No message disappears without a trace.  One that no delivery follows was
\* handled, or its failure was reported in the delivery that ended it; or that
\* delivery panicked outside the chain, when a transport that never redelivers
\* signals the panic and JetStream has a record (jetstream/bus.go:733-736); or
\* its metadata was unreadable, which is signalled, and it was not known to be
\* the last (jetstream/bus.go:696-700).
NoSilentLoss ==
    msg \in Gone =>
        \/ Handled
        \/ reports # <<>>
        \/ panicked /\ (Redelivers => records > 0)
        \/ "metadata" \in slips

\* The broker is told that a message has ended only when it was handled, when a
\* record of it was confirmed, when the bus has no publisher and reported the drop,
\* or after a panic on the final delivery that was reported; never on a failed
\* dead-letter publish (failure.go:39-41, jetstream/bus.go:719-720).
EndedWithTrace ==
    msg \in {"acked", "termed"} =>
        \/ Handled
        \/ records > 0
        \/ /\ ~conf.backstop /\ "dlq_failed" \notin err
           /\ reports \in {<<"dropped">>, <<"decode_failed">>}
        \/ panicked /\ Final /\ reports = <<"dropped">>

CameBack == slips \cap {"broker", "interrupted"} # {}

\* A message whose record was confirmed, or that was reported, is not delivered
\* again, unless a broker action was lost or a dead-lettered message was read as
\* interrupted (jetstream/bus.go:870-874).
SettledStaysSettled ==
    msg = "queued" /\ (records > 0 \/ reports # <<>>) => CameBack

\* All that the message has left in the dead-letter queue.
Stored == records + strays

\* A confirmed record is the last: neither the chain, nor the backstop, nor a
\* redelivery stores the message again, unless it came back.  The queue holds the
\* message more than once only when a publish failed after it had stored the
\* record, and never because two of the publishers both succeeded ("a record can
\* be duplicated after a crash or a failed acknowledgement",
\* jetstream/dlq.go:35-37; "without publishing a second record",
\* failure.go:31-33).
ConfirmedIsLast ==
    [][records > 0 /\ Stored' > Stored => CameBack]_vars

\* The copies that failed acknowledgements may leave are bounded, also for a
\* message that comes back: a delivery makes one publish, and a second one only
\* by the backstop after the publisher of the chain panicked, each with one
\* attempt, or three on the final delivery (dlq.go:158-181, settle.go:213).
CopiesBounded ==
    count > 0 => Stored <= 2 * (count - 1) + 2 * Attempts

\* Per delivery, Failure is signalled at most once and HandlerDone exactly once
\* when the handler ran, whether it was deferred or not and whether Settle
\* panicked or not (scope.go:76-120, invoke.go:61-80).
SignalsOnce ==
    /\ Len(reports) <= 1
    /\ Len(done) <= 1
    /\ pc = "idle" => ~pending /\ (Ran => Len(done) = 1)

\* HandlerDone tells what became of the message: it agrees with the one Failure
\* signal and with the disposition (invoke.go:64-80, scope.go:122-141).  Kept
\* apart are the errors that match contradicting sentinels.
SignalsAgree ==
    pc = "idle" /\ done # <<>> =>
        LET o == done[1]
        IN  /\ o = "ok" => disp = "ack" /\ reports = <<>>
            /\ o = "duplicate" /\ ~CtxErr(err) => disp = "ack" /\ reports = <<>>
            /\ o = "dead_lettered" /\ "interrupted" \notin slips =>
                  records > 0 /\ (~panicked => reports = <<"dead_lettered">>)
            /\ o = "dropped" => reports = <<"dropped">> /\ (records = 0 \/ CameBack)
            /\ o = "failed" => panicked \/ reports = <<"dlq_publish_failed">>
            /\ o = "retry" => reports = <<>> /\ ~Final
            /\ o \in FlowControl /\ err \cap {"terminal", "panic"} = {} =>
                  reports = <<>> /\ ~Final
            /\ o = "interrupted" /\ "interrupted" \notin err => panicked \/ disp = "retry"

\* On the final delivery the dead-letter publish is given up only after all its
\* attempts, or when its context has ended (dlq.go:113-117).
FinalPublishInsists ==
    out = "dlq_publish_failed" =>
        tries = publishAttemptsFinal \/ HandlerCtxEnded \/ SettleCtxEnded

\* A failure that is final is not read as an interruption.  A handler that timed
\* out "ends dead-lettered (or dropped without a DLQPublisher), never as an
\* interruption" (local-bus.go:115-117), and of a dead-lettered message "a
\* transport that sees it acknowledges the message without publishing a second
\* record" (failure.go:31-33).
FinalFailureNotHandedBack ==
    disp = "retry" => "timeout" \notin err /\ "dead_lettered" \notin err
=============================================================================
