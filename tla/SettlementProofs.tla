------------------------- MODULE SettlementProofs -------------------------
(***************************************************************************)
(* Proofs about Settlement, for any errors a handler chain may return, any *)
(* MaxDeliver settings and any number of deliveries: what becomes of a     *)
(* message, and what the signals say about it.                             *)
(***************************************************************************)
EXTENDS Settlement, TLAPS

(* The inductive invariant, by what it is about. *)

\* The sequences with at most one element.
Singles(S) == {<<>>} \cup {<<x>> : x \in S}

Types ==
    /\ TypeOK
    /\ done \in Singles(Completed)
    /\ reports \in Singles(Reported)

\* The message is in hand while a callback runs; a delivery that ends it is known
\* to be the last, unless its metadata was unreadable.
Placement ==
    /\ pc = "idle" <=> msg # "inhand"
    /\ msg # "queued" => count >= 1
    /\ ~Redelivers => seen = count
    /\ FinalAt(count) /\ ~Final => "metadata" \in slips

Unsettled == {"decoding", "handling", "chain", "chainPublish", "returning",
              "wrapping", "settling", "publishing", "published"}

\* What a callback has and has not produced at each of its steps.
Progress ==
    /\ pc \in Unsettled =>
          /\ ~panicked /\ disp = "none" /\ out = "none" /\ reports = <<>>
          /\ ended = (pc = "published")
    /\ pc \in {"decoding", "handling"} => err = Nil
    /\ pc \in {"chain", "chainPublish"} => err \in HandlerErrors
    /\ pc \in {"settling", "publishing", "published", "flushing"} => err # Nil
    /\ pc = "chainPublish" => err # Nil /\ Dispose(err, Final) = "terminal"
    /\ pc \in {"publishing", "published"} => Dispose(err, Final) = "terminal" /\ conf.backstop
    /\ pc \in {"flushing", "acting"} => ~panicked /\ disp \in Dispositions
    /\ pc = "recovering" => panicked /\ disp = "none" /\ out = "none"

\* HandlerDone is emitted or pending once the handler has returned, never both.
DoneOnce ==
    /\ pc \in {"decoding", "handling", "chain", "chainPublish", "returning", "wrapping"} =>
          decoded
    /\ pc \in {"decoding", "handling", "chain", "chainPublish", "returning"} =>
          ~pending /\ done = <<>>
    /\ ~decoded => ~pending /\ done = <<>> /\ "decode" \in err
    /\ decoded /\ pc \in {"wrapping", "settling", "publishing", "published", "flushing"} =>
          (pending <=> done = <<>>)
    /\ pc \in {"acting", "recovering", "idle"} => ~pending
    /\ pc = "acting" /\ decoded => done # <<>>
    /\ pc \in {"recovering", "idle"} /\ Ran => done # <<>>
    /\ pending => err # Nil /\ "duplicate" \notin err /\ "dead_lettered" \notin err

\* The record a delivery may store: at most one, by the chain or by Settle.
Recorded ==
    /\ "dead_lettered" \in err => records > 0 /\ "duplicate" \notin err
    /\ pc \in {"decoding", "handling", "chain", "chainPublish", "publishing"} =>
          records = 0 \/ CameBack
    /\ pc \in {"returning", "wrapping", "settling"} =>
          records = 0 \/ CameBack \/ "dead_lettered" \in err
    /\ pc = "published" => records > 0
    /\ SettledStaysSettled

\* The result of Settle, with what it reported.
Result ==
    pc \in {"flushing", "acting"} =>
        /\ disp = "ack" => \/ out = "none" /\ (err = Nil \/ "duplicate" \in err)
                           \/ out = "dead_lettered" /\ "dead_lettered" \in err
        /\ disp = "terminal" => \/ out = "dead_lettered" /\ records > 0
                                \/ /\ out = "dropped" /\ ~conf.backstop
                                   /\ "dlq_failed" \notin err /\ (records = 0 \/ CameBack)
        /\ disp = "retry" => out = IF Final THEN "interrupted" ELSE "none"
        /\ disp = "retry_delayed" => out = IF Final THEN "dlq_publish_failed" ELSE "none"
        /\ disp \in {"retry", "retry_delayed"} => records = 0 \/ CameBack
        /\ out = "none" => reports = <<>>
        /\ out # "none" => \/ reports = <<out>>
                           \/ ~decoded /\ reports = <<"decode_failed">>
        /\ ended = (out # "none")

\* What the recover of a callback finds.
Panicked ==
    pc = "recovering" =>
        /\ reports # <<>> => ended
        /\ ended => reports # <<>> \/ records > 0
        /\ ended /\ ~Final =>
              \/ records > 0
              \/ /\ ~conf.backstop /\ "dlq_failed" \notin err
                 /\ reports \in {<<"dropped">>, <<"decode_failed">>}
        /\ ~ended => records = 0 \/ CameBack

\* The error a HandlerDone that was not deferred stands for.
DoneMeans(o) ==
    /\ o = "ok" <=> err = Nil
    /\ o = "duplicate" => "duplicate" \in err /\ "dead_lettered" \notin err
    /\ o = "dead_lettered" => "dead_lettered" \in err
    /\ o = "interrupted" => "interrupted" \in err \/ (sub # "live" /\ CtxErr(err))
    /\ o = "retry" => ~Final /\ Dispose(err, Final) = "retry_delayed"
    /\ o \in FlowControl =>
          /\ ~Final /\ o \in err
          /\ "duplicate" \notin err /\ "dead_lettered" \notin err
    /\ o \notin {"failed", "dropped"}

\* The body of SignalsAgree.
Agrees(o) ==
    /\ o = "ok" => disp = "ack" /\ reports = <<>>
    /\ o = "duplicate" /\ ~CtxErr(err) => disp = "ack" /\ reports = <<>>
    /\ o = "dead_lettered" /\ "interrupted" \notin slips =>
          records > 0 /\ (~panicked => reports = <<"dead_lettered">>)
    /\ o = "dropped" => reports = <<"dropped">> /\ (records = 0 \/ CameBack)
    /\ o = "failed" => panicked \/ reports = <<"dlq_publish_failed">>
    /\ o = "retry" => reports = <<>> /\ ~Final
    /\ o \in FlowControl /\ err \cap {"terminal", "panic"} = {} => reports = <<>> /\ ~Final
    /\ o = "interrupted" /\ "interrupted" \notin err => panicked \/ disp = "retry"

Agreement ==
    done # <<>> =>
        /\ pc \in {"wrapping", "settling", "publishing", "published"} => DoneMeans(done[1])
        /\ pc \in {"publishing", "published"} /\ done[1] = "interrupted" => "interrupted" \in err
        /\ pc \in {"flushing", "acting", "recovering", "idle"} => Agrees(done[1])

\* The attempts of a dead-letter publish.
Insistence ==
    /\ pc \in {"chainPublish", "publishing"} =>
          tries < publishAttemptsFinal /\ (~Final => tries = 0)
    /\ pc \in {"returning", "wrapping", "settling"} /\ "dlq_failed" \in err /\ Final =>
          tries = publishAttemptsFinal \/ HandlerCtxEnded
    /\ FinalPublishInsists

SInv ==
    /\ Types /\ Placement /\ Progress /\ DoneOnce /\ Recorded /\ Result
    /\ Panicked /\ Agreement /\ Insistence
    /\ NoSilentLoss /\ EndedWithTrace
-----------------------------------------------------------------------------
USE DEF Goto, counts, contexts, settled, signals, dlq, Confirmed, Unconfirmed,
        publishAttemptsFinal, Nil

\* A sequence with at most one element.
LEMMA SinglesFacts ==
    ASSUME NEW S, NEW s \in Singles(S)
    PROVE  /\ s \in Seq(S) /\ Len(s) <= 1
           /\ s # <<>> => Len(s) = 1 /\ s[1] \in S /\ s = <<s[1]>>
<1>1. CASE s = <<>>
  BY <1>1
<1>2. ASSUME NEW x \in S, s = <<x>> PROVE s \in Seq(S) /\ Len(s) = 1 /\ s[1] = x
  BY <1>2
<1> QED
  BY <1>1, <1>2 DEF Singles

\* The first element of an empty sequence.
LEMMA SinglesAppend ==
    ASSUME NEW S, NEW x \in S
    PROVE  /\ <<>> \in Singles(S) /\ <<x>> \in Singles(S)
           /\ Append(<<>>, x) = <<x>> /\ <<x>> # <<>> /\ <<x>>[1] = x
BY DEF Singles

\* What Dispose decides, by the sentinels that matter (settle.go).
LEMMA DisposeFacts ==
    ASSUME NEW e, NEW final \in BOOLEAN
    PROVE  /\ Dispose(e, final) \in {"ack", "retry_delayed", "terminal"}
           /\ Dispose(e, final) = "ack" <=>
                 e = Nil \/ "duplicate" \in e \/ "dead_lettered" \in e
           /\ "dlq_failed" \in e => Dispose(e, final) # "terminal"
           /\ Dispose(e, final) = "retry_delayed" /\ final => "dlq_failed" \in e
           /\ Dispose(e, final) = "terminal" /\ ~final /\ e \cap FlowControl # {} =>
                 e \cap {"terminal", "panic"} # {}
BY DEF Dispose, RetryUnlessFinal, FlowControl

\* The marks of WrapInterrupted and WrapTimeout do not change what an error means to
\* Dispose.
LEMMA MarksFacts ==
    ASSUME NEW e \in SUBSET Sentinels, NEW w, e \subseteq w,
           w \subseteq e \cup {"interrupted", "timeout"}
    PROVE  /\ w \in SUBSET Sentinels
           /\ \A s \in Sentinels \ {"interrupted", "timeout"} : s \in w <=> s \in e
           /\ e \subseteq w
           /\ CtxErr(w) <=> CtxErr(e)
           /\ e # Nil => w # Nil /\ \A f \in BOOLEAN : Dispose(w, f) = Dispose(e, f)
<1>1. w \subseteq e \cup {"interrupted", "timeout"} /\ e \subseteq w
  OBVIOUS
<1>2. \A s \in Sentinels \ {"interrupted", "timeout"} : s \in w <=> s \in e
  BY <1>1
<1>3. e # Nil => w # Nil
  BY <1>1
<1>4. ASSUME NEW f \in BOOLEAN, e # Nil PROVE Dispose(w, f) = Dispose(e, f)
  <2>1. /\ "duplicate" \in w <=> "duplicate" \in e
        /\ "dead_lettered" \in w <=> "dead_lettered" \in e
        /\ "dlq_failed" \in w <=> "dlq_failed" \in e
        /\ "panic" \in w <=> "panic" \in e
        /\ "terminal" \in w <=> "terminal" \in e
        /\ "unknown_version" \in w <=> "unknown_version" \in e
        /\ "decode" \in w <=> "decode" \in e
    BY <1>2 DEF Sentinels
  <2>2. w \cap FlowControl = e \cap FlowControl
    BY <1>1 DEF FlowControl
  <2> QED
    BY <1>3, <1>4, <2>1, <2>2 DEF Dispose
<1>5. CtxErr(w) <=> CtxErr(e)
  BY <1>2 DEF CtxErr, Sentinels
<1>6. w \in SUBSET Sentinels
  BY <1>1 DEF Sentinels
<1> QED
  BY <1>1, <1>2, <1>3, <1>4, <1>5, <1>6

\* Final is a truth value.
LEMMA FinalType == ASSUME Types PROVE Final \in BOOLEAN /\ FinalAt(count) \in BOOLEAN
BY DEF Types, TypeOK, Final, FinalAt

\* While a callback runs the message is in hand, and nothing is said of its end.
LEMMA InHand ==
    ASSUME SInv, pc # "idle", UNCHANGED msg
    PROVE  msg = "inhand" /\ NoSilentLoss' /\ EndedWithTrace'
BY DEF SInv, Placement, NoSilentLoss, EndedWithTrace, Gone

\* The event goes on to its handler.
LEMMA DecodeOKStep ==
    ASSUME SInv, DecodeOK
    PROVE  SInv'
<1> USE DEF SInv, Progress, Unsettled
<1>1. msg = "inhand" /\ NoSilentLoss' /\ EndedWithTrace'
  BY InHand DEF DecodeOK
<1>2. Types'
  BY DEF DecodeOK, Types, TypeOK, Labels
<1>3. Placement'
  BY <1>1 DEF DecodeOK, Placement, Redelivers, Final, FinalAt
<1>4. Progress'
  BY <1>1, FinalType DEF DecodeOK, Final, FinalAt, Dispositions
<1>5. DoneOnce'
  BY <1>1 DEF DecodeOK, DoneOnce, Ran
<1>6. Recorded'
  BY <1>1 DEF DecodeOK, Recorded, SettledStaysSettled, CameBack
<1>7. Result' /\ Panicked'
  BY <1>1 DEF DecodeOK, Result, Panicked, Final, FinalAt, CameBack
<1>8. Agreement'
  BY <1>1 DEF DecodeOK, Agreement, DoneMeans, Agrees, CameBack, DoneOnce, Final, FinalAt
<1>9. Insistence'
  BY <1>1, FinalType DEF DecodeOK, Insistence, FinalPublishInsists, HandlerCtxEnded,
     SettleCtxEnded, Final, FinalAt
<1> QED
  BY <1>1, <1>2, <1>3, <1>4, <1>5, <1>6, <1>7, <1>8, <1>9

\* An envelope that does not decode goes to Settle without a handler.
LEMMA DecodeFailsStep ==
    ASSUME SInv, NEW e \in DecodeErrors, DecodeFails(e)
    PROVE  SInv'
<1> USE DEF SInv, Progress, Unsettled
<1>1. msg = "inhand" /\ NoSilentLoss' /\ EndedWithTrace'
  BY InHand DEF DecodeFails
<1>2. Types'
  BY DEF DecodeFails, Types, TypeOK, Labels, DecodeErrors, Sentinels
<1>3. Placement'
  BY <1>1 DEF DecodeFails, Placement, Redelivers, Final, FinalAt
<1>4. Progress'
  BY <1>1, FinalType DEF DecodeFails, Final, FinalAt, Dispositions, DecodeErrors
<1>5. DoneOnce'
  BY <1>1 DEF DecodeFails, DoneOnce, Ran, DecodeErrors
<1>6. Recorded'
  BY <1>1 DEF DecodeFails, Recorded, SettledStaysSettled, CameBack,
     DecodeErrors
<1>7. Result' /\ Panicked'
  BY <1>1 DEF DecodeFails, Result, Panicked, Final, FinalAt, CameBack
<1>8. Agreement'
  BY <1>1 DEF DecodeFails, Agreement, DoneMeans, Agrees, CameBack, DoneOnce, Final,
     FinalAt
<1>9. Insistence'
  BY <1>1, FinalType DEF DecodeFails, Insistence, FinalPublishInsists, HandlerCtxEnded,
     SettleCtxEnded, Final, FinalAt, DecodeErrors
<1> QED
  BY <1>1, <1>2, <1>3, <1>4, <1>5, <1>6, <1>7, <1>8, <1>9

\* A panic of the codec goes to the recover of the callback.
LEMMA DecodePanicsStep ==
    ASSUME SInv, DecodePanics
    PROVE  SInv'
<1> USE DEF SInv, Progress, Unsettled
<1>1. msg = "inhand" /\ NoSilentLoss' /\ EndedWithTrace'
  BY InHand DEF DecodePanics
<1>2. Types'
  BY DEF DecodePanics, Types, TypeOK, Labels
<1>3. Placement'
  BY <1>1 DEF DecodePanics, Placement, Redelivers, Final, FinalAt
<1>4. Progress'
  BY <1>1, FinalType DEF DecodePanics, Final, FinalAt, Dispositions
<1>5. DoneOnce'
  BY <1>1 DEF DecodePanics, DoneOnce, Ran
<1>6. Recorded'
  BY <1>1 DEF DecodePanics, Recorded, SettledStaysSettled, CameBack
<1>7. Result' /\ Panicked'
  BY <1>1 DEF DecodePanics, Result, Panicked, Final, FinalAt, CameBack, Recorded
<1>8. Agreement'
  BY <1>1 DEF DecodePanics, Agreement, DoneMeans, Agrees, CameBack, DoneOnce, Final,
     FinalAt
<1>9. Insistence'
  BY <1>1, FinalType DEF DecodePanics, Insistence, FinalPublishInsists, HandlerCtxEnded,
     SettleCtxEnded, Final, FinalAt
<1> QED
  BY <1>1, <1>2, <1>3, <1>4, <1>5, <1>6, <1>7, <1>8, <1>9

\* The handler returns e.
LEMMA HandleStep ==
    ASSUME SInv, NEW e \in HandlerErrors, Handle(e)
    PROVE  SInv'
<1> USE DEF SInv, Progress, Unsettled
<1>1. msg = "inhand" /\ NoSilentLoss' /\ EndedWithTrace'
  BY InHand DEF Handle
<1>2. Types'
  BY ErrorsAssumption DEF Handle, Types, TypeOK, Labels, Sentinels
<1>3. Placement'
  BY <1>1 DEF Handle, Placement, Redelivers, Final, FinalAt
<1>4. Progress'
  BY <1>1, FinalType, ErrorsAssumption DEF Handle, Final, FinalAt, Dispositions
<1>5. DoneOnce'
  BY <1>1, ErrorsAssumption DEF Handle, DoneOnce, Ran
<1>6. Recorded'
  BY <1>1, ErrorsAssumption DEF Handle, Recorded, SettledStaysSettled, CameBack
<1>7. Result' /\ Panicked'
  BY <1>1 DEF Handle, Result, Panicked, Final, FinalAt, CameBack
<1>8. Agreement'
  BY <1>1 DEF Handle, Agreement, DoneMeans, Agrees, CameBack, DoneOnce, Final, FinalAt
<1>9. Insistence'
  BY <1>1, FinalType, ErrorsAssumption DEF Handle, Insistence, FinalPublishInsists,
     HandlerCtxEnded,
     SettleCtxEnded, Final, FinalAt
<1> QED
  BY <1>1, <1>2, <1>3, <1>4, <1>5, <1>6, <1>7, <1>8, <1>9

\* The DLQ invoker publishes a failure that is terminal, and lets the others pass.
LEMMA ChainStep ==
    ASSUME SInv, Chain
    PROVE  SInv'
<1> USE DEF SInv, Progress, Unsettled
<1>1. msg = "inhand" /\ NoSilentLoss' /\ EndedWithTrace'
  BY InHand DEF Chain
<1>2. Types'
  BY DEF Chain, Types, TypeOK, Labels
<1>3. Placement'
  BY <1>1 DEF Chain, Placement, Redelivers, Final, FinalAt
<1>4. Progress'
  BY <1>1, FinalType DEF Chain, Final, FinalAt, Dispositions, ChainDecides
<1>5. DoneOnce'
  BY <1>1 DEF Chain, DoneOnce, Ran
<1>6. Recorded'
  BY <1>1 DEF Chain, Recorded, SettledStaysSettled, CameBack
<1>7. Result' /\ Panicked'
  BY <1>1 DEF Chain, Result, Panicked, Final, FinalAt, CameBack
<1>8. Agreement'
  BY <1>1 DEF Chain, Agreement, DoneMeans, Agrees, CameBack, DoneOnce, Final, FinalAt
<1>9. Insistence'
  BY <1>1, FinalType, ErrorsAssumption DEF Chain, Insistence, FinalPublishInsists,
     HandlerCtxEnded,
     SettleCtxEnded, Final, FinalAt
<1> QED
  BY <1>1, <1>2, <1>3, <1>4, <1>5, <1>6, <1>7, <1>8, <1>9

\* The drain is given up while the message is in hand.
LEMMA InterruptStep ==
    ASSUME SInv, Interrupt
    PROVE  SInv'
<1> USE DEF SInv, Progress, Unsettled
<1>1. msg = "inhand" /\ NoSilentLoss' /\ EndedWithTrace'
  BY InHand DEF Interrupt, Placement
<1>2. Types'
  BY DEF Interrupt, Types, TypeOK, Labels
<1>3. Placement'
  BY <1>1 DEF Interrupt, Placement, Redelivers, Final, FinalAt
<1>4. Progress'
  BY <1>1, FinalType DEF Interrupt, Final, FinalAt, Dispositions
<1>5. DoneOnce'
  BY <1>1 DEF Interrupt, DoneOnce, Ran
<1>6. Recorded'
  BY <1>1 DEF Interrupt, Recorded, SettledStaysSettled, CameBack
<1>7. Result' /\ Panicked'
  BY <1>1 DEF Interrupt, Result, Panicked, Final, FinalAt, CameBack
<1>8. Agreement'
  BY <1>1 DEF Interrupt, Agreement, DoneMeans, Agrees, CameBack, DoneOnce, Final, FinalAt
<1>9. Insistence'
  BY <1>1, FinalType DEF Interrupt, Insistence, FinalPublishInsists, HandlerCtxEnded,
     SettleCtxEnded, Final, FinalAt
<1> QED
  BY <1>1, <1>2, <1>3, <1>4, <1>5, <1>6, <1>7, <1>8, <1>9

\* The owner cancels the subscription context.
LEMMA CancelStep ==
    ASSUME SInv, Cancel
    PROVE  SInv'
<1> USE DEF SInv, Progress, Unsettled
<1>1. msg = "inhand" /\ NoSilentLoss' /\ EndedWithTrace'
  BY InHand DEF Cancel, Placement
<1>2. Types'
  BY DEF Cancel, Types, TypeOK, Labels
<1>3. Placement'
  BY <1>1 DEF Cancel, Placement, Redelivers, Final, FinalAt
<1>4. Progress'
  BY <1>1, FinalType DEF Cancel, Final, FinalAt, Dispositions
<1>5. DoneOnce'
  BY <1>1 DEF Cancel, DoneOnce, Ran
<1>6. Recorded'
  BY <1>1 DEF Cancel, Recorded, SettledStaysSettled, CameBack
<1>7. Result' /\ Panicked'
  BY <1>1 DEF Cancel, Result, Panicked, Final, FinalAt, CameBack
<1>8. Agreement'
  BY <1>1 DEF Cancel, Agreement, DoneMeans, Agrees, CameBack, DoneOnce, Final, FinalAt
<1>9. Insistence'
  BY <1>1, FinalType DEF Cancel, Insistence, FinalPublishInsists, HandlerCtxEnded,
     SettleCtxEnded, Final, FinalAt
<1> QED
  BY <1>1, <1>2, <1>3, <1>4, <1>5, <1>6, <1>7, <1>8, <1>9

\* The handler timeout of a LocalBus passes.
LEMMA TimeoutStep ==
    ASSUME SInv, Timeout
    PROVE  SInv'
<1> USE DEF SInv, Progress, Unsettled
<1>1. msg = "inhand" /\ NoSilentLoss' /\ EndedWithTrace'
  BY InHand DEF Timeout, Placement
<1>2. Types'
  BY DEF Timeout, Types, TypeOK, Labels
<1>3. Placement'
  BY <1>1 DEF Timeout, Placement, Redelivers, Final, FinalAt
<1>4. Progress'
  BY <1>1, FinalType DEF Timeout, Final, FinalAt, Dispositions
<1>5. DoneOnce'
  BY <1>1 DEF Timeout, DoneOnce, Ran
<1>6. Recorded'
  BY <1>1 DEF Timeout, Recorded, SettledStaysSettled, CameBack
<1>7. Result' /\ Panicked'
  BY <1>1 DEF Timeout, Result, Panicked, Final, FinalAt, CameBack
<1>8. Agreement'
  BY <1>1 DEF Timeout, Agreement, DoneMeans, Agrees, CameBack, DoneOnce, Final, FinalAt
<1>9. Insistence'
  BY <1>1, FinalType DEF Timeout, Insistence, FinalPublishInsists, HandlerCtxEnded,
     SettleCtxEnded, Final, FinalAt
<1> QED
  BY <1>1, <1>2, <1>3, <1>4, <1>5, <1>6, <1>7, <1>8, <1>9

\* What InvokeHandler signals, or defers, says what the error was.
LEMMA OutcomeFacts ==
    ASSUME SInv, pc = "returning", NEW o, o = OutcomeOf(err, HandlerCtxEnded, timedOut, Final)
    PROVE  /\ o \in Completed
           /\ ~Deferred(o) => DoneMeans(o)
           /\ Deferred(o) => err # Nil /\ "duplicate" \notin err /\ "dead_lettered" \notin err
<1> USE DEF SInv, Types, TypeOK, IsFlowControl, FlowControl
<1>1. o \in Completed
  BY DEF OutcomeOf, Completed
<1>2. Deferred(o) => err # Nil /\ "duplicate" \notin err /\ "dead_lettered" \notin err
  BY DEF OutcomeOf, Deferred
<1>3. ASSUME ~Deferred(o) PROVE DoneMeans(o)
  BY <1>3, FinalType DEF OutcomeOf, Deferred, DoneMeans, IsInterrupted, HandlerCtxEnded
<1> QED
  BY <1>1, <1>2, <1>3

\* An attempt of the chain to store a record: it is stored, given up, repeated, or
\* panics.
LEMMA ChainPublishStep ==
    ASSUME SInv, ChainPublish
    PROVE  SInv'
<1> USE DEF SInv, Progress, Unsettled
<1>a. "duplicate" \notin err /\ "dead_lettered" \notin err /\ "dlq_failed" \notin err
  BY FinalType, DisposeFacts DEF ChainPublish
<1>b. /\ "dead_lettered" \in err' =>
            records' = records + 1 /\ pc' = "returning" /\ "duplicate" \notin err'
      /\ records' # records => "dead_lettered" \in err'
      /\ "dlq_failed" \in err' => LastTry(HandlerCtxEnded)
  BY <1>a DEF ChainPublish, PanicError, PublishErrors
<1>c. /\ tries' = tries + 1 /\ tries \in 0 .. 2 /\ records' \in {records, records + 1}
      /\ records \in Nat /\ strays' \in Nat /\ err' \in SUBSET Sentinels /\ pc' \in {"chainPublish", "returning"}
  <2>1. tries' = tries + 1 /\ tries \in 0 .. 2 /\ records \in Nat /\ strays \in Nat
    BY DEF ChainPublish, Types, TypeOK, Insistence
  <2>2. err \in SUBSET Sentinels /\ PanicError \in SUBSET Sentinels
        /\ \A p \in PublishErrors : p \in SUBSET Sentinels
    BY DEF Types, TypeOK, PanicError, PublishErrors, Sentinels
  <2>3. {"dead_lettered"} \in SUBSET Sentinels /\ {"dlq_failed"} \in SUBSET Sentinels
    BY DEF Sentinels
  <2> QED
    BY <2>1, <2>2, <2>3 DEF ChainPublish
<1>d. /\ pc' = "chainPublish" => ~LastTry(HandlerCtxEnded) /\ UNCHANGED err
      /\ pc = "chainPublish" /\ UNCHANGED <<conf, seen, sub, timedOut, out>>
  BY DEF ChainPublish
<1>1. msg = "inhand" /\ NoSilentLoss' /\ EndedWithTrace'
  BY InHand DEF ChainPublish
<1>2. Types'
  BY <1>c DEF ChainPublish, Types, TypeOK, Labels, Labels
<1>3. Placement'
  BY <1>1 DEF ChainPublish, Placement, Redelivers, Final, FinalAt
<1>4. Progress'
  BY <1>1, FinalType, <1>a DEF ChainPublish, Final, FinalAt, Dispositions, PanicError
<1>5. DoneOnce'
  BY <1>1, <1>a DEF ChainPublish, DoneOnce, Ran, PanicError
<1>6. Recorded'
  BY <1>1, <1>b, <1>c DEF ChainPublish, Recorded, SettledStaysSettled, CameBack
<1>7. Result' /\ Panicked'
  BY <1>1 DEF ChainPublish, Result, Panicked, Final, FinalAt, CameBack
<1>8. Agreement'
  BY <1>1 DEF ChainPublish, Agreement, DoneMeans, Agrees, CameBack, DoneOnce, Final,
     FinalAt
<1>9. Insistence'
  BY <1>1, FinalType, <1>b, <1>c, <1>d DEF Insistence, FinalPublishInsists,
     HandlerCtxEnded,
     SettleCtxEnded, Final, FinalAt, LastTry, Attempts
<1> QED
  BY <1>1, <1>2, <1>3, <1>4, <1>5, <1>6, <1>7, <1>8, <1>9

\* HandlerDone is emitted, or left to Settle.
LEMMA InvokeDoneStep ==
    ASSUME SInv, InvokeDone
    PROVE  SInv'
<1> USE DEF SInv, Progress, Unsettled
<1> DEFINE o == OutcomeOf(err, HandlerCtxEnded, timedOut, Final)
<1>a. done' \in Singles(Completed) /\ pending' \in BOOLEAN
  <2>1. o \in Completed /\ done = <<>> /\ pending \in BOOLEAN
    BY OutcomeFacts DEF InvokeDone, DoneOnce, Types, TypeOK
  <2>2. done' = done \/ done' = Append(done, o)
    BY DEF InvokeDone
  <2>3. pending' \in BOOLEAN
    BY <2>1 DEF InvokeDone
  <2> QED
    BY <2>1, <2>2, <2>3, SinglesAppend
<1>1. msg = "inhand" /\ NoSilentLoss' /\ EndedWithTrace'
  BY InHand DEF InvokeDone
<1>2. Types'
  BY <1>a, SinglesFacts DEF InvokeDone, Types, TypeOK, Labels, DoneOnce
<1>3. Placement'
  BY <1>1 DEF InvokeDone, Placement, Redelivers, Final, FinalAt
<1>4. Progress'
  BY <1>1, FinalType DEF InvokeDone, Final, FinalAt, Dispositions
<1>5. DoneOnce'
  BY <1>1, OutcomeFacts, SinglesAppend DEF InvokeDone, DoneOnce, Ran
<1>6. Recorded'
  BY <1>1 DEF InvokeDone, Recorded, SettledStaysSettled, CameBack
<1>7. Result' /\ Panicked'
  BY <1>1 DEF InvokeDone, Result, Panicked, Final, FinalAt, CameBack
<1>8. Agreement'
  BY <1>1, OutcomeFacts, SinglesAppend DEF InvokeDone, Agreement, DoneMeans, Agrees,
     CameBack, DoneOnce, Final, FinalAt
<1>9. Insistence'
  BY <1>1, FinalType DEF InvokeDone, Insistence, FinalPublishInsists, HandlerCtxEnded,
     SettleCtxEnded, Final, FinalAt
<1> QED
  BY <1>1, <1>2, <1>3, <1>4, <1>5, <1>6, <1>7, <1>8, <1>9

\* Nothing failed: the callback acts, without Settle.
LEMMA WrapNilStep ==
    ASSUME SInv, Wrap, err = Nil
    PROVE  SInv'
<1> USE DEF SInv, Progress, Unsettled
<1>1. NoSilentLoss' /\ EndedWithTrace' /\ msg = "inhand"
  BY InHand DEF Wrap
<1>2. Types'
  BY DEF Wrap, Types, TypeOK, Labels, Dispositions
<1>3. Placement'
  BY <1>1 DEF Wrap, Placement, Redelivers, Final, FinalAt
<1>4. Progress' /\ Result' /\ Panicked'
  BY DEF Wrap, Dispositions, Result, Panicked
<1>5. DoneOnce'
  BY DEF Wrap, DoneOnce
<1>6. Recorded'
  BY <1>1 DEF Wrap, Recorded, SettledStaysSettled, CameBack
<1>7. Agreement'
  BY DEF Wrap, Agreement, DoneMeans, Agrees, FlowControl
<1>8. Insistence'
  BY DEF Wrap, Insistence, FinalPublishInsists
<1> QED
  BY <1>1, <1>2, <1>3, <1>4, <1>5, <1>6, <1>7, <1>8

\* A failure gets its marks, which do not change what Settle makes of it.
LEMMA WrapErrorStep ==
    ASSUME SInv, Wrap, err # Nil
    PROVE  SInv'
<1> USE DEF SInv, Progress, Unsettled
<1>1. NoSilentLoss' /\ EndedWithTrace' /\ msg = "inhand"
  BY InHand DEF Wrap
<1>2. /\ pc = "wrapping" /\ pc' = "settling"
      /\ UNCHANGED <<conf, msg, count, seen, sub, forced, timedOut, decoded, tries, pending,
                     ended, disp, out, panicked, done, reports, dlq, slips>>
  BY DEF Wrap
<1>3. /\ err' \in SUBSET Sentinels /\ err' # Nil /\ err \subseteq err'
      /\ \A s \in Sentinels \ {"interrupted", "timeout"} : s \in err' <=> s \in err
      /\ CtxErr(err') <=> CtxErr(err)
      /\ \A f \in BOOLEAN : Dispose(err', f) = Dispose(err, f)
  <2>1. err \in SUBSET Sentinels
    BY DEF Types, TypeOK
  <2>2. err \subseteq err' /\ err' \subseteq err \cup {"interrupted", "timeout"}
    BY DEF Wrap, WrapInterrupted, WrapTimeout
  <2> QED
    BY <2>1, <2>2, MarksFacts
<1>4. /\ "duplicate" \in err' <=> "duplicate" \in err
      /\ "dead_lettered" \in err' <=> "dead_lettered" \in err
      /\ "dlq_failed" \in err' <=> "dlq_failed" \in err
      /\ \A o \in FlowControl : o \in err' <=> o \in err
  BY <1>3 DEF Sentinels, FlowControl
<1>5. Types'
  BY <1>2, <1>3 DEF Types, TypeOK, Labels
<1>6. Placement'
  BY <1>1, <1>2 DEF Placement, Redelivers, Final, FinalAt
<1>7. Progress' /\ Result' /\ Panicked'
  BY <1>2, <1>3 DEF Result, Panicked
<1>8. DoneOnce'
  BY <1>2, <1>3, <1>4 DEF DoneOnce
<1>9. Recorded'
  BY <1>1, <1>2, <1>4 DEF Recorded, SettledStaysSettled, CameBack
<1>10. Agreement'
  <2>1. Final' = Final /\ Final \in BOOLEAN
    BY <1>2, FinalType DEF Final, FinalAt
  <2> QED
    BY <1>2, <1>3, <1>4, <2>1 DEF Agreement, DoneMeans
<1>11. Insistence'
  BY <1>2, <1>4 DEF Insistence, FinalPublishInsists, HandlerCtxEnded, Final, FinalAt
<1> QED
  BY <1>1, <1>5, <1>6, <1>7, <1>8, <1>9, <1>10, <1>11

\* A conclusion of Settle and its one report.
LEMMA ConcludeFacts ==
    ASSUME SInv, pc \in {"settling", "publishing", "published"}, NEW d,
           NEW o \in Reported \cup {"none"}, Conclude(d, o), o = "none" => pc # "published"
    PROVE  /\ disp' = d /\ out' = o /\ pc' = "flushing" /\ ended' = (o # "none")
           /\ reports' \in Singles(Reported)
           /\ o = "none" => reports' = <<>>
           /\ o # "none" => \/ reports' = <<o>>
                            \/ ~decoded /\ reports' = <<"decode_failed">>
<1>1. reports = <<>> /\ ended = (pc = "published")
  BY DEF SInv, Progress, Unsettled
<1>2. <<>> \in Singles(Reported) /\ <<"decode_failed">> \in Singles(Reported)
      /\ (o # "none" => <<o>> \in Singles(Reported))
  BY SinglesAppend DEF Reported
<1> QED
  BY <1>1, <1>2 DEF Conclude, NoReport, ReportTerminal

\* The parts of the invariant that any conclusion of Settle keeps.
LEMMA ConcludeKeeps ==
    ASSUME SInv, pc \in {"settling", "publishing", "published"}, NEW d \in Dispositions,
           NEW o \in Reported \cup {"none"}, Conclude(d, o), o = "none" => pc # "published",
           UNCHANGED <<conf, msg, counts, contexts, decoded, pending, panicked, done,
                       records>>,
           strays' \in Nat,
           err \subseteq err', err' \subseteq err \cup {"dlq_failed", "deadline"},
           slips \subseteq slips', slips' \subseteq slips \cup {"interrupted"},
           tries' \in 0 .. publishAttemptsFinal,
           o = "dlq_publish_failed" =>
               tries' = publishAttemptsFinal \/ HandlerCtxEnded \/ SettleCtxEnded
    PROVE  /\ Types' /\ Placement' /\ Progress' /\ DoneOnce' /\ Recorded' /\ Panicked'
           /\ Insistence' /\ NoSilentLoss' /\ EndedWithTrace'
<1> USE DEF SInv, Progress, Unsettled
<1>1. NoSilentLoss' /\ EndedWithTrace' /\ msg = "inhand"
  BY InHand
<1>2. /\ disp' = d /\ out' = o /\ pc' = "flushing" /\ ended' \in BOOLEAN
      /\ reports' \in Singles(Reported)
  BY ConcludeFacts
<1>3. err' \in SUBSET Sentinels /\ err' # Nil
      /\ ("duplicate" \in err' <=> "duplicate" \in err)
      /\ ("dead_lettered" \in err' <=> "dead_lettered" \in err)
  BY DEF Types, TypeOK, Sentinels
<1>4. Types'
  BY <1>2, <1>3, SinglesFacts DEF Types, TypeOK, Labels
<1>5. Placement'
  BY <1>1, <1>2 DEF Placement, Redelivers, Final, FinalAt
<1>6. Progress' /\ Panicked'
  BY <1>2, <1>3 DEF Panicked
<1>7. DoneOnce'
  BY <1>2, <1>3 DEF DoneOnce
<1>8. Recorded'
  BY <1>1, <1>2, <1>3 DEF Recorded, SettledStaysSettled, CameBack
<1>9. Insistence'
  BY <1>2 DEF Insistence, FinalPublishInsists, HandlerCtxEnded, SettleCtxEnded
<1> QED
  BY <1>1, <1>4, <1>5, <1>6, <1>7, <1>8, <1>9

\* What every case of Settle leaves alone, and what it starts from.
LEMMA SettleFacts ==
    ASSUME SInv, Settle
    PROVE  /\ pc = "settling" /\ err # Nil /\ reports = <<>> /\ ~panicked
           /\ UNCHANGED <<conf, msg, count, seen, sub, forced, timedOut, err, decoded, pending,
                          panicked, done, dlq>> /\ strays' \in Nat
           /\ Final \in BOOLEAN /\ Final' = Final /\ tries' \in 0 .. publishAttemptsFinal
           /\ records = 0 \/ CameBack \/ "dead_lettered" \in err
           /\ done # <<>> => decoded /\ DoneMeans(done[1])
<1> USE DEF SInv
<1>1. pc = "settling" /\ err # Nil /\ reports = <<>> /\ ~panicked
  BY DEF Settle, Progress, Unsettled
<1>2. UNCHANGED <<conf, msg, count, seen, sub, forced, timedOut, err, decoded, pending,
                  panicked, done, dlq>> /\ strays' \in Nat
  BY DEF Settle, Types, TypeOK
<1>3. Final \in BOOLEAN /\ Final' = Final
  BY <1>2, FinalType DEF Final, FinalAt
<1>4. tries' \in 0 .. publishAttemptsFinal
  BY DEF Settle, Types, TypeOK
<1>5. records = 0 \/ CameBack \/ "dead_lettered" \in err
  BY <1>1 DEF Recorded
<1>6. done # <<>> => decoded /\ DoneMeans(done[1])
  BY <1>1 DEF DoneOnce, Agreement
<1> QED
  BY <1>1, <1>2, <1>3, <1>4, <1>5, <1>6

\* The context ended and the error says so: handed back, reported when final.
LEMMA SettleInterruptedStep ==
    ASSUME SInv, Settle, SettleInterrupted
    PROVE  SInv'
<1> DEFINE o == IF Final THEN "interrupted" ELSE "none"
<1>1. Conclude("retry", o) /\ o \in Reported \cup {"none"} /\ "retry" \in Dispositions
  BY DEF SettleInterrupted, Reported, Dispositions
<1>2. slips \subseteq slips' /\ slips' \subseteq slips \cup {"interrupted"}
      /\ ("dead_lettered" \in err => "interrupted" \in slips') /\ CtxErr(err)
  BY DEF SettleInterrupted, IsInterrupted
<1>3. /\ Types' /\ Placement' /\ Progress' /\ DoneOnce' /\ Recorded' /\ Panicked'
      /\ Insistence' /\ NoSilentLoss' /\ EndedWithTrace'
  BY <1>1, <1>2, SettleFacts, ConcludeKeeps
<1>4. /\ disp' = "retry" /\ out' = o /\ pc' = "flushing" /\ ended' = (o # "none")
      /\ o = "none" => reports' = <<>>
      /\ o # "none" => \/ reports' = <<o>>
                       \/ ~decoded /\ reports' = <<"decode_failed">>
  BY <1>1, SettleFacts, ConcludeFacts
<1>5. Result'
  BY <1>2, <1>4, SettleFacts DEF Result, CameBack
<1>6. Agreement'
  BY <1>2, <1>4, SettleFacts DEF Agreement, DoneMeans, Agrees
<1> QED
  BY <1>3, <1>5, <1>6 DEF SInv

\* An Ack: the message was handled before, or the chain stored its record.
LEMMA SettleAckStep ==
    ASSUME SInv, Settle, SettleAck, ~IsInterrupted(sub # "live", err), UNCHANGED slips
    PROVE  SInv'
<1> DEFINE o == IF "duplicate" \in err THEN "none" ELSE "dead_lettered"
<1>1. Conclude("ack", o) /\ o \in Reported \cup {"none"} /\ "ack" \in Dispositions
  BY DEF SettleAck, Reported, Dispositions
<1>2. /\ "duplicate" \in err \/ "dead_lettered" \in err
      /\ "dead_lettered" \in err => records > 0 /\ "duplicate" \notin err
      /\ Dispose(err, Final) = "ack"
  BY SettleFacts, DisposeFacts DEF SettleAck, SInv, Recorded
<1>3. /\ Types' /\ Placement' /\ Progress' /\ DoneOnce' /\ Recorded' /\ Panicked'
      /\ Insistence' /\ NoSilentLoss' /\ EndedWithTrace'
  BY <1>1, SettleFacts, ConcludeKeeps
<1>4. /\ disp' = "ack" /\ out' = o /\ pc' = "flushing" /\ ended' = (o # "none")
      /\ o = "none" => reports' = <<>>
      /\ o # "none" => \/ reports' = <<o>>
                       \/ ~decoded /\ reports' = <<"decode_failed">>
  BY <1>1, SettleFacts, ConcludeFacts
<1>5. Result'
  BY <1>2, <1>4, SettleFacts DEF Result
<1>6. Agreement'
  BY <1>2, <1>4, SettleFacts DEF Agreement, DoneMeans, Agrees, IsInterrupted
<1> QED
  BY <1>3, <1>5, <1>6 DEF SInv

\* A delayed retry: reported only when the record could not be stored and no
\* delivery follows.
LEMMA SettleRetryStep ==
    ASSUME SInv, Settle, SettleRetry, ~IsInterrupted(sub # "live", err), UNCHANGED slips
    PROVE  SInv'
<1> DEFINE o == IF "dlq_failed" \in err /\ Final THEN "dlq_publish_failed" ELSE "none"
<1>1. /\ Conclude("retry_delayed", o) /\ o \in Reported \cup {"none"}
      /\ "retry_delayed" \in Dispositions
  BY DEF SettleRetry, Reported, Dispositions
<1>2. /\ "duplicate" \notin err /\ "dead_lettered" \notin err
      /\ Final => "dlq_failed" \in err
      /\ tries' = tries
  BY SettleFacts, DisposeFacts DEF SettleRetry, Settle
<1>3. o = "dlq_publish_failed" =>
          tries' = publishAttemptsFinal \/ HandlerCtxEnded \/ SettleCtxEnded
  BY <1>2, SettleFacts DEF SInv, Insistence
<1>4. /\ Types' /\ Placement' /\ Progress' /\ DoneOnce' /\ Recorded' /\ Panicked'
      /\ Insistence' /\ NoSilentLoss' /\ EndedWithTrace'
  BY <1>1, <1>3, SettleFacts, ConcludeKeeps
<1>5. /\ disp' = "retry_delayed" /\ out' = o /\ pc' = "flushing" /\ ended' = (o # "none")
      /\ o = "none" => reports' = <<>>
      /\ o # "none" => \/ reports' = <<o>>
                       \/ ~decoded /\ reports' = <<"decode_failed">>
  BY <1>1, SettleFacts, ConcludeFacts
<1>6. Result'
  BY <1>2, <1>5, SettleFacts DEF Result, CameBack
<1>7. Agreement'
  BY <1>2, <1>5, SettleFacts DEF Agreement, DoneMeans, Agrees, IsInterrupted
<1> QED
  BY <1>4, <1>6, <1>7 DEF SInv

\* What was signalled before Settle calls a failure terminal.
LEMMA TerminalDone ==
    ASSUME SInv, pc \in {"settling", "publishing", "published"}, done # <<>>,
           Dispose(err, Final) = "terminal",
           pc = "settling" => ~IsInterrupted(sub # "live", err)
    PROVE  /\ done[1] \in {"interrupted"} \cup FlowControl
           /\ done[1] = "interrupted" => "interrupted" \in err
           /\ done[1] \in FlowControl => err \cap {"terminal", "panic"} # {}
<1>1. DoneMeans(done[1]) /\ err # Nil /\ done[1] \in Completed
  BY SinglesFacts DEF SInv, Agreement, Progress, Types
<1>2. "duplicate" \notin err /\ "dead_lettered" \notin err
  BY FinalType, DisposeFacts DEF SInv
<1>3. done[1] \in {"interrupted"} \cup FlowControl
  BY <1>1, <1>2 DEF DoneMeans, Completed
<1>4. done[1] = "interrupted" => "interrupted" \in err
  BY <1>1 DEF DoneMeans, IsInterrupted, SInv, Agreement
<1>5. done[1] \in FlowControl => err \cap {"terminal", "panic"} # {}
  <2> SUFFICES ASSUME done[1] \in FlowControl PROVE err \cap {"terminal", "panic"} # {}
    OBVIOUS
  <2>1. ~Final /\ err \cap FlowControl # {} /\ Final \in BOOLEAN
    BY <1>1, FinalType DEF DoneMeans, SInv
  <2> QED
    BY <2>1, DisposeFacts
<1> QED
  BY <1>3, <1>4, <1>5

\* A terminal failure without a publisher is dropped, and reported.
LEMMA SettleDropStep ==
    ASSUME SInv, Settle, Dispose(err, Final) = "terminal", ~conf.backstop,
           Conclude("terminal", "dropped"), ~IsInterrupted(sub # "live", err), UNCHANGED slips
    PROVE  SInv'
<1>1. "dropped" \in Reported \cup {"none"} /\ "terminal" \in Dispositions
  BY DEF Reported, Dispositions
<1>2. "dlq_failed" \notin err /\ "dead_lettered" \notin err
  BY SettleFacts, DisposeFacts
<1>3. /\ Types' /\ Placement' /\ Progress' /\ DoneOnce' /\ Recorded' /\ Panicked'
      /\ Insistence' /\ NoSilentLoss' /\ EndedWithTrace'
  BY <1>1, SettleFacts, ConcludeKeeps
<1>4. /\ disp' = "terminal" /\ out' = "dropped" /\ pc' = "flushing" /\ ended' = TRUE
      /\ \/ reports' = <<"dropped">>
         \/ ~decoded /\ reports' = <<"decode_failed">>
  BY <1>1, SettleFacts, ConcludeFacts
<1>5. Result'
  BY <1>2, <1>4, SettleFacts DEF Result, CameBack
<1>6. Agreement'
  BY <1>4, SettleFacts, TerminalDone DEF Agreement, Agrees, FlowControl
<1> QED
  BY <1>3, <1>5, <1>6 DEF SInv

\* A terminal failure with a publisher: the dead-letter publish begins.
LEMMA SettleBackstopStep ==
    ASSUME SInv, Settle, Dispose(err, Final) = "terminal", conf.backstop,
           pc' = "publishing", UNCHANGED <<settled, reports, ended, slips>>,
           ~IsInterrupted(sub # "live", err)
    PROVE  SInv'
<1> USE DEF SInv, Progress, Unsettled
<1>1. NoSilentLoss' /\ EndedWithTrace' /\ msg = "inhand"
  BY InHand, SettleFacts
<1>2. tries' = 0 /\ "dead_lettered" \notin err
  BY SettleFacts, DisposeFacts DEF Settle
<1>3. Types'
  BY SettleFacts DEF Types, TypeOK, Labels
<1>4. Placement'
  BY <1>1, SettleFacts DEF Placement, Redelivers, Final, FinalAt
<1>5. Progress' /\ Result' /\ Panicked'
  BY SettleFacts DEF Result, Panicked
<1>6. DoneOnce'
  BY SettleFacts DEF DoneOnce
<1>7. Recorded'
  BY <1>1, <1>2, SettleFacts DEF Recorded, SettledStaysSettled, CameBack
<1>8. Agreement'
  BY SettleFacts, TerminalDone DEF Agreement, DoneMeans
<1>9. Insistence'
  BY <1>2, SettleFacts DEF Insistence, FinalPublishInsists
<1> QED
  BY <1>1, <1>3, <1>4, <1>5, <1>6, <1>7, <1>8, <1>9

\* The cases of Settle.
LEMMA SettleStep ==
    ASSUME SInv, Settle
    PROVE  SInv'
<1>1. CASE SettleInterrupted
  BY <1>1, SettleInterruptedStep
<1>2. CASE ~IsInterrupted(sub # "live", err) /\ UNCHANGED slips /\ SettleAck
  BY <1>2, SettleAckStep
<1>3. CASE ~IsInterrupted(sub # "live", err) /\ UNCHANGED slips /\ SettleRetry
  BY <1>3, SettleRetryStep
<1>4. CASE ~IsInterrupted(sub # "live", err) /\ UNCHANGED slips /\ SettleTerminal
  BY <1>4, SettleDropStep, SettleBackstopStep DEF SettleTerminal, NoReport
<1> QED
  BY <1>1, <1>2, <1>3, <1>4 DEF Settle

\* The publish of Settle stores the record, or is tried again.
LEMMA SettlePublishOnStep ==
    ASSUME SInv, SettlePublish, pc' \in {"published", "publishing"}
    PROVE  SInv'
<1> USE DEF SInv, Progress, Unsettled
<1>1. NoSilentLoss' /\ EndedWithTrace' /\ msg = "inhand"
  BY InHand DEF SettlePublish
<1>2. /\ pc = "publishing" /\ tries' = tries + 1 /\ tries \in 0 .. 2 /\ records \in Nat
      /\ UNCHANGED <<conf, msg, count, seen, sub, forced, timedOut, err, decoded, pending,
                     disp, out, panicked, done, reports, slips>>
      /\ \/ pc' = "published" /\ records' = records + 1 /\ ended' = TRUE
         \/ /\ pc' = "publishing" /\ ~LastTry(SettleCtxEnded)
            /\ UNCHANGED <<records, ended>>
      /\ strays' \in Nat
  BY DEF SettlePublish, Conclude, Types, TypeOK, Insistence
<1>3. Types'
  <2> HIDE DEF Progress
  <2>1. tries' \in 0 .. 3 /\ records' \in Nat
    BY <1>2
  <2>2. ended \in BOOLEAN
    BY DEF Types, TypeOK
  <2>3. ended' \in BOOLEAN
    BY <1>2, <2>2
  <2> QED
    BY <1>2, <2>1, <2>3 DEF Types, TypeOK, Labels
<1>4. Placement'
  BY <1>1, <1>2 DEF Placement, Redelivers, Final, FinalAt
<1>5. Progress' /\ Result' /\ Panicked'
  BY <1>2 DEF Result, Panicked, Final, FinalAt
<1>6. DoneOnce'
  BY <1>2 DEF DoneOnce
<1>7. Recorded'
  BY <1>1, <1>2 DEF Recorded, SettledStaysSettled, CameBack
<1>8. Agreement'
  BY <1>2 DEF Agreement, DoneMeans, Final, FinalAt
<1>9. Insistence'
  BY <1>2, FinalType DEF Insistence, FinalPublishInsists, LastTry, Attempts, Final, FinalAt
<1> QED
  BY <1>1, <1>3, <1>4, <1>5, <1>6, <1>7, <1>8, <1>9

\* The publish of Settle is given up: a delayed retry, reported when final.
LEMMA SettlePublishFailsStep ==
    ASSUME SInv, SettlePublish, pc' \notin {"published", "publishing"}
    PROVE  SInv'
<1> DEFINE o == IF Final THEN "dlq_publish_failed" ELSE "none"
<1>1. /\ Conclude("retry_delayed", o) /\ o \in Reported \cup {"none"}
      /\ "retry_delayed" \in Dispositions
      /\ LastTry(SettleCtxEnded) /\ tries' = tries + 1 /\ pc = "publishing"
      /\ UNCHANGED <<conf, msg, count, seen, sub, forced, timedOut, decoded, pending,
                     panicked, done, records, slips>>
      /\ err \subseteq err' /\ err' \subseteq err \cup {"dlq_failed", "deadline"}
  BY DEF SettlePublish, Reported, Dispositions, PublishErrors
<1>2. /\ Final \in BOOLEAN /\ Final' = Final /\ tries \in 0 .. 2
      /\ strays' \in Nat
      /\ ~panicked /\ Dispose(err, Final) = "terminal" /\ err # Nil
      /\ records = 0 \/ CameBack
      /\ done # <<>> => decoded
  BY <1>1, FinalType DEF SettlePublish, SInv, Types, TypeOK, Progress, Unsettled, Insistence, Final,
     FinalAt,
     Recorded, DoneOnce
<1>3. /\ tries' \in 0 .. publishAttemptsFinal
      /\ o = "dlq_publish_failed" =>
            tries' = publishAttemptsFinal \/ HandlerCtxEnded \/ SettleCtxEnded
  BY <1>1, <1>2 DEF LastTry, Attempts
<1>4. /\ Types' /\ Placement' /\ Progress' /\ DoneOnce' /\ Recorded' /\ Panicked'
      /\ Insistence' /\ NoSilentLoss' /\ EndedWithTrace'
  BY <1>1, <1>2, <1>3, ConcludeKeeps
<1>5. /\ disp' = "retry_delayed" /\ out' = o /\ pc' = "flushing" /\ ended' = (o # "none")
      /\ o = "none" => reports' = <<>>
      /\ o # "none" => \/ reports' = <<o>>
                       \/ ~decoded /\ reports' = <<"decode_failed">>
  BY <1>1, ConcludeFacts
<1>6. Result'
  BY <1>1, <1>2, <1>5 DEF Result, CameBack
<1>7. Agreement'
  BY <1>1, <1>2, <1>5, TerminalDone DEF Agreement, Agrees, FlowControl
<1> QED
  BY <1>4, <1>6, <1>7 DEF SInv

\* The record is stored and reported.
LEMMA SettlePublishedStep ==
    ASSUME SInv, SettlePublished
    PROVE  SInv'
<1>1. /\ Conclude("terminal", "dead_lettered") /\ "dead_lettered" \in Reported \cup {"none"}
      /\ "terminal" \in Dispositions /\ pc = "published"
      /\ UNCHANGED <<conf, msg, count, seen, sub, forced, timedOut, err, decoded, tries,
                     pending, panicked, done, dlq, slips>>
  BY DEF SettlePublished, Reported, Dispositions
<1>2. /\ records > 0 /\ ~panicked /\ Dispose(err, Final) = "terminal"
      /\ done # <<>> => decoded
      /\ tries \in 0 .. publishAttemptsFinal /\ strays' \in Nat
  BY <1>1 DEF SInv, Types, TypeOK, Progress, Unsettled, Recorded, DoneOnce
<1>3. /\ Types' /\ Placement' /\ Progress' /\ DoneOnce' /\ Recorded' /\ Panicked'
      /\ Insistence' /\ NoSilentLoss' /\ EndedWithTrace'
  BY <1>1, <1>2, ConcludeKeeps
<1>4. /\ disp' = "terminal" /\ out' = "dead_lettered" /\ pc' = "flushing" /\ ended' = TRUE
      /\ \/ reports' = <<"dead_lettered">>
         \/ ~decoded /\ reports' = <<"decode_failed">>
  BY <1>1, ConcludeFacts
<1>5. Result'
  BY <1>1, <1>2, <1>4 DEF Result
<1>6. Agreement'
  BY <1>1, <1>2, <1>4, TerminalDone DEF Agreement, Agrees, FlowControl
<1> QED
  BY <1>3, <1>5, <1>6 DEF SInv

\* A HandlerDone that waited is completed by the settlement.
LEMMA FlushStep ==
    ASSUME SInv, Flush
    PROVE  SInv'
<1> USE DEF SInv, Progress, Unsettled
<1> DEFINE o == HandlerDoneOutcome(disp, out)
<1>1. NoSilentLoss' /\ EndedWithTrace' /\ msg = "inhand"
  BY InHand DEF Flush
<1>2. /\ pc = "flushing" /\ pc' = "acting" /\ pending' = FALSE
      /\ done' = IF pending THEN Append(done, o) ELSE done
      /\ UNCHANGED <<conf, msg, count, seen, sub, forced, timedOut, err, decoded, tries, ended,
                     disp, out, panicked, reports, dlq, slips>>
  BY DEF Flush, FlushAs
<1>3. /\ o \in {"dead_lettered", "dropped", "retry", "interrupted", "failed"}
      /\ o \in Completed
  BY DEF HandlerDoneOutcome, Completed
<1>4. /\ pending => decoded /\ done = <<>> /\ done' = <<o>> /\ done' # <<>> /\ done'[1] = o
      /\ decoded => done' # <<>>
      /\ done' \in Singles(Completed)
  <2>1. pending => decoded /\ done = <<>>
    BY <1>2 DEF DoneOnce
  <2>2. done \in Singles(Completed)
    BY DEF Types
  <2>3. ~pending /\ decoded => done # <<>>
    BY <1>2 DEF DoneOnce
  <2>4. Append(<<>>, o) = <<o>> /\ <<o>> \in Singles(Completed) /\ <<o>> # <<>> /\ <<o>>[1] = o
    BY <1>3, SinglesAppend
  <2> QED
    BY <1>2, <2>1, <2>2, <2>3, <2>4
<1>5. Types'
  BY <1>2, <1>4, SinglesFacts DEF Types, TypeOK, Labels
<1>6. Placement'
  BY <1>1, <1>2 DEF Placement, Redelivers, Final, FinalAt
<1>7. Progress' /\ Result' /\ Panicked'
  BY <1>2 DEF Result, Panicked, CameBack, Final, FinalAt
<1>8. DoneOnce'
  BY <1>2, <1>4 DEF DoneOnce
<1>9. Recorded'
  BY <1>1, <1>2 DEF Recorded, SettledStaysSettled, CameBack
<1>10. Agreement'
  <2>1. CASE ~pending
    BY <1>2, <2>1 DEF Agreement, Agrees, CameBack, Final, FinalAt
  <2>2. CASE pending
    <3>1. disp # "ack" /\ disp \in Dispositions /\ decoded
      BY <1>2, <1>4, <2>2 DEF Result, DoneOnce, Recorded
    <3>2. Agrees(o)
      BY <1>2, <3>1 DEF HandlerDoneOutcome, Agrees, Result, Dispositions, FlowControl
    <3> QED
      BY <1>2, <1>4, <2>2, <3>2 DEF Agreement, Agrees, CameBack, Final, FinalAt
  <2> QED
    BY <2>1, <2>2
<1>11. Insistence'
  BY <1>2 DEF Insistence, FinalPublishInsists, HandlerCtxEnded, SettleCtxEnded
<1> QED
  BY <1>1, <1>5, <1>6, <1>7, <1>8, <1>9, <1>10, <1>11

\* A panic inside Settle: HandlerDone is completed as failed, and the recover of
\* the callback knows whether the message was settled.
LEMMA SettlePanicsStep ==
    ASSUME SInv, SettlePanics
    PROVE  SInv'
<1> USE DEF SInv, Progress, Unsettled
<1>1. NoSilentLoss' /\ EndedWithTrace' /\ msg = "inhand"
  BY InHand DEF SettlePanics
<1>2. /\ pc \in {"publishing", "published", "flushing"} /\ pc' = "recovering"
      /\ pc = "flushing" => reports # <<>>
      /\ pending' = FALSE /\ disp' = "none" /\ out' = "none" /\ panicked' = TRUE
      /\ done' = IF pending THEN Append(done, "failed") ELSE done
      /\ UNCHANGED <<conf, msg, count, seen, sub, forced, timedOut, err, decoded, tries, ended,
                     reports, records, slips>>
      /\ strays' \in Nat
  BY DEF SettlePanics, FlushAs, HandlerDoneOutcome, Types, TypeOK
<1>3. /\ pending => done' = <<"failed">> /\ done' # <<>> /\ done'[1] = "failed"
      /\ decoded => done' # <<>>
      /\ ~decoded => done' = <<>>
      /\ done' \in Singles(Completed)
  <2>1. /\ pending => decoded /\ done = <<>>
        /\ decoded /\ ~pending => done # <<>>
        /\ ~decoded => done = <<>> /\ ~pending
    BY <1>2 DEF DoneOnce
  <2>2. done \in Singles(Completed)
    BY DEF Types
  <2>3. /\ Append(<<>>, "failed") = <<"failed">> /\ <<"failed">> \in Singles(Completed)
        /\ <<"failed">> # <<>> /\ <<"failed">>[1] = "failed"
    BY SinglesAppend DEF Completed
  <2> QED
    BY <1>2, <2>1, <2>2, <2>3
<1>4. Types'
  BY <1>2, <1>3, SinglesFacts DEF Types, TypeOK, Labels
<1>5. Placement'
  BY <1>1, <1>2 DEF Placement, Redelivers, Final, FinalAt
<1>6. Progress' /\ Result'
  BY <1>2 DEF Result
<1>7. Panicked'
  BY <1>2 DEF Panicked, Result, Recorded, CameBack, Final, FinalAt, Dispositions
<1>8. DoneOnce'
  BY <1>2, <1>3 DEF DoneOnce, Ran
<1>9. Recorded'
  BY <1>1, <1>2 DEF Recorded, SettledStaysSettled, CameBack
<1>10. Agreement'
  <2>1. CASE pending
    BY <1>2, <1>3, <2>1 DEF Agreement, Agrees, FlowControl
  <2>2. CASE ~pending /\ pc = "flushing"
    BY <1>2, <2>2 DEF Agreement, Agrees, CameBack, Final, FinalAt
  <2>3. CASE ~pending /\ pc \in {"publishing", "published"}
    BY <1>2, <2>3, TerminalDone DEF Agreement, Agrees, FlowControl
  <2> QED
    BY <1>2, <2>1, <2>2, <2>3
<1>11. Insistence'
  BY <1>2 DEF Insistence, FinalPublishInsists
<1> QED
  BY <1>1, <1>4, <1>5, <1>6, <1>7, <1>8, <1>9, <1>10, <1>11

\* A transport that does not redeliver knows its one delivery to be the last, and
\* a delivery known to be the last is followed by no other.
LEMMA LastDelivery ==
    ASSUME SInv, count >= 1
    PROVE  /\ ~Redelivers => Final
           /\ Final => FinalAt(count)
           /\ After(count) \in {"queued", "spent"}
           /\ After(count) = "queued" <=> Redelivers /\ ~FinalAt(count)
<1>1. conf.max \in Nat /\ count \in Nat /\ seen \in Nat /\ seen <= count
  <2>1. conf.max \in MaxDelivers \cup {1}
    BY DEF SInv, Types, TypeOK, Configs
  <2>2. \A m \in MaxDelivers \cup {1} : m \in Nat
    BY BoundsAssumption
  <2>3. count \in Nat /\ seen \in 0 .. count
    BY DEF SInv, Types, TypeOK
  <2> QED
    BY <2>1, <2>2, <2>3
<1>2. ~Redelivers => conf.max = 1 /\ seen = count
  BY DEF SInv, Types, TypeOK, Placement, Configs, Redelivers
<1> QED
  BY <1>1, <1>2 DEF Final, FinalAt, After

\* The broker action, lost or not.
LEMMA BrokerFacts ==
    ASSUME SInv, count >= 1, NEW d, Broker(d)
    PROVE  /\ msg' \in {"queued"} \cup Gone /\ slips \subseteq slips'
           /\ slips' \subseteq slips \cup {"broker"}
           /\ msg' = "acked" => d = "ack"
           /\ msg' = "termed" => d = "terminal"
           /\ msg' = "queued" => /\ ~FinalAt(count) /\ ~Final
                                 /\ d \notin {"ack", "terminal"} \/ "broker" \in slips'
           /\ msg' = "spent" => FinalAt(count)
<1>1. \/ msg' = "acked" /\ d = "ack" /\ UNCHANGED slips
      \/ msg' = "termed" /\ d = "terminal" /\ UNCHANGED slips
      \/ msg' = After(count) /\ d \notin {"ack", "terminal"} /\ UNCHANGED slips
      \/ msg' = After(count) /\ slips' = slips \cup {"broker"}
  BY DEF Broker
<1> QED
  BY <1>1, LastDelivery DEF Gone

\* The broker action of a settlement, or none.
LEMMA ActStep ==
    ASSUME SInv, Act
    PROVE  SInv'
<1> USE DEF SInv, Progress, Unsettled
<1>1. /\ pc = "acting" /\ pc' = "idle" /\ ~panicked /\ disp \in Dispositions
      /\ UNCHANGED <<conf, count, seen, sub, forced, timedOut, err, decoded, tries, pending,
                     ended, disp, out, panicked, done, reports, dlq>>
  BY DEF Act
<1>2. count >= 1 /\ msg = "inhand"
  BY <1>1 DEF Placement
<1>3. /\ msg' \in {"queued"} \cup Gone /\ slips \subseteq slips'
      /\ slips' \subseteq slips \cup {"broker"}
      /\ msg' = "acked" => disp = "ack"
      /\ msg' = "termed" => disp = "terminal"
      /\ msg' = "queued" => ~Final /\ (disp \in {"retry", "retry_delayed"} \/ "broker" \in slips')
      /\ msg' = "spent" => FinalAt(count)
  <2>1. CASE Redelivers
    BY <1>1, <1>2, <2>1, BrokerFacts DEF Act, Dispositions
  <2>2. CASE ~Redelivers
    BY <1>2, <2>2, LastDelivery DEF Act, Gone
  <2> QED
    BY <2>1, <2>2
<1>4. Final' = Final /\ FinalAt(count)' = FinalAt(count)
  BY <1>1 DEF Final, FinalAt
<1>5. Types'
  BY <1>1, <1>3 DEF Types, TypeOK, Labels
<1>6. Placement'
  BY <1>1, <1>2, <1>3, <1>4 DEF Placement, Redelivers, Gone
<1>7. Progress' /\ Result' /\ Panicked'
  BY <1>1 DEF Result, Panicked
<1>8. DoneOnce'
  BY <1>1 DEF DoneOnce, Ran
<1>9. Recorded'
  BY <1>1, <1>3 DEF Recorded, Result, SettledStaysSettled, CameBack
<1>10. Agreement'
  BY <1>1, <1>3, <1>4 DEF Agreement, Agrees, CameBack
<1>11. Insistence'
  BY <1>1 DEF Insistence, FinalPublishInsists, HandlerCtxEnded, SettleCtxEnded
<1>12. NoSilentLoss'
  <2>1. FinalAt(count) /\ ~Final => "metadata" \in slips
    BY DEF Placement
  <2> QED
    BY <1>1, <1>3, <2>1 DEF NoSilentLoss, Handled, Result, Dispositions, Gone
<1>13. EndedWithTrace'
  BY <1>1, <1>3 DEF EndedWithTrace, Handled, Result, Recorded
<1> QED
  BY <1>5, <1>6, <1>7, <1>8, <1>9, <1>10, <1>11, <1>12, <1>13

\* The recover of a callback that panicked.
LEMMA RecoverStep ==
    ASSUME SInv, Recover
    PROVE  SInv'
<1> USE DEF SInv, Progress, Unsettled
<1>1. /\ pc = "recovering" /\ pc' = "idle" /\ panicked /\ disp = "none"
      /\ UNCHANGED <<conf, count, seen, sub, forced, timedOut, err, decoded, tries, pending,
                     ended, disp, out, panicked, done, dlq>>
  BY DEF Recover
<1>2. count >= 1 /\ msg = "inhand"
  BY <1>1 DEF Placement
<1>3. /\ reports' = IF Redelivers /\ Final /\ ~ended THEN <<"dropped">> ELSE reports
      /\ reports' \in Singles(Reported) /\ <<"dropped">> # <<>>
  <2>1. ~ended => reports = <<>>
    BY <1>1 DEF Panicked
  <2>2. /\ Append(<<>>, "dropped") = <<"dropped">> /\ <<"dropped">> \in Singles(Reported)
        /\ <<"dropped">> # <<>>
    BY SinglesAppend DEF Reported
  <2> QED
    BY <2>1, <2>2 DEF Recover, Types
<1>4. /\ msg' \in {"queued"} \cup Gone /\ slips \subseteq slips'
      /\ slips' \subseteq slips \cup {"broker"}
      /\ msg' # "acked"
      /\ msg' = "termed" => Redelivers /\ ((Final /\ ~ended) \/ (ended /\ ~Final))
      /\ msg' = "queued" => ~Final /\ (~ended \/ "broker" \in slips')
      /\ msg' = "spent" => FinalAt(count)
  <2>1. CASE Redelivers
    BY <1>1, <1>2, <2>1, BrokerFacts DEF Recover, RecoverDisposition
  <2>2. CASE ~Redelivers
    BY <1>2, <2>2, LastDelivery DEF Recover, Gone
  <2> QED
    BY <2>1, <2>2
<1>5. Final' = Final /\ FinalAt(count)' = FinalAt(count) /\ Redelivers' = Redelivers
  BY <1>1 DEF Final, FinalAt, Redelivers
<1>6. Types'
  BY <1>1, <1>3, <1>4, SinglesFacts DEF Types, TypeOK, Labels
<1>7. Placement'
  BY <1>1, <1>2, <1>4, <1>5 DEF Placement, Gone
<1>8. Progress' /\ Result' /\ Panicked'
  BY <1>1 DEF Result, Panicked
<1>9. DoneOnce'
  BY <1>1 DEF DoneOnce, Ran
<1>10. Recorded'
  BY <1>1, <1>3, <1>4 DEF Recorded, Panicked, SettledStaysSettled, CameBack
<1>11. Agreement'
  BY <1>1, <1>3, <1>4, <1>5 DEF Agreement, Agrees, CameBack, Panicked
<1>12. Insistence'
  BY <1>1 DEF Insistence, FinalPublishInsists, HandlerCtxEnded, SettleCtxEnded
<1>13. NoSilentLoss'
  <2>1. FinalAt(count) /\ ~Final => "metadata" \in slips
    BY DEF Placement
  <2> QED
    BY <1>1, <1>3, <1>4, <1>5, <2>1 DEF NoSilentLoss, Panicked, Gone
<1>14. EndedWithTrace'
  BY <1>1, <1>3, <1>4, <1>5 DEF EndedWithTrace, Panicked
<1> QED
  BY <1>6, <1>7, <1>8, <1>9, <1>10, <1>11, <1>12, <1>13, <1>14

\* The count of a delivery that begins, and what is known of it.
LEMMA CountedFacts ==
    ASSUME SInv, NEW readable \in BOOLEAN, Counted(count + 1, readable), UNCHANGED conf
    PROVE  /\ count' \in Nat /\ seen' \in 0 .. count' /\ count' >= 1
           /\ ~Redelivers => seen' = count'
           /\ slips \subseteq slips' /\ slips' \subseteq slips \cup {"metadata"}
           /\ FinalAt(count') /\ ~FinalAt(seen') => "metadata" \in slips'
           /\ FinalAt(seen') => FinalAt(count')
<1>1. count \in Nat
  BY DEF SInv, Types, TypeOK
<1>2. conf.max \in Nat
  <2>1. conf.max \in MaxDelivers \cup {1}
    BY DEF SInv, Types, TypeOK, Configs
  <2>2. \A m \in MaxDelivers \cup {1} : m \in Nat
    BY BoundsAssumption
  <2> QED
    BY <2>1, <2>2
<1>3. /\ count' = count + 1 /\ seen' = (IF readable THEN count + 1 ELSE 1)
      /\ readable \/ Redelivers
  BY DEF Counted
<1>4. slips' = IF FinalAt(count') /\ ~FinalAt(seen') THEN slips \cup {"metadata"} ELSE slips
  BY <1>3 DEF Counted
<1>5. FinalAt(seen') => FinalAt(count')
  BY <1>1, <1>2, <1>3 DEF FinalAt
<1> QED
  BY <1>1, <1>3, <1>4, <1>5

\* A delivery begins: nothing of the one before is left but the record.
LEMMA DeliverStep ==
    ASSUME SInv, NEW s \in {"live", "cancelled"}, NEW readable \in BOOLEAN, Deliver(s, readable)
    PROVE  SInv'
<1> USE DEF SInv
<1>1. /\ msg = "queued" /\ msg' = "inhand" /\ sub' = s /\ forced' = FALSE
      /\ pc' \in {"handling", "decoding"} /\ reports' = <<>>
      /\ timedOut' = FALSE /\ err' = Nil /\ decoded' = TRUE /\ tries' = 0
      /\ pending' = FALSE /\ ended' = FALSE /\ disp' = "none" /\ out' = "none"
      /\ panicked' = FALSE /\ done' = <<>>
      /\ UNCHANGED <<conf, dlq>>
  BY DEF Deliver, Fresh
<1>2. /\ count' \in Nat /\ seen' \in 0 .. count' /\ count' >= 1
      /\ ~Redelivers => seen' = count'
      /\ slips \subseteq slips' /\ slips' \subseteq slips \cup {"metadata"}
      /\ FinalAt(count') /\ ~FinalAt(seen') => "metadata" \in slips'
  BY CountedFacts DEF Deliver
<1>3. Types'
  <2>1. /\ <<>> \in Singles(Reported) /\ <<>> \in Seq(Reported)
        /\ <<>> \in Singles(Completed) /\ <<>> \in Seq(Completed)
    BY DEF Singles
  <2>2. slips' \in SUBSET {"broker", "interrupted", "metadata"} /\ err' \in SUBSET Sentinels
    BY <1>1, <1>2 DEF Types, TypeOK
  <2>3. /\ forced' \in BOOLEAN /\ timedOut' \in BOOLEAN /\ decoded' \in BOOLEAN
        /\ pending' \in BOOLEAN /\ ended' \in BOOLEAN /\ panicked' \in BOOLEAN
    BY <1>1, Zenon
  <2>4. tries' \in 0 .. publishAttemptsFinal
    BY <1>1
  <2> QED
    BY <1>1, <1>2, <2>1, <2>2, <2>3, <2>4 DEF Types, TypeOK, Labels
<1>4. Placement'
  BY <1>1, <1>2 DEF Placement, Redelivers, Final, FinalAt
<1>5. Progress' /\ Result' /\ Panicked' /\ Agreement'
  BY <1>1 DEF Progress, Unsettled, Result, Panicked, Agreement
<1>6. DoneOnce'
  BY <1>1 DEF DoneOnce
<1>7. Recorded'
  BY <1>1, <1>2 DEF Recorded, SettledStaysSettled, CameBack, Types, TypeOK
<1>8. Insistence' /\ NoSilentLoss' /\ EndedWithTrace'
  BY <1>1 DEF Insistence, FinalPublishInsists, NoSilentLoss, EndedWithTrace, Gone
<1> QED
  BY <1>3, <1>4, <1>5, <1>6, <1>7, <1>8

\* A message handed back, or rejected, without a callback.
LEMMA TurnedAwayStep ==
    ASSUME SInv, (\E readable \in BOOLEAN : HandBack(readable)) \/ RejectInbound
    PROVE  SInv'
<1> USE DEF SInv
<1>1. /\ pc = "idle" /\ msg = "queued"
      /\ timedOut' = FALSE /\ err' = Nil /\ decoded' = TRUE /\ tries' = 0
      /\ pending' = FALSE /\ ended' = FALSE /\ disp' = "none" /\ out' = "none"
      /\ panicked' = FALSE /\ done' = <<>>
      /\ UNCHANGED <<conf, pc, sub, forced, dlq>>
  BY DEF HandBack, RejectInbound, Fresh, Placement
<1>2. /\ count' \in Nat /\ seen' \in 0 .. count' /\ count' >= 1
      /\ ~Redelivers => seen' = count'
      /\ slips \subseteq slips' /\ slips' \subseteq slips \cup {"metadata"}
      /\ FinalAt(count') /\ ~FinalAt(seen') => "metadata" \in slips'
      /\ FinalAt(seen') => FinalAt(count')
  BY CountedFacts DEF HandBack, RejectInbound
<1>3. /\ msg' \in {"queued", "spent"} /\ reports' \in {<<>>, <<"interrupted">>}
      /\ <<"interrupted">> # <<>>
      /\ msg' = "queued" => ~FinalAt(seen') /\ reports' = <<>>
      /\ msg' = "spent" => reports' # <<>> \/ "metadata" \in slips'
  <2>1. CASE RejectInbound
    BY <2>1 DEF RejectInbound
  <2>2. ASSUME NEW readable \in BOOLEAN, HandBack(readable)
        PROVE  /\ msg' \in {"queued", "spent"} /\ reports' \in {<<>>, <<"interrupted">>}
               /\ msg' = "queued" => ~FinalAt(seen') /\ reports' = <<>>
               /\ msg' = "spent" => reports' # <<>> \/ "metadata" \in slips'
    <3>1. count' = count + 1 /\ Redelivers
      BY <2>2 DEF HandBack, Counted
    <3>2. /\ msg' = IF FinalAt(count') THEN "spent" ELSE "queued"
          /\ reports' = IF FinalAt(seen') THEN <<"interrupted">> ELSE <<>>
      BY <2>2, <3>1 DEF HandBack, After
    <3> QED
      BY <1>2, <3>2
  <2> QED
    BY <2>1, <2>2
<1>4. Types'
  <2>1. /\ <<"interrupted">> \in Singles(Reported) /\ <<>> \in Singles(Reported)
        /\ <<"interrupted">> \in Seq(Reported) /\ <<>> \in Seq(Reported)
        /\ <<>> \in Singles(Completed) /\ <<>> \in Seq(Completed)
    BY DEF Singles, Reported
  <2>2. slips' \in SUBSET {"broker", "interrupted", "metadata"} /\ err' \in SUBSET Sentinels
    BY <1>1, <1>2 DEF Types, TypeOK
  <2>3. /\ forced' \in BOOLEAN /\ timedOut' \in BOOLEAN /\ decoded' \in BOOLEAN
        /\ pending' \in BOOLEAN /\ ended' \in BOOLEAN /\ panicked' \in BOOLEAN
    BY <1>1, Zenon DEF Types, TypeOK
  <2>4. tries' \in 0 .. publishAttemptsFinal
    BY <1>1
  <2> QED
    BY <1>1, <1>2, <1>3, <2>1, <2>2, <2>3, <2>4 DEF Types, TypeOK, Labels, Gone
<1>5. Placement'
  BY <1>1, <1>2, <1>3 DEF Placement, Redelivers, Final, FinalAt
<1>6. Progress' /\ Result' /\ Panicked' /\ Agreement'
  BY <1>1 DEF Progress, Unsettled, Result, Panicked, Agreement
<1>7. DoneOnce'
  BY <1>1 DEF DoneOnce, Ran
<1>8. Recorded'
  BY <1>1, <1>2, <1>3 DEF Recorded, SettledStaysSettled, CameBack
<1>9. Insistence' /\ NoSilentLoss' /\ EndedWithTrace'
  BY <1>1, <1>3 DEF Insistence, FinalPublishInsists, NoSilentLoss, EndedWithTrace, Gone
<1> QED
  BY <1>4, <1>5, <1>6, <1>7, <1>8, <1>9

\* The message arrives, to the one bus, on its first delivery.
LEMMA InitSInv == Init => SInv
<1> SUFFICES ASSUME Init PROVE SInv
  OBVIOUS
<1> USE DEF Init
<1>1. Types
  <2>1. /\ <<>> \in Singles(Reported) /\ <<>> \in Seq(Reported)
        /\ <<>> \in Singles(Completed) /\ <<>> \in Seq(Completed)
    BY DEF Singles
  <2>2. tries \in 0 .. publishAttemptsFinal /\ count \in Nat /\ seen \in 0 .. count
    OBVIOUS
  <2>3. /\ forced \in BOOLEAN /\ timedOut \in BOOLEAN /\ decoded \in BOOLEAN
        /\ pending \in BOOLEAN /\ ended \in BOOLEAN /\ panicked \in BOOLEAN
    BY Zenon
  <2> QED
    BY <2>1, <2>2, <2>3 DEF Types, TypeOK, Labels
<1>2. Placement
  BY DEF Placement, Final, FinalAt
<1>3. Progress /\ Result /\ Panicked /\ Agreement
  BY DEF Progress, Unsettled, Result, Panicked, Agreement
<1>4. DoneOnce
  BY DEF DoneOnce, Ran
<1>5. Recorded
  BY DEF Recorded, SettledStaysSettled
<1>6. Insistence /\ NoSilentLoss /\ EndedWithTrace
  BY DEF Insistence, FinalPublishInsists, NoSilentLoss, EndedWithTrace, Gone
<1> QED
  BY <1>1, <1>2, <1>3, <1>4, <1>5, <1>6 DEF SInv

\* A step that changes nothing keeps everything.
LEMMA StutterSInv == SInv /\ UNCHANGED vars => SInv'
BY DEF vars, SInv, Types, TypeOK, Placement, Redelivers, Final, FinalAt, Progress,
   Unsettled,
       DoneOnce, Ran, Recorded, SettledStaysSettled, CameBack, Result, Panicked,
       Agreement, DoneMeans, Agrees, Insistence, FinalPublishInsists, HandlerCtxEnded,
       SettleCtxEnded, NoSilentLoss, Handled, EndedWithTrace

\* Every step keeps the invariant.
LEMMA NextSInv == SInv /\ [Next]_vars => SInv'
<1> SUFFICES ASSUME SInv, [Next]_vars PROVE SInv'
  OBVIOUS
<1>1. CASE \E s \in {"live", "cancelled"}, readable \in BOOLEAN : Deliver(s, readable)
  BY <1>1, DeliverStep
<1>2. CASE (\E readable \in BOOLEAN : HandBack(readable)) \/ RejectInbound
  BY <1>2, TurnedAwayStep
<1>3. CASE DecodeOK \/ (\E e \in DecodeErrors : DecodeFails(e)) \/ DecodePanics
  BY <1>3, DecodeOKStep, DecodeFailsStep, DecodePanicsStep
<1>4. CASE (\E e \in HandlerErrors : Handle(e)) \/ Chain \/ ChainPublish \/ InvokeDone \/ Wrap
  BY <1>4, HandleStep, ChainStep, ChainPublishStep, InvokeDoneStep, WrapNilStep,
     WrapErrorStep
<1>5. CASE Settle \/ SettlePublish \/ SettlePublished \/ Flush \/ SettlePanics
  BY <1>5, SettleStep, SettlePublishOnStep, SettlePublishFailsStep, SettlePublishedStep,
     FlushStep, SettlePanicsStep
<1>6. CASE Act \/ Recover
  BY <1>6, ActStep, RecoverStep
<1>7. CASE Interrupt \/ Cancel \/ Timeout
  BY <1>7, InterruptStep, CancelStep, TimeoutStep
<1>8. CASE UNCHANGED vars
  BY <1>8, StutterSInv
<1> QED
  BY <1>1, <1>2, <1>3, <1>4, <1>5, <1>6, <1>7, <1>8 DEF Next

\* Only an attempt to publish adds to the dead-letter queue.
LEMMA StoredSteps ==
    ASSUME Next, pc \notin {"chainPublish", "publishing"}
    PROVE  UNCHANGED dlq
BY DEF Next, Deliver, HandBack, RejectInbound, DecodeOK, DecodeFails, DecodePanics, Handle,
       Chain, ChainPublish, InvokeDone, Wrap, Settle, SettlePublish, SettlePublished,
       Flush, SettlePanics, Act, Recover, Interrupt, Cancel, Timeout

\* How many copies the delivery in hand may have added so far: those of the
\* attempts of the chain, then those of Settle.
Added ==
    CASE pc \in {"decoding", "handling", "chain"} -> 0
      [] pc = "chainPublish" -> tries
      [] pc \in {"returning", "wrapping", "settling"} -> Attempts
      [] pc = "publishing" -> Attempts + tries
      [] OTHER -> 2 * Attempts

\* A message that waits for a delivery has none but those of non-final deliveries.
Copies ==
    Stored <= IF msg = "queued" THEN 2 * count ELSE 2 * (count - 1) + Added

\* The numbers that count the copies.
LEMMA CopyTypes ==
    ASSUME SInv
    PROVE  /\ records \in Nat /\ strays \in Nat /\ count \in Nat /\ tries \in 0 .. 3
           /\ Attempts \in {1, 3} /\ (~Final => Attempts = 1)
           /\ pc \in {"chainPublish", "publishing"} => tries + 1 <= Attempts
           /\ pc = "idle" <=> msg # "inhand"
           /\ pc \in Labels
BY FinalType DEF SInv, Types, TypeOK, Attempts, Insistence, Placement

\* The same of the next state.
LEMMA CopyTypesNext ==
    ASSUME SInv'
    PROVE  /\ records' \in Nat /\ strays' \in Nat /\ count' \in Nat /\ tries' \in 0 .. 3
           /\ Attempts' \in {1, 3} /\ (~Final' => Attempts' = 1)
           /\ pc' \in {"chainPublish", "publishing"} => tries' + 1 <= Attempts'
           /\ pc' = "idle" <=> msg' # "inhand"
           /\ pc' \in Labels
<1>1. Final' \in BOOLEAN
  BY Zenon DEF Final, FinalAt
<1>2. /\ records' \in Nat /\ strays' \in Nat /\ count' \in Nat /\ tries' \in 0 .. 3
      /\ pc' \in Labels
  BY DEF SInv, Types, TypeOK
<1>3. pc' = "idle" <=> msg' # "inhand"
  BY DEF SInv, Placement
<1>4. Attempts' = IF Final' THEN 3 ELSE 1
  BY DEF Attempts
<1>5. pc' \in {"chainPublish", "publishing"} => tries' < 3 /\ (~Final' => tries' = 0)
  BY DEF SInv, Insistence
<1>6. Attempts' \in {1, 3} /\ (~Final' => Attempts' = 1)
  BY <1>1, <1>4
<1>7. pc' \in {"chainPublish", "publishing"} => tries' + 1 <= Attempts'
  <2> SUFFICES ASSUME pc' \in {"chainPublish", "publishing"} PROVE tries' + 1 <= Attempts'
    OBVIOUS
  <2>1. tries' \in Nat /\ tries' < 3 /\ (Attempts' = 3 \/ (Attempts' = 1 /\ tries' = 0))
    BY <1>1, <1>2, <1>4, <1>5
  <2> QED
    BY <2>1
<1> QED
  BY <1>2, <1>3, <1>6, <1>7

\* A delivery begins, or is turned away: it has added nothing yet.
LEMMA CopiesBegin ==
    ASSUME SInv, SInv', Copies, count' = count + 1, msg = "queued", UNCHANGED dlq,
           \/ msg' = "inhand" /\ pc' \in {"decoding", "handling"}
           \/ msg' # "inhand"
    PROVE  Copies'
<1>1. Stored' <= 2 * count /\ count' = count + 1
  BY DEF Copies, Stored
<1>2. Added' \in Nat
  BY CopyTypesNext DEF Added
<1> QED
  BY <1>1, <1>2, CopyTypes, CopyTypesNext DEF Copies, Stored

\* A step of the callback between its attempts to publish.
LEMMA CopiesMove ==
    ASSUME SInv, SInv', Copies, UNCHANGED <<dlq, msg, count>>, msg = "inhand",
           Added <= Added'
    PROVE  Copies'
BY CopyTypes, CopyTypesNext DEF Copies, Stored, Added

\* The callback ends; the message waits again only after a delivery that was not
\* the last.
LEMMA CopiesEnd ==
    ASSUME SInv, SInv', Copies, UNCHANGED <<dlq, conf, count, seen>>, msg = "inhand",
           pc \in {"acting", "recovering"}, pc' = "idle", msg' = "queued" => ~Final
    PROVE  Copies'
<1>1. Attempts' = Attempts
  BY DEF Attempts, Final, FinalAt
<1> QED
  BY <1>1, CopyTypes, CopyTypesNext DEF Copies, Stored, Added

\* Every step keeps the bound.
LEMMA NextCopies == SInv /\ Copies /\ [Next]_vars => Copies'
<1> SUFFICES ASSUME SInv, Copies, [Next]_vars PROVE Copies'
  OBVIOUS
<1>0. SInv'
  BY NextSInv
<1>1. CASE \E s \in {"live", "cancelled"}, readable \in BOOLEAN : Deliver(s, readable)
  BY <1>0, <1>1, CopiesBegin DEF Deliver, Counted
<1>2. CASE (\E readable \in BOOLEAN : HandBack(readable)) \/ RejectInbound
  BY <1>0, <1>2, CopiesBegin DEF HandBack, RejectInbound, Counted, After
<1>3. CASE \/ DecodeOK \/ (\E e \in DecodeErrors : DecodeFails(e)) \/ DecodePanics
           \/ (\E e \in HandlerErrors : Handle(e)) \/ Chain \/ InvokeDone \/ Wrap
           \/ Settle \/ SettlePublished \/ Flush
           \/ Interrupt \/ Cancel \/ Timeout
  <2>1. /\ UNCHANGED <<dlq, msg, count, conf, seen>> /\ msg = "inhand"
        /\ \/ pc' = pc /\ tries' = tries
           \/ pc = "decoding"
           \/ pc = "handling"
           \/ pc = "chain" /\ (pc' = "chainPublish" => tries' = 0)
           \/ pc = "returning" /\ pc' = "wrapping"
           \/ pc = "wrapping" /\ pc' \in {"settling", "acting"}
           \/ pc = "settling" /\ pc' \in {"publishing", "flushing"}
                 /\ (pc' = "publishing" => tries' = 0)
           \/ pc = "published" /\ pc' = "flushing"
           \/ pc = "flushing" /\ pc' = "acting"
    BY <1>3, InHand, CopyTypes, CopyTypesNext DEF DecodeOK, DecodeFails, DecodePanics, Handle, Chain, InvokeDone, Wrap,
       Settle, SettleInterrupted, SettleAck, SettleRetry, SettleTerminal, Conclude,
       SettlePublished, Flush, Interrupt, Cancel, Timeout
  <2>2. Attempts' = Attempts
    BY <2>1 DEF Attempts, Final, FinalAt
  <2>3. Added <= Added'
    BY <1>0, <2>1, <2>2, CopyTypes, CopyTypesNext DEF Added, Labels
  <2> QED
    BY <1>0, <2>1, <2>3, CopiesMove
<1>4. CASE ChainPublish
  <2>1. /\ Stored' <= Stored + 1 /\ pc = "chainPublish" /\ tries' = tries + 1
        /\ pc' \in {"chainPublish", "returning"} /\ UNCHANGED <<msg, conf, seen, count>>
    BY <1>4, CopyTypes, CopyTypesNext DEF ChainPublish, Stored
  <2>2. Attempts' = Attempts
    BY <2>1 DEF Attempts, Final, FinalAt
  <2> QED
    BY <1>0, <2>1, <2>2, CopyTypes, CopyTypesNext DEF Copies, Added, Stored
<1>5. CASE SettlePublish \/ SettlePanics
  <2>1. /\ UNCHANGED <<msg, conf, seen, count>>
        /\ \/ /\ pc = "publishing" /\ Stored' <= Stored + 1
              /\ \/ pc' = "publishing" /\ tries' = tries + 1
                 \/ pc' \in {"published", "flushing", "recovering"}
           \/ pc \in {"published", "flushing"} /\ Stored' = Stored /\ pc' = "recovering"
    BY <1>5, CopyTypes, CopyTypesNext DEF SettlePublish, SettlePanics, Conclude, Stored
  <2>2. Attempts' = Attempts
    BY <2>1 DEF Attempts, Final, FinalAt
  <2> QED
    BY <1>0, <2>1, <2>2, CopyTypes, CopyTypesNext DEF Copies, Added, Stored
<1>6. CASE Act \/ Recover
  <2>1. /\ UNCHANGED <<dlq, conf, count, seen>> /\ pc' = "idle"
        /\ pc \in {"acting", "recovering"} /\ msg = "inhand"
    BY <1>6, CopyTypes, CopyTypesNext DEF Act, Recover
  <2>2. count >= 1
    BY <2>1 DEF SInv, Placement
  <2>3. msg' = "queued" => ~Final
    BY <1>6, <2>2, BrokerFacts, LastDelivery DEF Act, Recover
  <2> QED
    BY <1>0, <2>1, <2>3, CopiesEnd
<1>7. CASE UNCHANGED vars
  BY <1>7 DEF vars, Copies, Stored, Added, Attempts, Final, FinalAt
<1> QED
  BY <1>1, <1>2, <1>3, <1>4, <1>5, <1>6, <1>7 DEF Next

-----------------------------------------------------------------------------
(* The theorems *)

\* The types, and the facts about a delivery that everything below rests on.
THEOREM SettlementInvariant == Spec => []SInv
BY InitSInv, NextSInv, PTL DEF Spec

\* Whatever a handler chain returns, whatever panics, whichever context ends when,
\* and whether or not the dead-letter publish and the broker action work: a message
\* that no delivery follows was handled or left a report, a stored record or the
\* signal of a panic or of unreadable metadata (settle.go, jetstream/bus.go).
THEOREM NothingLostSilently == Spec => []NoSilentLoss
<1>1. SInv => NoSilentLoss
  BY DEF SInv
<1> QED
  BY <1>1, SettlementInvariant, PTL

\* A bus tells the broker that a message has ended only with a trace of it.
THEOREM EndsLeaveTraces == Spec => []EndedWithTrace
<1>1. SInv => EndedWithTrace
  BY DEF SInv
<1> QED
  BY <1>1, SettlementInvariant, PTL

\* What was stored or reported is not delivered again, but for a lost broker
\* action or a dead-lettered message read as interrupted.
THEOREM SettledIsFinal == Spec => []SettledStaysSettled
<1>1. SInv => SettledStaysSettled
  BY DEF SInv, Recorded
<1> QED
  BY <1>1, SettlementInvariant, PTL

\* Nothing is stored after a confirmed record, by the chain, the backstop or a
\* redelivery, but for a message that came back; whatever publishes failed with
\* or without having stored it (jetstream/dlq.go:35-37, failure.go:31-33).
THEOREM ConfirmedStaysLast == Spec => ConfirmedIsLast
<1>1. SInv /\ [Next]_vars => [records > 0 /\ Stored' > Stored => CameBack]_vars
  <2> SUFFICES ASSUME SInv, Next, records > 0, Stored' > Stored PROVE CameBack
    OBVIOUS
  <2>1. pc \in {"chainPublish", "publishing"}
    BY StoredSteps DEF Stored, SInv, Types, TypeOK
  <2> QED
    BY <2>1 DEF SInv, Recorded, Types, TypeOK
<1> QED
  BY <1>1, SettlementInvariant, PTL DEF Spec, ConfirmedIsLast

\* The copies of a message in the dead-letter queue are bounded by its deliveries,
\* whatever acknowledgements of publishes and broker actions are lost.
THEOREM CopiesStayBounded == Spec => []CopiesBounded
<1>1. Init => Copies
  BY DEF Init, Copies, Stored
<1>2. SInv /\ Copies => CopiesBounded
  <2> SUFFICES ASSUME SInv, Copies PROVE CopiesBounded
    OBVIOUS
  <2>1. Added \in Nat /\ Added <= 2 * Attempts /\ Stored \in Nat
    BY CopyTypes DEF Added, Stored
  <2> QED
    BY <2>1, CopyTypes DEF Copies, CopiesBounded
<1>3. Spec => [](SInv /\ Copies)
  BY <1>1, InitSInv, NextSInv, NextCopies, PTL DEF Spec
<1> QED
  BY <1>2, <1>3, PTL

\* A delivery signals Failure at most once, and HandlerDone once when the handler
\* ran, deferred or not.
THEOREM SignalledOnce == Spec => []SignalsOnce
<1>1. SInv => SignalsOnce
  <2> SUFFICES ASSUME SInv PROVE SignalsOnce
    OBVIOUS
  <2>1. Len(reports) <= 1 /\ Len(done) <= 1 /\ (done # <<>> => Len(done) = 1)
    BY SinglesFacts DEF SInv, Types
  <2>2. pc = "idle" => ~pending /\ (Ran => done # <<>>)
    BY DEF SInv, DoneOnce
  <2> QED
    BY <2>1, <2>2 DEF SignalsOnce
<1> QED
  BY <1>1, SettlementInvariant, PTL

\* HandlerDone agrees with the Failure signal and with the disposition, also when
\* a context ends between the two.
THEOREM SignalsAlwaysAgree == Spec => []SignalsAgree
<1>1. SInv => SignalsAgree
  BY DEF SInv, Agreement, Agrees, SignalsAgree
<1> QED
  BY <1>1, SettlementInvariant, PTL

\* The final dead-letter publish is given up only after all its attempts or with
\* its context.
THEOREM FinalPublishInsistsAlways == Spec => []FinalPublishInsists
<1>1. SInv => FinalPublishInsists
  BY DEF SInv, Insistence
<1> QED
  BY <1>1, SettlementInvariant, PTL
=============================================================================
