------------------------------ MODULE Streams ------------------------------
(***************************************************************************)
(* Events through JetStream: Emit with its publish retry (jetstream/bus.go *)
(* and metadata.go), the dead-letter publisher (jetstream/dlq.go) and the  *)
(* replay of its records (jetstream/replayer.go).                          *)
(*                                                                         *)
(* The server is external.  A stream remembers the message ids of its      *)
(* duplicate window and drops what repeats one; publishes and their        *)
(* acknowledgements may be lost or late; a consumer hands a record out,    *)
(* and again when it is Nakked or its ack wait passes.                     *)
(***************************************************************************)
EXTENDS Ids, Integers, FiniteSets, Sequences

CONSTANTS Emits,          \* calls of Bus.Emit
          Given,          \* ids an application may give, by WithID or Event.Id
          MaxAttempts,    \* PublishRetryPolicy
          MaxRecords,     \* bound: dead letters
          MaxMessages,    \* bound: emits and dead letters together
          MaxExpired,     \* bound: message ids that leave the window
          MaxLate         \* bound: publishes under way that nobody waits for

Records == 1 .. MaxRecords

\* An event id is a pair of a millisecond and a counter; the ids an application
\* gives are none the generator mints.  A message id is that of an event or of
\* the replay of a record.
NoId == <<0, 0>>
NoMsgId == <<NoId, 0>>
Many == 2

ASSUME StreamsAssumption ==
    /\ MaxAttempts \in Nat \ {0} /\ MaxRecords \in Nat /\ MaxLate \in Nat
    /\ MaxMessages \in Nat /\ MaxExpired \in Nat
    /\ Given \subseteq {0} \X (Nat \ {0})
    /\ Emits \cap Records = {}

VARIABLES
    \* the stream the events go to
    window,       \* message ids in its duplicate window
    copies,       \* copies[m]: how often the message of m was stored: 0, 1 or Many
    late,         \* messages under way that the client has given up on
    expired,      \* history: ids that left the window
    \* Emit
    at, id, tries,
    \* the dead-letter stream and its replay consumer
    dlq,          \* the records in order: the event, and what is known of it
    cons,         \* cons[r]: none, avail, out or acked
    \* Replay
    rpc, batch,   \* where it is, and the records it was given and has not settled
    current       \* the record it has published and not acknowledged

evars == <<at, id, tries>>
server == <<window, copies, late, expired>>
dvars == <<dlq, cons>>
replay == <<rpc, batch, current>>
stvars == <<idvars, server, evars, dvars, replay>>

Init ==
    /\ IdsInit
    /\ window = {} /\ late = {} /\ expired = {}
    /\ copies = [m \in Emits \cup Records |-> 0]
    /\ at = [e \in Emits |-> "new"] /\ id = [e \in Emits |-> NoId]
    /\ tries = [e \in Emits |-> 0]
    /\ dlq = <<>> /\ cons = [r \in Records |-> "none"]
    /\ rpc = "loop" /\ batch = {} /\ current = 0

Room == Cardinality({e \in Emits : at[e] # "new"}) + Len(dlq) < MaxMessages

-----------------------------------------------------------------------------
(* The server *)

\* The message m arrives with message id i.
Store(i, m) ==
    IF i \in window
      THEN UNCHANGED <<window, copies>>
      ELSE /\ copies' = [copies EXCEPT ![m] = IF @ = 0 THEN 1 ELSE Many]
           /\ window' = window \cup ({i} \ {NoMsgId})

\* What becomes of a publish: acknowledged; refused or lost; stored with its
\* acknowledgement lost; or under way when the client stops waiting.
Sent(outcome, i, m) ==
    \/ outcome \in {"acked", "ack_lost"} /\ Store(i, m) /\ UNCHANGED late
    \/ outcome = "lost" /\ UNCHANGED <<window, copies, late>>
    \/ /\ outcome = "late" /\ Cardinality(late) < MaxLate
       /\ late' = late \cup {<<i, m>>}
       /\ UNCHANGED <<window, copies>>

Publishes == {"acked", "ack_lost", "late", "lost"}

\* A publish the client gave up on arrives after all.
Arrive(p) ==
    /\ late' = late \ {p}
    /\ Store(p[1], p[2])
    /\ UNCHANGED <<expired, idvars, evars, dvars, replay>>

\* The duplicate window passes for a message id.
Forget(i) ==
    /\ Cardinality(expired \cup {i}) <= MaxExpired
    /\ window' = window \ {i}
    /\ expired' = expired \cup {i}
    /\ UNCHANGED <<copies, late, idvars, evars, dvars, replay>>

\* The ack wait of a record passes, whoever holds it.
AckWait(r) ==
    /\ cons[r] = "out"
    /\ cons' = [cons EXCEPT ![r] = "avail"]
    /\ UNCHANGED <<dlq, idvars, server, evars, replay>>

-----------------------------------------------------------------------------
(* Emit *)

\* Admit refuses the emit.
EmitFails(e) ==
    /\ at[e] = "new" /\ Room
    /\ at' = [at EXCEPT ![e] = "error"]
    /\ UNCHANGED <<id, tries, idvars, server, dvars, replay>>

\* ResolveOutbound: the id the application gave, or a new one.
EmitGiven(e, given) ==
    /\ at[e] = "new" /\ Room
    /\ id' = [id EXCEPT ![e] = given]
    /\ at' = [at EXCEPT ![e] = "publishing"]
    /\ UNCHANGED <<tries, idvars, server, dvars, replay>>

EmitMints(e, ms, seed) ==
    /\ at[e] = "new" /\ Room
    /\ Mint(ms, seed)
    /\ id' = [id EXCEPT ![e] = <<lastMS', seq'>>]
    /\ at' = [at EXCEPT ![e] = "publishing"]
    /\ UNCHANGED <<tries, server, dvars, replay>>

\* Mutant of MsgId: every attempt carries an id of its own.
MsgIdPerAttempt(e) == <<id[e], MaxRecords + tries[e]>>

\* Nats-Msg-Id, the same in every attempt.
MsgId(e) == <<id[e], 0>>

\* The event cannot be encoded, or the context of the caller is done before an
\* attempt or in the wait for it.
PublishStops(e) ==
    /\ at[e] = "publishing"
    /\ at' = [at EXCEPT ![e] = "error"] /\ tries' = [tries EXCEPT ![e] = 0]
    /\ UNCHANGED <<id, idvars, server, dvars, replay>>

\* One attempt.  A publish that was not acknowledged is tried again, after a
\* backoff, unless it was the last attempt, the error is permanent, the context
\* is done or its deadline comes before the end of the wait.  permanent covers
\* all but the first.
Publish(e, outcome, permanent) ==
    /\ at[e] = "publishing"
    /\ Sent(outcome, MsgId(e), e)
    /\ at' = [at EXCEPT ![e] =
                 CASE outcome = "acked" -> "nil"
                   [] outcome # "acked" /\ (permanent \/ tries[e] + 1 >= MaxAttempts) -> "error"
                   [] OTHER -> "publishing"]
    /\ tries' = [tries EXCEPT ![e] = IF at'[e] = "publishing" THEN @ + 1 ELSE 0]
    /\ UNCHANGED <<expired, id, idvars, dvars, replay>>

-----------------------------------------------------------------------------
(* DLQ.Publish *)

\* A consumer dead-letters a message it was given.  The record has no message
\* id, so a publish repeated after a lost acknowledgement is another record.
\* known: the id of the event could be read from its envelope; or only the
\* sequence of the record can be; or, when its metadata is unreadable, neither.
DeadLetter(e, known) ==
    /\ copies[e] > 0 /\ Len(dlq) < MaxRecords /\ Room
    /\ dlq' = Append(dlq, [event |-> e, known |-> known])
    /\ cons' = [cons EXCEPT ![Len(dlq) + 1] = "avail"]
    /\ UNCHANGED <<idvars, server, evars, replay>>

-----------------------------------------------------------------------------
(* Replay *)

\* Mutant of ReplayId: the id of the event itself.
ReplayIdOriginal(r) == <<id[dlq[r].event], 0>>

\* Mutant of ReplayId: a record without an event id gets no message id.
ReplayIdEventOnly(r) == IF dlq[r].known = "id" THEN <<id[dlq[r].event], r>> ELSE NoMsgId

\* EVENT_ID:replay:SEQ, replay:STREAM:SEQ, or no message id at all.
ReplayId(r) ==
    CASE dlq[r].known = "id" -> <<id[dlq[r].event], r>>
      [] dlq[r].known = "sequence" -> <<NoId, r>>
      [] dlq[r].known = "nothing" -> NoMsgId

\* FetchNoWait, in a call of Replay that has not reached its limit: a batch of
\* records.  In between the call may return, and another one begin.
Fetch(B) ==
    /\ rpc = "loop" /\ B # {}
    /\ batch' = B
    /\ cons' = [r \in Records |-> IF r \in B THEN "out" ELSE cons[r]]
    /\ rpc' = "batch"
    /\ UNCHANGED <<current, dlq, idvars, server, evars>>

\* A Nak returns the record, unless it is lost or comes after the ack wait.
Nak(r) ==
    \/ UNCHANGED cons
    \/ cons[r] = "out" /\ cons' = [cons EXCEPT ![r] = "avail"]

\* replayOne, and the publish fails, or there is no subject to publish to.
ReplayFails(r, outcome) ==
    /\ rpc = "batch" /\ r \in batch
    /\ outcome # "acked" /\ Sent(outcome, ReplayId(r), r)
    /\ batch' = batch \ {r} /\ rpc' = "failed"
    /\ Nak(r)
    /\ UNCHANGED <<current, dlq, expired, idvars, evars>>

\* replayOne, and the stream acknowledges the message, a duplicate included.
ReplayStored(r) ==
    /\ rpc = "batch" /\ r \in batch
    /\ Sent("acked", ReplayId(r), r)
    /\ current' = r
    /\ rpc' = "acking"
    /\ UNCHANGED <<batch, dvars, expired, idvars, evars>>

\* Ack, which nobody waits for: it may be lost.
ReplayAck(arrives) ==
    /\ rpc = "acking"
    /\ cons' = IF arrives THEN [cons EXCEPT ![current] = "acked"] ELSE cons
    /\ batch' = batch \ {current} /\ current' = 0
    /\ rpc' = "batch"
    /\ UNCHANGED <<dlq, idvars, server, evars>>

\* After a failure the rest of the batch is Nakked.
NakRest(r) ==
    /\ rpc = "failed" /\ r \in batch
    /\ batch' = batch \ {r}
    /\ Nak(r)
    /\ UNCHANGED <<rpc, current, dlq, idvars, server, evars>>

\* The batch is done; the error of a record, or of the fetch, ends the call.
BatchEnds ==
    /\ rpc \in {"batch", "failed"} /\ batch = {}
    /\ rpc' = "loop"
    /\ UNCHANGED <<batch, current, idvars, server, evars, dvars>>

\* The process that replays dies; what it holds comes back by the ack wait.
ReplayCrashes ==
    /\ rpc # "loop"
    /\ rpc' = "loop" /\ batch' = {} /\ current' = 0
    /\ UNCHANGED <<idvars, server, evars, dvars>>

-----------------------------------------------------------------------------
EmitNext(e) ==
    \/ EmitFails(e) \/ PublishStops(e)
    \/ \E given \in Given : EmitGiven(e, given)
    \/ \E ms \in 1 .. MaxClock, seed \in 0 .. MaxSeed : EmitMints(e, ms, seed)
    \/ \E outcome \in Publishes, permanent \in BOOLEAN : Publish(e, outcome, permanent)
    \/ \E known \in {"id", "sequence", "nothing"} : DeadLetter(e, known)

ReplayNext ==
    \/ BatchEnds \/ ReplayCrashes
    \/ \E B \in SUBSET {r \in Records : cons[r] = "avail"} : Fetch(B)
    \/ \E r \in batch :
          \/ ReplayStored(r) \/ NakRest(r)
          \/ \E outcome \in Publishes : ReplayFails(r, outcome)
    \/ \E arrives \in BOOLEAN : ReplayAck(arrives)

Next ==
    \/ \E p \in late : Arrive(p)
    \/ \E i \in window : Forget(i)
    \/ \E r \in Records : AckWait(r)
    \/ \E e \in Emits : EmitNext(e)
    \/ ReplayNext

Spec == Init /\ [][Next]_stvars

-----------------------------------------------------------------------------
(* Properties *)

\* The emits of the same event: e, and those given the same id.
SameEvent(e) == {f \in Emits : f = e \/ (id[e] \in Given /\ id[f] = id[e])}

\* A message of S is in the stream; and not only once.
Stored(S) == \E m \in S : copies[m] > 0
StoredAgain(S) ==
    \E m, n \in S : copies[m] > 0 /\ copies[n] > 0 /\ (m # n \/ copies[m] = Many)

\* An Emit that returned nil has its event in the stream, although a duplicate
\* also counts as success: no generated or replay id ever hides another event
\* (jetstream/bus.go:222-227).
NilMeansStored == \A e \in Emits : at[e] = "nil" => Stored(SameEvent(e))

\* Within the duplicate window an event is stored once, whatever attempts are
\* made, acknowledgements lost and publishes late: the retry keeps the message
\* id (jetstream/bus.go:327-329).
StoredOnce == \A e \in Emits : StoredAgain(SameEvent(e)) => <<id[e], 0>> \in expired

\* Replay advances past a record only when a message of that record is in the
\* target stream: a failed publish, a lost Nak, a crash, or the original message
\* still in the duplicate window never costs one (jetstream/replayer.go:124-136).
AckedWasReplayed == \A r \in Records : cons[r] = "acked" => copies[r] > 0

\* A record replayed again, because its Ack was lost, its ack wait passed or the
\* replay died, is stored once within the window, unless its metadata could not
\* be read and it had no message id (jetstream/replayer.go:124-127).
ReplayedOnce ==
    \A r \in 1 .. Len(dlq) : copies[r] = Many =>
        dlq[r].known = "nothing" \/ \E i \in expired : i[2] = r
=============================================================================
