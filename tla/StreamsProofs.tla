--------------------------- MODULE StreamsProofs ---------------------------
(***************************************************************************)
(* Proofs about Ids and Streams: for every size of the counter of an id    *)
(* and whatever the clock does; for any number of emits, attempts, records *)
(* and late publishes, whatever becomes of an acknowledgement.             *)
(***************************************************************************)
EXTENDS Streams, TLAPS

-----------------------------------------------------------------------------
(* The ids of one process *)

\* One call of uuidv7Gen.next leaves a millisecond and a counter of its bits.
LEMMA MintTyped ==
    ASSUME IdsTypeOK, NEW ms \in 1 .. MaxClock, NEW seed \in 0 .. MaxSeed, Mint(ms, seed)
    PROVE  IdsTypeOK'
<1>1. lastMS' \in Nat /\ seq' \in 0 .. MaxSeq
  BY IdsAssumption DEF Mint, IdsTypeOK
<1>2. minted' \in 0 .. MaxMinted
  BY IdsAssumption DEF Mint, IdsTypeOK
<1> QED
  BY <1>1, <1>2 DEF IdsTypeOK

\* What id.go keeps between two calls of next has its type: in particular the
\* counter never leaves its bits.
THEOREM IdsTyped == IdsSpec => []IdsTypeOK
<1>1. IdsInit => IdsTypeOK
  BY IdsAssumption DEF IdsInit, IdsTypeOK
<1>2. IdsTypeOK /\ [IdsNext]_idvars => IdsTypeOK'
  <2> SUFFICES ASSUME IdsTypeOK, [IdsNext]_idvars
               PROVE  IdsTypeOK'
    OBVIOUS
  <2>1. CASE IdsNext
    <3>1. PICK ms \in 1 .. MaxClock, seed \in 0 .. MaxSeed : Mint(ms, seed)
      BY <2>1 DEF IdsNext
    <3> QED
      BY <3>1, MintTyped
  <2>2. CASE UNCHANGED idvars
    BY <2>2 DEF idvars, IdsTypeOK
  <2> QED
    BY <2>1, <2>2
<1> QED
  BY <1>1, <1>2, PTL DEF IdsSpec

\* One call of uuidv7Gen.next: the id it leaves is greater than the one before,
\* in a new millisecond, within one, and when it borrows the next.
LEMMA MintIncreases ==
    ASSUME IdsTypeOK, NEW ms \in 1 .. MaxClock, NEW seed \in 0 .. MaxSeed, Mint(ms, seed)
    PROVE  Less(<<lastMS, seq>>, <<lastMS', seq'>>)
<1>1. CASE ms > lastMS /\ lastMS' = ms
  BY <1>1, IdsAssumption DEF Less, IdsTypeOK
<1>2. CASE seq' = seq + 1 /\ lastMS' = lastMS
  BY <1>2, IdsAssumption DEF Less, IdsTypeOK
<1>3. CASE lastMS' = lastMS + 1
  BY <1>3 DEF Less, IdsTypeOK
<1> QED
  BY <1>1, <1>2, <1>3 DEF Mint

\* "Ids from the same process are strictly increasing as strings" (id.go:27),
\* for every clock, counter and seed.
THEOREM IdsAlwaysIncrease == IdsSpec => IdsIncrease
<1>1. IdsTypeOK /\ [IdsNext]_idvars
        => [minted' # minted => Less(<<lastMS, seq>>, <<lastMS', seq'>>)]_idvars
  BY MintIncreases DEF IdsNext
<1> QED
  BY <1>1, IdsTyped, PTL DEF IdsSpec, IdsIncrease

-----------------------------------------------------------------------------
(* The inductive invariant of the streams, by what it is about. *)

Knowns == {"id", "sequence", "nothing"}
All    == Emits \cup Records
LetterSet == [event : Emits, known : Knowns]

Types ==
    /\ IdsTypeOK
    /\ copies \in [All -> {0, 1, Many}]
    /\ at \in [Emits -> {"new", "publishing", "nil", "error"}]
    /\ id \in [Emits -> Nat \X Nat]
    /\ dlq \in Seq(LetterSet) /\ Len(dlq) <= MaxRecords
    /\ cons \in [Records -> {"none", "avail", "out", "acked"}]

\* Ids: none yet, given, or minted and not after the last one minted.  No two
\* emits share an id that was minted.
IdOf(e) ==
    \/ id[e] = NoId
    \/ id[e] \in Given
    \/ id[e][1] > 0 /\ ~Less(<<lastMS, seq>>, id[e])

Identities ==
    /\ \A e \in Emits : /\ IdOf(e)
                        /\ at[e] = "new" => id[e] = NoId
                        /\ at[e] \in {"publishing", "nil"} => id[e] # NoId
    /\ \A e, f \in Emits : id[e] = id[f] /\ id[e] # NoId => e = f \/ id[e] \in Given

\* A message is known from its first publish, or as a record; its message id
\* is the same from then on.
Known(m) == (m \in Emits /\ id[m] # NoId) \/ m \in 1 .. Len(dlq)
Key(m)   == IF m \in Emits THEN MsgId(m) ELSE ReplayId(m)

\* What the window holds was stored; what was stored is in the window, or has
\* left it; what is under way carries its own message id; and what was stored
\* twice has left the window once.
Window ==
    \A i \in window : i # NoMsgId /\ \E m \in All : Known(m) /\ Key(m) = i /\ copies[m] > 0

Stores ==
    \A m \in All : copies[m] > 0 =>
        Known(m) /\ (Key(m) = NoMsgId \/ Key(m) \in window \cup expired)

UnderWay == \A p \in late : p[2] \in All /\ Known(p[2]) /\ p[1] = Key(p[2])

Twice ==
    \A m, n \in All :
        copies[m] > 0 /\ copies[n] > 0 /\ Key(m) = Key(n) /\ (m # n \/ copies[m] = Many)
            => Key(m) = NoMsgId \/ Key(m) \in expired

\* An emit that returned nil; the records, and the one that is to be acknowledged.
Nils == \A e \in Emits : at[e] = "nil" => \E f \in Emits : copies[f] > 0 /\ id[f] = id[e]

Letters ==
    /\ \A r \in 1 .. Len(dlq) : id[dlq[r].event] # NoId
    /\ \A r \in Records : cons[r] # "none" => r \in 1 .. Len(dlq)
    /\ batch \subseteq 1 .. Len(dlq)
    /\ rpc = "acking" => current \in Records /\ copies[current] > 0
    /\ AckedWasReplayed

Storage == Window /\ Stores /\ UnderWay /\ Twice

StInv == Types /\ Identities /\ Storage /\ Nils /\ Letters

-----------------------------------------------------------------------------
(* Message ids *)

\* An emit is known by its id.
LEMMA KnownEmit ==
    ASSUME Types, NEW e \in Emits, Known(e)
    PROVE  id[e] # NoId
BY StreamsAssumption DEF Known, Types, Records

\* The message id of an emit ends in 0, that of a record in its number.
LEMMA KeyShape ==
    ASSUME Types, NEW m \in All, Known(m)
    PROVE  \/ m \in Emits /\ m \notin Records /\ Key(m) = <<id[m], 0>> /\ Key(m) # NoMsgId
           \/ m \notin Emits /\ m \in Records /\ Key(m) = NoMsgId
           \/ m \notin Emits /\ m \in Records /\ \E x : Key(m) = <<x, m>>
<1>1. CASE m \in Emits
  <2>1. m \notin Records /\ id[m] # NoId
    BY <1>1, StreamsAssumption, KnownEmit
  <2>2. Key(m) = <<id[m], 0>>
    BY <1>1 DEF Key, MsgId
  <2> QED
    BY <1>1, <2>1, <2>2 DEF NoMsgId
<1>2. CASE m \notin Emits
  <2>1. m \in Records /\ m \in 1 .. Len(dlq) /\ dlq[m].known \in Knowns
    <3>1. m \in Records /\ m \in 1 .. Len(dlq)
      BY <1>2 DEF All, Known
    <3>2. dlq[m] \in LetterSet
      BY <3>1 DEF Types
    <3> QED
      BY <3>1, <3>2 DEF LetterSet
  <2>2. Key(m) = NoMsgId \/ \E x : Key(m) = <<x, m>>
    BY <1>2, <2>1 DEF Key, ReplayId, Knowns
  <2> QED
    BY <1>2, <2>1, <2>2
<1> QED
  BY <1>1, <1>2

\* Two messages share a message id only as emits of one event.
LEMMA KeysDiffer ==
    ASSUME Types, NEW m \in All, NEW n \in All, Known(m), Known(n),
           Key(m) = Key(n), Key(m) # NoMsgId
    PROVE  \/ m = n
           \/ m \in Emits /\ n \in Emits /\ id[m] = id[n]
<1>1. \/ m \in Emits /\ Key(m) = <<id[m], 0>>
      \/ m \in Records /\ \E x : Key(m) = <<x, m>>
  BY KeyShape
<1>2. \/ n \in Emits /\ Key(n) = <<id[n], 0>>
      \/ n \in Records /\ \E x : Key(n) = <<x, n>>
  BY KeyShape
<1>3. 0 \notin Records
  BY StreamsAssumption DEF Records
<1> QED
  BY <1>1, <1>2, <1>3

\* Every message that is known stays known, under the same message id.
Stable == \A m \in All : Known(m) => Known(m)' /\ Key(m)' = Key(m)

\* So they are when neither the ids nor the records change.
LEMMA SameStable ==
    ASSUME UNCHANGED <<id, dlq>>
    PROVE  Stable
BY DEF Stable, Known, Key, MsgId, ReplayId

-----------------------------------------------------------------------------
(* The server *)

\* A step that stores nothing and forgets nothing.
LEMMA QuietStep ==
    ASSUME Types, Storage, Stable, UNCHANGED <<window, copies, late, expired>>
    PROVE  Storage'
<1>1. Window'
  BY DEF Storage, Window, Stable
<1>2. Stores'
  BY DEF Storage, Stores, Stable
<1>3. UnderWay'
  BY DEF Storage, UnderWay, Stable
<1>4. Twice'
  BY DEF Storage, Stores, Twice, Stable
<1> QED
  BY <1>1, <1>2, <1>3, <1>4 DEF Storage

\* A message arrives under its own message id: it is stored, or it was.
LEMMA StoreStep ==
    ASSUME Types, Storage, NEW m \in All, Known(m), Store(Key(m), m),
           UNCHANGED <<id, dlq, expired>>
    PROVE  /\ copies' \in [All -> {0, 1, Many}]
           /\ \A n \in All : copies[n] > 0 => copies'[n] > 0
           /\ \E n \in All : Known(n) /\ Key(n) = Key(m) /\ copies'[n] > 0
           /\ Window' /\ Stores' /\ Twice'
<1> DEFINE k == Key(m)
<1>s. Stable
  BY SameStable
<1>k. \A n \in All : (Known(n) <=> Known(n)') /\ Key(n)' = Key(n)
  BY DEF Known, Key, MsgId, ReplayId
<1>1. CASE k \in window
  <2>1. UNCHANGED <<window, copies>>
    BY <1>1 DEF Store
  <2>2. \E n \in All : Known(n) /\ Key(n) = k /\ copies[n] > 0
    BY <1>1 DEF Storage, Window
  <2>3. Window' /\ Stores' /\ Twice'
    BY <1>k, <2>1 DEF Storage, Window, Stores, Twice
  <2> QED
    BY <2>1, <2>2, <2>3 DEF Types
<1>2. CASE k \notin window
  <2>1. /\ copies' = [copies EXCEPT ![m] = IF @ = 0 THEN 1 ELSE Many]
        /\ window' = window \cup ({k} \ {NoMsgId})
    BY <1>2 DEF Store
  <2>2. /\ copies' \in [All -> {0, 1, Many}] /\ copies'[m] > 0
        /\ \A n \in All : copies[n] > 0 => copies'[n] > 0
        /\ \A n \in All : n # m => copies'[n] = copies[n]
        /\ copies'[m] = Many => copies[m] > 0
    BY <2>1 DEF Types, Many
  <2>3. Window'
    BY <1>k, <2>1, <2>2 DEF Storage, Window
  <2>4. Stores'
    BY <1>k, <2>1, <2>2 DEF Storage, Stores
  <2>5. \A n \in All : copies[n] > 0 /\ Key(n) = k => k = NoMsgId \/ k \in expired
    BY <1>2 DEF Storage, Stores
  <2>6. Twice'
    <3> SUFFICES ASSUME NEW a \in All, NEW b \in All, copies'[a] > 0, copies'[b] > 0,
                        Key(a) = Key(b), a # b \/ copies'[a] = Many,
                        Key(a) # NoMsgId
                 PROVE  Key(a) \in expired
      BY <1>k DEF Twice
    <3>1. CASE a = m \/ b = m
      BY <3>1, <2>2, <2>5
    <3>2. CASE a # m /\ b # m
      BY <3>2, <2>2 DEF Storage, Twice
    <3> QED
      BY <3>1, <3>2
  <2> QED
    BY <2>2, <2>3, <2>4, <2>6
<1> QED
  BY <1>1, <1>2

\* A publish under the message's own message id, whatever becomes of it; when it
\* is acknowledged, a message with that id is in the stream.
LEMMA SentStep ==
    ASSUME Types, Storage, NEW m \in All, Known(m), NEW outcome, Sent(outcome, Key(m), m),
           UNCHANGED <<id, dlq, expired>>
    PROVE  /\ Storage'
           /\ copies' \in [All -> {0, 1, Many}]
           /\ \A n \in All : copies[n] > 0 => copies'[n] > 0
           /\ outcome = "acked" =>
                 \E n \in All : Known(n) /\ Key(n) = Key(m) /\ copies'[n] > 0
<1>s. Stable
  BY SameStable
<1>1. CASE Store(Key(m), m) /\ UNCHANGED late
  <2>1. UnderWay'
    BY <1>1, <1>s DEF Storage, UnderWay, Stable
  <2> QED
    BY <1>1, <2>1, StoreStep DEF Storage
<1>2. CASE outcome # "acked" /\ UNCHANGED <<window, copies, late>>
  BY <1>2, <1>s, QuietStep DEF Types
<1>3. CASE outcome # "acked" /\ late' = late \cup {<<Key(m), m>>} /\ UNCHANGED <<window, copies>>
  <2>1. UnderWay'
    BY <1>3, <1>s DEF Storage, UnderWay, Stable
  <2>2. Window' /\ Stores' /\ Twice'
    BY <1>3, <1>s DEF Storage, Window, Stores, Twice, Stable
  <2> QED
    BY <1>3, <2>1, <2>2 DEF Storage, Types
<1> QED
  BY <1>1, <1>2, <1>3 DEF Sent

-----------------------------------------------------------------------------
(* The steps *)

USE DEF idvars, evars, server, dvars, replay

\* What the emits are, when they and the generator are left alone and nothing
\* is taken from the stream.
LEMMA EmitsKept ==
    ASSUME StInv, UNCHANGED <<idvars, id>>,
           \A e \in Emits : \/ at'[e] = at[e]
                            \/ at'[e] = "error" /\ at[e] \in {"new", "publishing"},
           \A n \in All : copies[n] > 0 => copies'[n] > 0
    PROVE  Identities' /\ Nils'
<1>1. Identities'
  BY DEF StInv, Identities, IdOf
<1>2. Nils'
  BY DEF StInv, Nils, All
<1> QED
  BY <1>1, <1>2

\* A late publish arrives.
LEMMA ArrivePreserves ==
    ASSUME StInv, NEW p \in late, Arrive(p)
    PROVE  StInv'
<1>1. p[2] \in All /\ Known(p[2]) /\ p[1] = Key(p[2])
  BY DEF StInv, Storage, UnderWay
<1>2. /\ copies' \in [All -> {0, 1, Many}] /\ Window' /\ Stores' /\ Twice'
      /\ \A n \in All : copies[n] > 0 => copies'[n] > 0
  BY <1>1, StoreStep DEF Arrive, StInv
<1>3. UnderWay'
  BY SameStable DEF Arrive, StInv, Storage, UnderWay, Stable
<1>4. Types'
  BY <1>2 DEF Arrive, StInv, Types, IdsTypeOK
<1>5. Identities' /\ Nils'
  BY <1>2, EmitsKept DEF Arrive
<1>6. Letters'
  BY <1>2 DEF Arrive, StInv, Letters, AckedWasReplayed, All
<1> QED
  BY <1>2, <1>3, <1>4, <1>5, <1>6 DEF StInv, Storage

\* A message id leaves the window.
LEMMA ForgetPreserves ==
    ASSUME StInv, NEW i \in window, Forget(i)
    PROVE  StInv'
<1>1. Window' /\ UnderWay'
  BY SameStable DEF Forget, StInv, Storage, Window, UnderWay, Stable
<1>2. Stores' /\ Twice'
  BY SameStable DEF Forget, StInv, Storage, Stores, Twice, Stable
<1>3. Types' /\ Letters'
  BY DEF Forget, StInv, Types, IdsTypeOK, Letters, AckedWasReplayed
<1>4. Identities' /\ Nils'
  BY EmitsKept DEF Forget
<1> QED
  BY <1>1, <1>2, <1>3, <1>4 DEF StInv, Storage

\* Neither the stream nor an emit is touched: only the records are handed out
\* and taken back.
LEMMA ReplayOnly ==
    ASSUME StInv, UNCHANGED <<dlq, idvars, server, evars>>,
           cons' \in [Records -> {"none", "avail", "out", "acked"}], Letters'
    PROVE  StInv'
<1>1. Storage'
  BY SameStable, QuietStep DEF StInv
<1>2. Types'
  BY DEF StInv, Types, IdsTypeOK
<1>3. Identities' /\ Nils'
  BY EmitsKept
<1> QED
  BY <1>1, <1>2, <1>3 DEF StInv

\* The ack wait of a record passes.
LEMMA AckWaitPreserves ==
    ASSUME StInv, NEW r \in Records, AckWait(r)
    PROVE  StInv'
<1>1. cons' \in [Records -> {"none", "avail", "out", "acked"}] /\ Letters'
  BY DEF AckWait, StInv, Types, Letters, AckedWasReplayed
<1> QED
  BY <1>1, ReplayOnly DEF AckWait

\* A batch is fetched.
LEMMA FetchPreserves ==
    ASSUME StInv, NEW B \in SUBSET {r \in Records : cons[r] = "avail"}, Fetch(B)
    PROVE  StInv'
<1>1. cons' \in [Records -> {"none", "avail", "out", "acked"}] /\ Letters'
  BY DEF Fetch, StInv, Types, Letters, AckedWasReplayed
<1> QED
  BY <1>1, ReplayOnly DEF Fetch

\* The Ack, which may be lost: a message of the record is in the stream.
LEMMA ReplayAckPreserves ==
    ASSUME StInv, NEW arrives \in BOOLEAN, ReplayAck(arrives)
    PROVE  StInv'
<1>1. current \in Records /\ copies[current] > 0 /\ Known(current)
  BY DEF ReplayAck, StInv, Letters, Storage, Stores, All
<1>2. current \in 1 .. Len(dlq)
  BY <1>1, StreamsAssumption DEF Known
<1>3. cons' \in [Records -> {"none", "avail", "out", "acked"}] /\ Letters'
  BY <1>1, <1>2 DEF ReplayAck, StInv, Types, Letters, AckedWasReplayed
<1> QED
  BY <1>3, ReplayOnly DEF ReplayAck

\* The rest of a batch is given back; the batch ends; or the process dies.
LEMMA BatchPreserves ==
    ASSUME StInv, BatchEnds \/ ReplayCrashes \/ \E r \in batch : NakRest(r)
    PROVE  StInv'
<1>1. cons' \in [Records -> {"none", "avail", "out", "acked"}] /\ Letters'
  BY DEF BatchEnds, ReplayCrashes, NakRest, Nak, StInv, Types, Letters, AckedWasReplayed
<1> QED
  BY <1>1, ReplayOnly DEF BatchEnds, ReplayCrashes, NakRest

\* A record of the batch is known, and no emit has its number.
LEMMA BatchKnown ==
    ASSUME StInv, NEW r \in batch
    PROVE  r \in All /\ r \in Records /\ Known(r) /\ Key(r) = ReplayId(r)
<1>1. r \in 1 .. Len(dlq) /\ Len(dlq) \in Nat /\ Len(dlq) <= MaxRecords
  BY DEF StInv, Letters, Types
<1>2. r \in Records
  BY <1>1, StreamsAssumption DEF Records
<1> QED
  BY <1>1, <1>2, StreamsAssumption DEF All, Known, Key

\* The publish of a replay fails, and the record is Nakked.
LEMMA ReplayFailsPreserves ==
    ASSUME StInv, NEW r \in batch, NEW outcome \in Publishes, ReplayFails(r, outcome)
    PROVE  StInv'
<1>1. /\ Storage' /\ copies' \in [All -> {0, 1, Many}]
      /\ \A n \in All : copies[n] > 0 => copies'[n] > 0
  BY BatchKnown, SentStep DEF ReplayFails, StInv
<1>2. cons' \in [Records -> {"none", "avail", "out", "acked"}]
  BY BatchKnown DEF ReplayFails, Nak, StInv, Types
<1>3. Types'
  BY <1>1, <1>2 DEF ReplayFails, StInv, Types, IdsTypeOK
<1>4. Identities' /\ Nils'
  BY <1>1, EmitsKept DEF ReplayFails
<1>5. Letters'
  BY <1>1, BatchKnown DEF ReplayFails, Nak, StInv, Types, Letters, AckedWasReplayed, All
<1> QED
  BY <1>1, <1>3, <1>4, <1>5 DEF StInv

\* The publish of a replay is acknowledged: what the stream has under that
\* message id is the record.
LEMMA ReplayStoredPreserves ==
    ASSUME StInv, NEW r \in batch, ReplayStored(r)
    PROVE  StInv'
<1>1. /\ Storage' /\ copies' \in [All -> {0, 1, Many}]
      /\ \A n \in All : copies[n] > 0 => copies'[n] > 0
  BY BatchKnown, SentStep DEF ReplayStored, StInv
<1>2. copies'[r] > 0
  <2>1. CASE ReplayId(r) \in window
    <3>1. PICK n \in All : Known(n) /\ Key(n) = Key(r) /\ copies[n] > 0
      BY <2>1, BatchKnown DEF StInv, Storage, Window
    <3>2. Key(r) # NoMsgId
      BY <2>1, BatchKnown DEF StInv, Storage, Window
    <3>3. n = r
      BY <3>1, <3>2, BatchKnown, KeysDiffer, StreamsAssumption DEF StInv
    <3> QED
      BY <1>1, <3>1, <3>3
  <2>2. CASE ReplayId(r) \notin window
    BY <2>2, BatchKnown DEF ReplayStored, Sent, Store, StInv, Types, Many
  <2> QED
    BY <2>1, <2>2
<1>3. Types'
  BY <1>1 DEF ReplayStored, StInv, Types, IdsTypeOK
<1>4. Identities' /\ Nils'
  BY <1>1, EmitsKept DEF ReplayStored
<1>5. Letters'
  BY <1>1, <1>2, BatchKnown DEF ReplayStored, StInv, Letters, AckedWasReplayed, All
<1> QED
  BY <1>1, <1>3, <1>4, <1>5 DEF StInv

\* An emit that is refused, or stops.
LEMMA EmitStopsPreserves ==
    ASSUME StInv, NEW e \in Emits, EmitFails(e) \/ PublishStops(e)
    PROVE  StInv'
<1>1. at' \in [Emits -> {"new", "publishing", "nil", "error"}]
  BY DEF EmitFails, PublishStops, StInv, Types
<1>2. Storage'
  BY SameStable, QuietStep DEF EmitFails, PublishStops, StInv
<1>3. Types' /\ Letters'
  BY <1>1 DEF EmitFails, PublishStops, StInv, Types, IdsTypeOK, Letters, AckedWasReplayed
<1>4. Identities' /\ Nils'
  BY EmitsKept DEF EmitFails, PublishStops, StInv, Types
<1> QED
  BY <1>2, <1>3, <1>4 DEF StInv

\* An emit that had no id gets one.
LEMMA NewIdKept ==
    ASSUME StInv, NEW e \in Emits, NEW i \in Nat \X Nat, at[e] = "new", i # NoId,
           id' = [id EXCEPT ![e] = i], at' = [at EXCEPT ![e] = "publishing"], IdsTypeOK',
           UNCHANGED <<server, dvars, replay>>
    PROVE  Types' /\ Storage' /\ Nils' /\ Letters'
<1>1. id[e] = NoId /\ \A r \in 1 .. Len(dlq) : dlq[r].event # e
  BY DEF StInv, Identities, Letters
<1>2. Types'
  BY DEF StInv, Types
<1>3. Stable
  <2> SUFFICES ASSUME NEW m \in All, Known(m) PROVE Known(m)' /\ Key(m)' = Key(m)
    BY DEF Stable
  <2>1. CASE m \in Emits
    <3>1. m # e
      BY <1>1, <2>1, KnownEmit DEF StInv
    <3> QED
      BY <2>1, <3>1 DEF StInv, Types, Known, Key, MsgId
  <2>2. CASE m \notin Emits
    <3>1. m \in 1 .. Len(dlq) /\ dlq[m] \in LetterSet
      BY <2>2 DEF Known, StInv, Types
    <3>2. dlq[m].event \in Emits /\ dlq[m].event # e /\ dlq[m].known \in Knowns
      BY <1>1, <3>1 DEF LetterSet
    <3>3. id'[dlq[m].event] = id[dlq[m].event] /\ dlq' = dlq
      BY <3>2 DEF StInv, Types
    <3> QED
      BY <2>2, <3>1, <3>2, <3>3 DEF Known, Key, ReplayId, Knowns
  <2> QED
    BY <2>1, <2>2
<1>4. Storage'
  BY <1>3, QuietStep DEF StInv
<1>5. Nils'
  <2>1. ~(copies[e] > 0)
    BY <1>1, KnownEmit DEF StInv, Storage, Stores, All
  <2> QED
    BY <2>1 DEF StInv, Types, Nils
<1>6. Letters'
  <2>1. \A r \in 1 .. Len(dlq) : id'[dlq[r].event] # NoId
    <3> SUFFICES ASSUME NEW r \in 1 .. Len(dlq) PROVE id'[dlq[r].event] # NoId
      OBVIOUS
    <3>1. dlq[r] \in LetterSet
      BY DEF StInv, Types
    <3> QED
      BY <1>1, <3>1 DEF StInv, Types, Letters, LetterSet
  <2> QED
    BY <2>1 DEF StInv, Letters, AckedWasReplayed
<1> QED
  BY <1>2, <1>4, <1>5, <1>6

\* The application gives the id of its event.
LEMMA EmitGivenPreserves ==
    ASSUME StInv, NEW e \in Emits, NEW given \in Given, EmitGiven(e, given)
    PROVE  StInv'
<1>1. given \in Nat \X Nat /\ given # NoId
  BY StreamsAssumption DEF NoId
<1>2. Types' /\ Storage' /\ Nils' /\ Letters'
  BY <1>1, NewIdKept DEF EmitGiven, StInv, Types, IdsTypeOK
<1>3. Identities'
  BY <1>1 DEF EmitGiven, StInv, Types, Identities, IdOf
<1> QED
  BY <1>2, <1>3 DEF StInv

\* A new id is greater than every one minted before it.
LEMMA EmitMintsPreserves ==
    ASSUME StInv, NEW e \in Emits, NEW ms \in 1 .. MaxClock, NEW seed \in 0 .. MaxSeed,
           EmitMints(e, ms, seed)
    PROVE  StInv'
<1> DEFINE i == <<lastMS', seq'>>
<1>1. IdsTypeOK /\ IdsTypeOK' /\ Less(<<lastMS, seq>>, i)
  BY MintTyped, MintIncreases DEF EmitMints, StInv, Types
<1>2. lastMS' > 0
  BY <1>1 DEF EmitMints, Mint, IdsTypeOK
<1>3. i \in Nat \X Nat /\ i # NoId /\ i \notin Given
  BY <1>1, <1>2, IdsAssumption, StreamsAssumption DEF IdsTypeOK, NoId
<1>4. Types' /\ Storage' /\ Nils' /\ Letters'
  BY <1>1, <1>3, NewIdKept DEF EmitMints
<1>5. \A f \in Emits : id[f] # i /\ (IdOf(f) => ~Less(i, id[f]) \/ id[f] \in Given)
  <2> SUFFICES ASSUME NEW f \in Emits
               PROVE  id[f] # i /\ (~Less(i, id[f]) \/ id[f] \in Given)
    OBVIOUS
  <2>1. id[f] \in Nat \X Nat /\ IdOf(f)
    BY DEF StInv, Types, Identities
  <2>2. PICK a \in Nat, b \in Nat : id[f] = <<a, b>>
    BY <2>1
  <2>3. CASE ~Less(<<lastMS, seq>>, id[f])
    BY <1>1, <2>2, <2>3, IdsAssumption DEF Less, IdsTypeOK
  <2>4. CASE id[f] = NoId
    BY <1>1, <1>2, <2>4 DEF NoId, Less, IdsTypeOK
  <2>5. CASE id[f] \in Given
    BY <1>3, <2>5
  <2> QED
    BY <2>1, <2>3, <2>4, <2>5 DEF IdOf
<1>6. \A f \in Emits : f # e => id'[f] = id[f]
  BY DEF EmitMints, StInv, Types
<1>7. id'[e] = i /\ at'[e] = "publishing" /\ \A f \in Emits : f # e => at'[f] = at[f]
  BY DEF EmitMints, StInv, Types
<1>8. ~Less(i, i)
  BY <1>1 DEF Less, IdsTypeOK
<1>9. \A f \in Emits : IdOf(f)'
  BY <1>2, <1>5, <1>6, <1>7, <1>8 DEF IdOf, StInv, Identities
<1>10. Identities'
  BY <1>3, <1>5, <1>6, <1>7, <1>9 DEF StInv, Identities
<1> QED
  BY <1>4, <1>10 DEF StInv

\* An attempt to publish; an acknowledged one returns nil.
LEMMA PublishPreserves ==
    ASSUME StInv, NEW e \in Emits, NEW outcome \in Publishes, NEW permanent \in BOOLEAN,
           Publish(e, outcome, permanent)
    PROVE  StInv'
<1>1. id[e] # NoId /\ e \in All /\ Known(e) /\ Key(e) = MsgId(e)
  BY DEF Publish, StInv, Identities, Known, Key, All
<1>2. /\ Storage' /\ copies' \in [All -> {0, 1, Many}]
      /\ \A n \in All : copies[n] > 0 => copies'[n] > 0
      /\ outcome = "acked" => \E n \in All : Known(n) /\ Key(n) = Key(e) /\ copies'[n] > 0
  BY <1>1, SentStep DEF Publish, StInv
<1>3. /\ at'[e] \in {"publishing", "nil", "error"}
      /\ at'[e] = "nil" => outcome = "acked"
      /\ \A f \in Emits : f # e => at'[f] = at[f]
      /\ at' \in [Emits -> {"new", "publishing", "nil", "error"}]
  BY DEF Publish, StInv, Types
<1>4. Types'
  BY <1>2, <1>3 DEF Publish, StInv, Types, IdsTypeOK
<1>5. Identities'
  BY <1>1, <1>3 DEF Publish, StInv, Identities, IdOf
<1>6. outcome = "acked" => \E f \in Emits : copies'[f] > 0 /\ id[f] = id[e]
  <2>1. Key(e) # NoMsgId
    BY <1>1, KeyShape, StreamsAssumption DEF StInv
  <2> QED
    BY <1>1, <1>2, <2>1, KeysDiffer DEF StInv
<1>7. Nils'
  BY <1>2, <1>3, <1>6 DEF Publish, StInv, Nils, All
<1>8. Letters'
  BY <1>2 DEF Publish, StInv, Letters, AckedWasReplayed, All
<1> QED
  BY <1>2, <1>4, <1>5, <1>7, <1>8 DEF StInv

\* A message is dead-lettered: another record.
LEMMA DeadLetterPreserves ==
    ASSUME StInv, NEW e \in Emits, NEW known \in Knowns, DeadLetter(e, known)
    PROVE  StInv'
<1> DEFINE l == [event |-> e, known |-> known]
<1>1. /\ dlq' = Append(dlq, l) /\ l \in LetterSet
      /\ dlq \in Seq(LetterSet) /\ Len(dlq) < MaxRecords
  BY DEF DeadLetter, StInv, Types, LetterSet
<1>2. /\ Len(dlq) \in Nat /\ Len(dlq') = Len(dlq) + 1 /\ dlq' \in Seq(LetterSet)
      /\ dlq'[Len(dlq) + 1] = l /\ \A r \in 1 .. Len(dlq) : dlq'[r] = dlq[r]
  BY <1>1
<1>3. id[e] # NoId
  BY KnownEmit DEF DeadLetter, StInv, Storage, Stores, All
<1>4. Len(dlq) + 1 \in Records /\ Len(dlq') <= MaxRecords
  BY <1>1, <1>2, StreamsAssumption DEF Records
<1>5. Stable
  <2>1. \A m \in All : Known(m) => Known(m)'
    BY <1>2 DEF DeadLetter, Known
  <2>2. ASSUME NEW m \in All, Known(m) PROVE Key(m)' = Key(m)
    <3>1. CASE m \in Emits
      BY <3>1 DEF DeadLetter, Key, MsgId
    <3>2. CASE m \notin Emits
      <4>1. dlq'[m] = dlq[m] /\ id' = id /\ dlq[m] \in LetterSet
        BY <1>1, <1>2, <2>2, <3>2 DEF DeadLetter, Known
      <4>2. dlq[m].known \in Knowns
        BY <4>1 DEF LetterSet
      <4> QED
        BY <3>2, <4>1, <4>2 DEF Key, ReplayId, Knowns
    <3> QED
      BY <3>1, <3>2
  <2> QED
    BY <2>1, <2>2 DEF Stable
<1>6. Storage'
  BY <1>5, QuietStep DEF DeadLetter, StInv
<1>7. Types'
  BY <1>2, <1>4 DEF DeadLetter, StInv, Types, IdsTypeOK
<1>8. Identities' /\ Nils'
  BY EmitsKept DEF DeadLetter
<1>9. Letters'
  BY <1>2, <1>3, <1>4 DEF DeadLetter, StInv, Types, Letters, AckedWasReplayed
<1> QED
  BY <1>6, <1>7, <1>8, <1>9 DEF StInv

-----------------------------------------------------------------------------
(* The invariant *)

\* Nothing was emitted, and the streams are empty.
LEMMA InitStInv == Init => StInv
<1> SUFFICES ASSUME Init PROVE StInv
  OBVIOUS
<1>1. IdsTypeOK
  BY IdsAssumption DEF Init, IdsInit, IdsTypeOK
<1>2. dlq \in Seq(LetterSet) /\ Len(dlq) = 0
  BY DEF Init
<1>3. id \in [Emits -> Nat \X Nat] /\ copies \in [All -> {0, 1, Many}]
  BY DEF Init, NoId, All
<1>4. Types
  BY <1>1, <1>2, <1>3, StreamsAssumption DEF Init, Types
<1>5. Identities
  BY DEF Init, Identities, IdOf
<1>6. Storage
  BY DEF Init, Storage, Window, Stores, UnderWay, Twice, All
<1>7. Nils /\ Letters
  BY <1>2 DEF Init, Nils, Letters, AckedWasReplayed
<1> QED
  BY <1>4, <1>5, <1>6, <1>7 DEF StInv

\* Every step of a process, of the server and of the network keeps it.
LEMMA NextStInv == StInv /\ [Next]_stvars => StInv'
<1> SUFFICES ASSUME StInv, [Next]_stvars PROVE StInv'
  OBVIOUS
<1>1. CASE \E p \in late : Arrive(p)
  BY <1>1, ArrivePreserves
<1>2. CASE \E i \in window : Forget(i)
  BY <1>2, ForgetPreserves
<1>3. CASE \E r \in Records : AckWait(r)
  BY <1>3, AckWaitPreserves
<1>4. ASSUME NEW e \in Emits, EmitNext(e) PROVE StInv'
  BY <1>4, EmitStopsPreserves, EmitGivenPreserves, EmitMintsPreserves, PublishPreserves,
     DeadLetterPreserves DEF EmitNext, Knowns
<1>5. CASE ReplayNext
  BY <1>5, BatchPreserves, FetchPreserves, ReplayStoredPreserves, ReplayFailsPreserves,
     ReplayAckPreserves DEF ReplayNext
<1>6. CASE UNCHANGED stvars
  <2>1. cons' \in [Records -> {"none", "avail", "out", "acked"}] /\ Letters'
    BY <1>6 DEF stvars, StInv, Types, Letters, AckedWasReplayed
  <2> QED
    BY <1>6, <2>1, ReplayOnly DEF stvars
<1> QED
  BY <1>1, <1>2, <1>3, <1>4, <1>5, <1>6 DEF Next

\* The invariant holds of Emit, the dead-letter stream and its replay together.
THEOREM StreamsInvariant == Spec => []StInv
BY InitStInv, NextStInv, PTL DEF Spec

-----------------------------------------------------------------------------
(* What it says *)

\* The ids of the emits come from the generator, so they increase: the streams
\* use it as id.go lets them.
THEOREM EmitsMintInOrder == Spec => IdsIncrease
<1>1. Init => IdsInit
  BY DEF Init
<1>2. [Next]_stvars => [IdsNext]_idvars
  <2> SUFFICES ASSUME [Next]_stvars PROVE IdsNext \/ UNCHANGED <<lastMS, seq, minted>>
    OBVIOUS
  <2>1. ASSUME NEW e \in Emits, EmitNext(e) PROVE IdsNext \/ UNCHANGED <<lastMS, seq, minted>>
    BY <2>1 DEF EmitNext, EmitFails, PublishStops, EmitGiven, EmitMints, Publish, DeadLetter,
       IdsNext
  <2>2. CASE ReplayNext
    BY <2>2 DEF ReplayNext, BatchEnds, ReplayCrashes, Fetch, ReplayStored, NakRest, ReplayFails,
       ReplayAck
  <2> QED
    BY <2>1, <2>2 DEF Next, Arrive, Forget, AckWait, stvars
<1>3. Spec => IdsSpec
  BY <1>1, <1>2, PTL DEF Spec, IdsSpec
<1> QED
  BY <1>3, IdsAlwaysIncrease

\* An Emit that returned nil has its event in the stream, whatever was taken
\* for a duplicate on the way.
THEOREM NilAlwaysMeansStored == Spec => []NilMeansStored
<1>1. StInv => NilMeansStored
  <2> SUFFICES ASSUME StInv, NEW e \in Emits, at[e] = "nil"
               PROVE  \E f \in SameEvent(e) : copies[f] > 0
    BY DEF NilMeansStored, Stored
  <2>1. PICK f \in Emits : copies[f] > 0 /\ id[f] = id[e]
    BY DEF StInv, Nils
  <2>2. f = e \/ id[e] \in Given
    BY <2>1 DEF StInv, Identities
  <2> QED
    BY <2>1, <2>2 DEF SameEvent
<1> QED
  BY <1>1, StreamsInvariant, PTL

\* An event that is in the stream twice was published when its message id had
\* left the duplicate window, and not before.
THEOREM StoredOnceInWindow == Spec => []StoredOnce
<1>1. StInv => StoredOnce
  <2> SUFFICES ASSUME StInv, NEW e \in Emits, StoredAgain(SameEvent(e))
               PROVE  <<id[e], 0>> \in expired
    BY DEF StoredOnce
  <2>1. PICK m \in SameEvent(e), n \in SameEvent(e) :
           copies[m] > 0 /\ copies[n] > 0 /\ (m # n \/ copies[m] = Many)
    BY DEF StoredAgain
  <2>2. m \in Emits /\ n \in Emits /\ id[m] = id[e] /\ id[n] = id[e]
    BY DEF SameEvent
  <2>3. Key(m) = <<id[e], 0>> /\ Key(n) = <<id[e], 0>>
    BY <2>2 DEF Key, MsgId
  <2>4. Key(m) # NoMsgId
    BY <2>1, <2>2, KeyShape DEF StInv, Storage, Stores, All
  <2> QED
    BY <2>1, <2>2, <2>3, <2>4 DEF StInv, Storage, Twice, All
<1> QED
  BY <1>1, StreamsInvariant, PTL

\* Replay never advances past a record that is not in the target stream.
THEOREM AckedAlwaysReplayed == Spec => []AckedWasReplayed
<1>1. StInv => AckedWasReplayed
  BY DEF StInv, Letters
<1> QED
  BY <1>1, StreamsInvariant, PTL

\* A record that was replayed into the stream twice had no message id, or it had
\* left the duplicate window.
THEOREM ReplayedOnceInWindow == Spec => []ReplayedOnce
<1>1. StInv => ReplayedOnce
  <2> SUFFICES ASSUME StInv, NEW r \in 1 .. Len(dlq), copies[r] = Many,
                      dlq[r].known # "nothing"
               PROVE  \E i \in expired : i[2] = r
    BY DEF ReplayedOnce
  <2>1. r \in All /\ r \in Records
    BY StreamsAssumption DEF StInv, Types, All, Records
  <2>2. dlq[r] \in LetterSet
    BY DEF StInv, Types
  <2>3. PICK x : Key(r) = <<x, r>>
    BY <2>1, <2>2, StreamsAssumption DEF Key, ReplayId, LetterSet, Knowns
  <2>4. Key(r) # NoMsgId
    BY <2>1, <2>3 DEF NoMsgId, Records
  <2>5. Key(r) \in expired
    BY <2>1, <2>4 DEF StInv, Storage, Twice, Many
  <2> QED
    BY <2>3, <2>5
<1> QED
  BY <1>1, StreamsInvariant, PTL
=============================================================================
