---------------------------- MODULE RedisProofs ----------------------------
(***************************************************************************)
(* The two invokers that keep their state in Redis.                        *)
(*                                                                         *)
(* Idempotency: the protection of a key, for any number of invocations,    *)
(* any TTLs and any store that behaves as the Redis or the memory one.     *)
(* RateLimit: for any limits, any Period and any number of concurrent      *)
(* invocations, the script implements the token bucket, and the handlers   *)
(* run within what it gives out.                                           *)
(***************************************************************************)
EXTENDS Idempotency, RateLimit, FiniteSetTheorems, TLAPS

-----------------------------------------------------------------------------
(* Idempotency *)

\* The invariant holds at the start.
LEMMA InitIInv == Init => IInv
<1>. SUFFICES ASSUME Init PROVE IInv
  OBVIOUS
<1>1. TypeOK
  BY DEF Init, TypeOK, Records, NoRecord, Labels, Outs, Returned, Slips
<1>2. Complete = {} /\ Inside = {}
  BY DEF Init, Complete, Inside
<1>3. AtMostOnce /\ Protected /\ DuplicateIsHonest
  BY <1>2 DEF Init, AtMostOnce, Protected, DuplicateIsHonest
<1>. QED
  BY <1>1, <1>2, <1>3 DEF Init, IInv, NoRecord

\* Every step keeps the types.
LEMMA StepTypes == TypeOK /\ [Next]_vars => TypeOK'
<1>. SUFFICES ASSUME TypeOK, [Next]_vars PROVE TypeOK'
  OBVIOUS
<1>. USE DEF TypeOK, Records, NoRecord, Labels, Outs, Returned, Slips, Statuses,
             Goto, Return, Slip, Put, Lost, store
<1>1. ASSUME NEW r \in Runs, Get(r) PROVE TypeOK'
  BY <1>1 DEF Get
<1>2. ASSUME NEW r \in Runs, Decide(r) PROVE TypeOK'
  <2>1. started' \in [Runs -> Nat]
    BY <1>2 DEF Decide
  <2>2. slips' \in SUBSET Slips
    BY <1>2 DEF Decide
  <2>3. pc' \in [Runs -> Labels]
    BY <1>2 DEF Decide
  <2>4. out' \in [Runs -> Outs]
    BY <1>2 DEF Decide
  <2>. QED
    BY <1>2, <2>1, <2>2, <2>3, <2>4 DEF Decide
<1>3. ASSUME NEW r \in Runs, PutProcessing(r) PROVE TypeOK'
  <2>1. rec' \in Records /\ written' \in Nat
    BY <1>3 DEF PutProcessing
  <2>2. slips' \in SUBSET Slips
    BY <1>3 DEF PutProcessing
  <2>3. pc' \in [Runs -> Labels]
    BY <1>3 DEF PutProcessing
  <2>4. out' \in [Runs -> Outs]
    BY <1>3 DEF PutProcessing
  <2>. QED
    BY <1>3, <2>1, <2>2, <2>3, <2>4 DEF PutProcessing
<1>4. ASSUME NEW r \in Runs, NEW res \in Returned, Handle(r, res) PROVE TypeOK'
  BY <1>4 DEF Handle
<1>5. ASSUME NEW r \in Runs, HandlePanics(r) PROVE TypeOK'
  BY <1>5 DEF HandlePanics
<1>6. ASSUME NEW r \in Runs, PutFinal(r) PROVE TypeOK'
  <2>1. FinalStatus(out[r]) \in Statuses
    BY DEF FinalStatus
  <2>2. rec' \in Records /\ written' \in Nat
    BY <1>6, <2>1 DEF PutFinal
  <2>3. slips' \in SUBSET Slips
    BY <1>6 DEF PutFinal
  <2>. QED
    BY <1>6, <2>2, <2>3 DEF PutFinal
<1>7. ASSUME NEW r \in Runs, Crash(r) PROVE TypeOK'
  BY <1>7 DEF Crash
<1>8. CASE Expire
  BY <1>8 DEF Expire
<1>9. CASE Tick
  BY <1>9 DEF Tick
<1>10. CASE UNCHANGED vars
  BY <1>10 DEF vars
<1>. QED
  BY <1>1, <1>2, <1>3, <1>4, <1>5, <1>6, <1>7, <1>8, <1>9, <1>10 DEF Next

\* The rest of the invariant: what holds until something slips, and what the
\* completions and the acknowledged duplicates rest on.
Honest ==
    /\ DuplicateIsHonest
    /\ rec.status = "completed" => Complete # {}
    /\ \A r \in Runs : saw[r].status = "completed" => Complete # {}
    /\ \A r \in Complete : pc[r] \in {"finishing", "done"}
    /\ \A r \in Runs : pc[r] \in {"new", "looking", "marking", "handling"} => out[r] = "none"

\* The invariant is its named parts.
LEMMA IInvParts == IInv <=> TypeOK /\ AtMostOnce /\ Protected /\ Honest
BY DEF IInv, Honest

\* A completion is for ever: out is written once, and by its own invocation.
LEMMA StepHonest == IInv /\ [Next]_vars => Honest'
<1>. SUFFICES ASSUME IInv, [Next]_vars PROVE Honest'
  OBVIOUS
<1>. TypeOK /\ Honest
  BY IInvParts
<1>. USE DEF TypeOK, Honest, DuplicateIsHonest, Complete, Records, NoRecord, Returned,
             Goto, Return, Put, store
<1>1. ASSUME NEW r \in Runs, Get(r) PROVE Honest'
  <2>1. Complete' = Complete
    BY <1>1 DEF Get
  <2>2. rec'.status = "completed" => rec.status = "completed"
    BY <1>1 DEF Get
  <2>3. \A q \in Runs : saw'[q].status = "completed" => saw[q].status = "completed" \/ rec.status = "completed"
    BY <1>1 DEF Get
  <2>4. \A q \in Runs : out'[q] = "duplicate" => out[q] = "duplicate" \/ saw[q].status = "completed"
    BY <1>1 DEF Get
  <2>5. \A q \in Complete : pc'[q] \in {"finishing", "done"}
    BY <1>1 DEF Get
  <2>6. \A q \in Runs : pc'[q] \in {"new", "looking", "marking", "handling"} => out'[q] = "none"
    BY <1>1 DEF Get
  <2>. QED
    BY <2>1, <2>2, <2>3, <2>4, <2>5, <2>6
<1>2. ASSUME NEW r \in Runs, Decide(r) PROVE Honest'
  <2>1. Complete' = Complete
    BY <1>2 DEF Decide
  <2>2. rec'.status = "completed" => rec.status = "completed"
    BY <1>2 DEF Decide
  <2>3. \A q \in Runs : saw'[q].status = "completed" => saw[q].status = "completed" \/ rec.status = "completed"
    BY <1>2 DEF Decide
  <2>4. \A q \in Runs : out'[q] = "duplicate" => out[q] = "duplicate" \/ saw[q].status = "completed"
    BY <1>2 DEF Decide
  <2>5. \A q \in Complete : pc'[q] \in {"finishing", "done"}
    BY <1>2 DEF Decide
  <2>6. \A q \in Runs : pc'[q] \in {"new", "looking", "marking", "handling"} => out'[q] = "none"
    BY <1>2 DEF Decide
  <2>. QED
    BY <2>1, <2>2, <2>3, <2>4, <2>5, <2>6
<1>3. ASSUME NEW r \in Runs, PutProcessing(r) PROVE Honest'
  <2>1. Complete' = Complete
    BY <1>3 DEF PutProcessing
  <2>2. rec'.status = "completed" => rec.status = "completed"
    BY <1>3 DEF PutProcessing
  <2>3. \A q \in Runs : saw'[q].status = "completed" => saw[q].status = "completed" \/ rec.status = "completed"
    BY <1>3 DEF PutProcessing
  <2>4. \A q \in Runs : out'[q] = "duplicate" => out[q] = "duplicate" \/ saw[q].status = "completed"
    BY <1>3 DEF PutProcessing
  <2>5. \A q \in Complete : pc'[q] \in {"finishing", "done"}
    BY <1>3 DEF PutProcessing
  <2>6. \A q \in Runs : pc'[q] \in {"new", "looking", "marking", "handling"} => out'[q] = "none"
    BY <1>3 DEF PutProcessing
  <2>. QED
    BY <2>1, <2>2, <2>3, <2>4, <2>5, <2>6
<1>4. ASSUME NEW r \in Runs, NEW res \in Returned, Handle(r, res) PROVE Honest'
  BY <1>4 DEF Handle
<1>5. ASSUME NEW r \in Runs, HandlePanics(r) PROVE Honest'
  BY <1>5 DEF HandlePanics
<1>6. ASSUME NEW r \in Runs, PutFinal(r) PROVE Honest'
  <2>1. FinalStatus(out[r]) = "completed" <=> out[r] = "nil"
    BY DEF FinalStatus
  <2>. QED
    BY <1>6, <2>1 DEF PutFinal
<1>7. ASSUME NEW r \in Runs, Crash(r) PROVE Honest'
  BY <1>7 DEF Crash
<1>8. CASE Expire
  BY <1>8 DEF Expire
<1>9. CASE Tick
  BY <1>9 DEF Tick
<1>10. CASE UNCHANGED vars
  BY <1>10 DEF vars
<1>. QED
  BY <1>1, <1>2, <1>3, <1>4, <1>5, <1>6, <1>7, <1>8, <1>9, <1>10 DEF Next

\* The heart of the argument.  An invocation gets inside without a slip only
\* over a record that is neither a marker nor a completion; while someone is
\* inside, or done, the record is one of these.
LEMMA StepProtected == IInv /\ [Next]_vars => AtMostOnce' /\ Protected'
<1>. SUFFICES ASSUME IInv, [Next]_vars, slips' = {}
              PROVE  /\ \A q, r \in (Inside \cup Complete)' : q = r
                     /\ \A r \in Inside' : rec' = [status |-> "processing", started |-> started'[r]]
                     /\ \A r \in Complete' : pc'[r] = "done" => rec'.status = "completed"
                     /\ \A r \in Runs : pc'[r] = "marking" => saw'[r].status \notin {"processing", "completed"}
  BY DEF AtMostOnce, Protected
<1>. DEFINE Goal ==
         /\ \A q, r \in (Inside \cup Complete)' : q = r
         /\ \A r \in Inside' : rec' = [status |-> "processing", started |-> started'[r]]
         /\ \A r \in Complete' : pc'[r] = "done" => rec'.status = "completed"
         /\ \A r \in Runs : pc'[r] = "marking" => saw'[r].status \notin {"processing", "completed"}
<1>0. /\ TypeOK
      /\ slips = {}
      /\ \A q, r \in Inside \cup Complete : q = r
      /\ \A r \in Inside : rec = [status |-> "processing", started |-> started[r]]
      /\ \A r \in Complete : pc[r] = "done" => rec.status = "completed"
      /\ \A r \in Runs : pc[r] = "marking" => saw[r].status \notin {"processing", "completed"}
      /\ \A r \in Complete : pc[r] \in {"finishing", "done"}
      /\ \A r \in Runs : pc[r] \in {"new", "looking", "marking", "handling"} => out[r] = "none"
  <2>1. slips = {}
    BY DEF IInv, TypeOK, Next, vars, Get, Decide, PutProcessing, Handle, HandlePanics,
           PutFinal, Crash, Expire, Tick, Slip, Lost
  <2>. QED
    BY <2>1 DEF IInv, AtMostOnce, Protected
<1>. USE <1>0 DEF TypeOK, Inside, Complete, Goto, Return, store
<1>1. ASSUME NEW r \in Runs, Get(r) PROVE Goal
  BY <1>1 DEF Get
<1>2. ASSUME NEW r \in Runs, Decide(r) PROVE Goal
  BY <1>2 DEF Decide, Slip
<1>3. ASSUME NEW r \in Runs, PutProcessing(r) PROVE Goal
  <2>1. CASE /\ Put("processing", started[r])
             /\ IF rec # saw[r] THEN Slip("raced") ELSE UNCHANGED slips
    <3>1. rec = saw[r] /\ rec.status \notin {"processing", "completed"}
      BY <1>3, <2>1 DEF PutProcessing, Slip, Put
    <3>2. Inside \cup Complete = {}
      BY <3>1
    <3>3. (Inside \cup Complete)' \subseteq {r} /\ Complete' = {}
      BY <1>3, <3>2 DEF PutProcessing
    <3>. QED
      BY <1>3, <2>1, <3>2, <3>3 DEF PutProcessing, Put
  <2>2. CASE Return(r, "store_error") /\ UNCHANGED store
    <3>1. Inside' = Inside /\ Complete' = Complete
      BY <1>3, <2>2 DEF PutProcessing
    <3>. QED
      BY <1>3, <2>2, <3>1 DEF PutProcessing
  <2>. QED
    BY <1>3, <2>1, <2>2 DEF PutProcessing
<1>4. ASSUME NEW r \in Runs, NEW res \in Returned, Handle(r, res) PROVE Goal
  BY <1>4 DEF Handle
<1>5. ASSUME NEW r \in Runs, HandlePanics(r) PROVE Goal
  BY <1>5 DEF HandlePanics
<1>6. ASSUME NEW r \in Runs, PutFinal(r) PROVE Goal
  <2>1. r \in Inside /\ Inside' \subseteq Inside \ {r} /\ Complete' = Complete
    BY <1>6 DEF PutFinal
  <2>2. Inside' = {} /\ Complete' \subseteq {r}
    BY <2>1
  <2>3. ASSUME r \in Complete' PROVE rec'.status = "completed"
    <3>1. out[r] = "nil"
      BY <2>1, <2>3
    <3>. QED
      BY <1>6, <3>1 DEF PutFinal, Put, Lost, FinalStatus
  <2>4. \A q \in Runs : pc'[q] = "marking" => pc[q] = "marking" /\ saw'[q] = saw[q]
    BY <1>6 DEF PutFinal
  <2>5. \A q, t \in (Inside \cup Complete)' : q = t
    BY <2>2
  <2>6. \A q \in Complete' : pc'[q] = "done" => rec'.status = "completed"
    BY <2>2, <2>3
  <2>. QED
    BY <2>2, <2>4, <2>5, <2>6
<1>7. ASSUME NEW r \in Runs, Crash(r) PROVE Goal
  <2>1. out[r] # "nil"
    BY <1>7 DEF Crash, Lost
  <2>2. Inside' \subseteq Inside /\ Complete' = Complete
    BY <1>7 DEF Crash
  <2>3. UNCHANGED <<rec, saw, started>>
    BY <1>7 DEF Crash
  <2>4. \A q \in Runs : q # r => pc'[q] = pc[q]
    BY <1>7 DEF Crash
  <2>5. pc'[r] = "done" /\ r \notin Complete
    BY <1>7, <2>1 DEF Crash
  <2>6. \A q \in Complete' : pc'[q] = "done" => rec'.status = "completed"
    BY <2>2, <2>3, <2>4, <2>5
  <2>7. \A q \in Runs : pc'[q] = "marking" => saw'[q].status \notin {"processing", "completed"}
    BY <2>3, <2>4, <2>5
  <2>8. \A q, t \in (Inside \cup Complete)' : q = t
    BY <2>2
  <2>. QED
    BY <2>2, <2>3, <2>6, <2>7, <2>8
<1>8. CASE Expire
  BY <1>8 DEF Expire, Slip
<1>9. CASE Tick
  BY <1>9 DEF Tick
<1>10. CASE UNCHANGED vars
  BY <1>10 DEF vars
<1>. QED
  BY <1>1, <1>2, <1>3, <1>4, <1>5, <1>6, <1>7, <1>8, <1>9, <1>10 DEF Next

\* The invariant of Idempotency.Invoke is one, for every store and every number
\* of concurrent deliveries (invoker/idempotency.go:84-160).
THEOREM IdempotencyInvariant == Spec => []IInv
<1>1. IInv /\ [Next]_vars => IInv'
  BY StepTypes, StepHonest, StepProtected DEF IInv, Honest
<1>. QED
  BY InitIInv, <1>1, PTL DEF Spec

\* A handler is inside once and the work is done once, unless a slip the design
\* leaves open happened (invoker/idempotency.go:84-160).
THEOREM RunsAtMostOnce == Spec => []AtMostOnce
<1>1. IInv => AtMostOnce
  BY DEF IInv
<1>. QED
  BY IdempotencyInvariant, <1>1, PTL

\* A delivery acknowledged as a duplicate is one of work that was done, with no
\* exception for races, crashes, takeovers or expiry.
THEOREM DuplicatesAreDone == Spec => []DuplicateIsHonest
<1>1. IInv => DuplicateIsHonest
  BY DEF IInv
<1>. QED
  BY IdempotencyInvariant, <1>1, PTL

-----------------------------------------------------------------------------
(* RateLimit *)

(* Arithmetic: products of parameters, which the provers do not multiply out. *)

\* One more of the same adds it once.
LEMMA TimesSucc ==
    ASSUME NEW a \in Int, NEW b \in Int
    PROVE  a * b \in Int /\ (a + 1) * b = a * b + b
OBVIOUS

\* A larger factor gives a larger product.
LEMMA TimesMonotonic ==
    ASSUME NEW a \in Int, NEW b \in Int, NEW c \in Nat, a <= b
    PROVE  a * c \in Int /\ b * c \in Int /\ a * c <= b * c
OBVIOUS

\* A product distributes over a difference.
LEMMA TimesMinus ==
    ASSUME NEW a \in Int, NEW b \in Int, NEW c \in Int
    PROVE  (a - b) * c = a * c - b * c
OBVIOUS

\* Products of naturals are naturals, in either order.
LEMMA TimesNat ==
    ASSUME NEW a \in Nat, NEW b \in Nat
    PROVE  a * b \in Nat /\ b * a = a * b
OBVIOUS

-----------------------------------------------------------------------------
(* The bucket *)

\* The hash that Save leaves: stamped now or earlier, kept for one Period, and
\* no fuller than the bucket.
Stamped ==
    hash # Absent =>
        /\ hash.ts <= clock /\ clock <= hash.expires
        /\ hash.expires = hash.ts + Period
        /\ hash.tokens <= Full(limit)

\* Rate, burst and Period are positive, so a full bucket holds a token at least.
LEMMA LimitType ==
    ASSUME RLTypeOK
    PROVE  /\ limit.rate \in Nat \ {0} /\ limit.burst \in Nat \ {0}
           /\ Period \in Nat \ {0} /\ Full(limit) \in Nat
           /\ Period <= Full(limit)
<1>1. limit.rate \in Nat \ {0} /\ limit.burst \in Nat \ {0} /\ Period \in Nat \ {0}
  BY RateLimitAssumption DEF RLTypeOK, Limits
<1>2. 1 * Period <= limit.burst * Period
  BY <1>1, TimesMonotonic
<1> QED
  BY <1>1, <1>2, TimesNat DEF Full

\* On a clock that does not step back the stamp of a key is in the past.
LEMMA ElapsedSince ==
    ASSUME RLTypeOK, Stamped, hash # Absent
    PROVE  Elapsed = clock - hash.ts
BY DEF RLTypeOK, Hashes, Stamped, Elapsed

\* What the bucket holds is a number of parts that fits it.
LEMMA LevelType ==
    ASSUME RLTypeOK, Stamped
    PROVE  Level \in Nat /\ Level <= Full(limit)
<1>1. CASE hash = Absent
  BY <1>1, LimitType DEF Level
<1>2. CASE hash # Absent
  <2>1. hash.tokens \in Nat /\ hash.ts \in Nat /\ clock \in Nat /\ clock - hash.ts \in Nat
    BY <1>2 DEF RLTypeOK, Hashes, Stamped
  <2>2. (clock - hash.ts) * limit.rate \in Nat
    BY <2>1, LimitType, TimesNat
  <2> QED
    BY <1>2, <2>1, <2>2, LimitType, ElapsedSince DEF Level, Lesser
<1> QED
  BY <1>1, <1>2

\* HMSET and PEXPIRE: the level read back at the same instant is the one written.
LEMMA SaveLevel ==
    ASSUME RLTypeOK, Stamped, NEW parts \in Nat, parts <= Full(limit), Save(parts),
           UNCHANGED <<limit, clock>>
    PROVE  /\ hash' \in Hashes \cup {Absent}
           /\ Stamped'
           /\ Level' = parts
<1>1. /\ hash' = [tokens |-> parts, ts |-> clock, expires |-> clock + Period]
      /\ clock \in Nat /\ clock + Period \in Nat
  BY LimitType DEF Save, RLTypeOK
<1>2. hash' \in Hashes
  BY <1>1 DEF Hashes
<1>3. hash' # Absent
  BY <1>2, RateLimitAssumption
<1>4. (hash'.tokens + Elapsed' * limit'.rate) = parts
  <2>1. hash'.tokens = parts /\ Elapsed' = 0 /\ limit'.rate = limit.rate
    BY <1>1 DEF Elapsed
  <2>2. 0 * limit.rate = 0
    BY LimitType
  <2> QED
    BY <2>1, <2>2
<1>5. Stamped'
  BY <1>1, LimitType DEF Stamped, Full
<1> QED
  BY <1>2, <1>3, <1>4, <1>5, LimitType DEF Level, Lesser, Full

\* One instant later, while the key lives: the level has grown by Rate parts, or
\* is full.
LEMMA TickLevel ==
    ASSUME RLTypeOK, Stamped, clock' = clock + 1, UNCHANGED <<limit, hash>>,
           hash # Absent => clock + 1 <= hash.expires
    PROVE  Stamped' /\ Level' = Lesser(Full(limit), Level + limit.rate)
<1>1. CASE hash = Absent
  BY <1>1, LimitType DEF Level, Lesser, Stamped
<1>2. CASE hash # Absent
  <2> DEFINE gain == (clock - hash.ts) * limit.rate
  <2>1. hash.tokens \in Nat /\ hash.ts \in Nat /\ clock \in Nat /\ hash.expires \in Nat
    BY <1>2 DEF RLTypeOK, Hashes
  <2>2. gain \in Int /\ (clock' - hash'.ts) * limit'.rate = gain + limit.rate
    <3>1. clock' - hash'.ts = (clock - hash.ts) + 1 /\ clock - hash.ts \in Int
      BY <2>1
    <3> QED
      BY <3>1, TimesSucc, LimitType
  <2>3. Elapsed' = clock' - hash'.ts
    BY <1>2, <2>1 DEF Elapsed, Stamped
  <2>4. Level' = Lesser(Full(limit), hash.tokens + (gain + limit.rate))
    BY <1>2, <2>2, <2>3 DEF Level, Full
  <2>5. Level = Lesser(Full(limit), hash.tokens + gain)
    BY <1>2, ElapsedSince DEF Level
  <2> HIDE DEF gain
  <2>6. Level' = Lesser(Full(limit), Level + limit.rate)
    BY <2>1, <2>2, <2>4, <2>5, LimitType DEF Lesser
  <2> QED
    BY <2>1, <2>6 DEF Stamped
<1> QED
  BY <1>1, <1>2

\* A key lives for one Period, which brings Rate tokens: when it expires, the
\* bucket lacks at most Burst - Rate of them, and nothing when Burst <= Rate.
LEMMA ExpiredLevel ==
    ASSUME RLTypeOK, Stamped, hash # Absent, clock + 1 > hash.expires
    PROVE  /\ Full(limit) - Level <= (limit.burst - limit.rate) * Period
              \/ Level = Full(limit)
           /\ limit.burst <= limit.rate => Level = Full(limit)
<1>1. hash.tokens \in Nat /\ hash.ts \in Nat /\ clock \in Nat /\ hash.expires \in Nat
  BY DEF RLTypeOK, Hashes
<1>2. clock - hash.ts = Period
  BY <1>1, LimitType DEF Stamped
<1>3. Level = Lesser(Full(limit), hash.tokens + Period * limit.rate)
  BY <1>2, ElapsedSince DEF Level
<1>4. (limit.burst - limit.rate) * Period = Full(limit) - limit.rate * Period
  BY LimitType, TimesMinus DEF Full
<1>5. Period * limit.rate = limit.rate * Period /\ limit.rate * Period \in Nat
  BY LimitType, TimesNat
<1>6. limit.burst <= limit.rate => Full(limit) <= limit.rate * Period
  BY LimitType, TimesMonotonic DEF Full
<1> QED
  BY <1>1, <1>3, <1>4, <1>5, <1>6, LimitType DEF Lesser

-----------------------------------------------------------------------------
(* The inductive invariant *)

Holders == {c \in Calls : stage[c] = "allowed"}

\* What expired buckets were worth beyond what a Period brings.
Credit == forgotten * (limit.burst - limit.rate) * Period

\* Every handler that ran used up an answer of its own.
AnswersCover ==
    /\ IsFiniteSet(Holders)
    /\ runs + Cardinality(Holders) <= allowed

\* RunsWithinRate for the answers the script gave, which the lost ones are
\* among, instead of the handlers that ran: this one is inductive.
AllowedWithinRate ==
    /\ allowed * Period + Level <= Full(limit) + clock * limit.rate + Credit
    /\ limit.burst <= limit.rate => forgotten = 0

\* A call that has not started sent nothing, so its first script is within bounds.
NewUnsent == \A c \in Calls : stage[c] = "new" => sends[c] = 0

RLInv == RLTypeOK /\ NewUnsent /\ Stamped /\ AnswersCover /\ AllowedWithinRate

\* Nothing was given out, and the bucket is full.
LEMMA InitRLInv == RLInit => RLInv
<1> SUFFICES ASSUME RLInit PROVE RLInv
  OBVIOUS
<1>1. RLTypeOK /\ Stamped /\ NewUnsent
  BY RateLimitAssumption DEF RLInit, RLTypeOK, Stamped, Where, NewUnsent
<1>2. Holders = {}
  BY DEF RLInit, Holders
<1>3. AnswersCover
  BY <1>2, FS_EmptySet DEF RLInit, AnswersCover
<1>4. AllowedWithinRate
  <2>1. Level = Full(limit) /\ allowed = 0 /\ clock = 0 /\ forgotten = 0
    BY DEF RLInit, Level
  <2>2. 0 * Period = 0 /\ 0 * limit.rate = 0 /\ 0 * (limit.burst - limit.rate) = 0
    BY <1>1, LimitType
  <2> QED
    BY <1>1, <2>1, <2>2, LimitType DEF AllowedWithinRate, Credit
<1> QED
  BY <1>1, <1>3, <1>4 DEF RLInv

\* The quantities of the invariant are integers.
LEMMA Quantities ==
    ASSUME RLTypeOK
    PROVE  /\ allowed * Period \in Nat /\ clock * limit.rate \in Nat
           /\ Credit \in Int /\ limit.burst - limit.rate \in Int
           /\ runs \in Nat /\ allowed \in Nat /\ clock \in Nat /\ forgotten \in Nat
<1>1. /\ runs \in Nat /\ allowed \in Nat /\ clock \in Nat /\ forgotten \in Nat
      /\ limit.burst - limit.rate \in Int
  BY LimitType DEF RLTypeOK
<1>2. forgotten * (limit.burst - limit.rate) \in Int
  BY <1>1, TimesSucc
<1>3. Credit \in Int
  BY <1>2, LimitType, TimesSucc DEF Credit
<1> QED
  BY <1>1, <1>3, LimitType, TimesNat

\* A call that gives up its answer, to run or not, leaves one holder less.
LEMMA HolderLeaves ==
    ASSUME RLTypeOK, AnswersCover, NEW c \in Calls, NEW l \in Where \ {"allowed"},
           stage' = [stage EXCEPT ![c] = l]
    PROVE  /\ IsFiniteSet(Holders') /\ Cardinality(Holders) \in Nat
           /\ Cardinality(Holders') \in Nat
           /\ Cardinality(Holders') = IF stage[c] = "allowed" THEN Cardinality(Holders) - 1
                                                           ELSE Cardinality(Holders)
<1>1. Holders' = Holders \ {c}
  BY DEF Holders, RLTypeOK
<1>2. c \in Holders <=> stage[c] = "allowed"
  BY DEF Holders
<1> QED
  BY <1>1, <1>2, FS_RemoveElement, FS_CardinalityType DEF AnswersCover

\* Actions of a call that do not reach the store leave the bucket as it is.
LEMMA StoreUntouched ==
    ASSUME RLInv, UNCHANGED <<limit, hash, clock, allowed, forgotten>>
    PROVE  Stamped' /\ AllowedWithinRate' /\ Level' = Level
BY DEF RLInv, Stamped, AllowedWithinRate, Level, Elapsed, Credit, Full, Lesser

\* Unkeyed, Send, Resend, StoreError and Conclude: no answer is made, and none is
\* used twice.
LEMMA CallStep ==
    ASSUME RLInv, NEW c \in Calls,
           Unkeyed(c) \/ Send(c) \/ Resend(c) \/ StoreError(c) \/ Conclude(c)
    PROVE  RLInv' /\ Level' = Level
<1>1. UNCHANGED <<limit, hash, clock, allowed, denied, forgotten>>
  BY DEF Unkeyed, Send, Resend, StoreError, Conclude
<1>2. PICK l \in Where \ {"allowed"} : stage' = [stage EXCEPT ![c] = l]
  BY DEF Unkeyed, Send, Resend, StoreError, Conclude, Moves, Where
<1>3. stage' \in [Calls -> Where]
  BY <1>2 DEF RLInv, RLTypeOK
<1>4. sends' \in [Calls -> 0 .. MaxSends] /\ NewUnsent'
  <2>1. CASE Send(c)
    BY <2>1, RateLimitAssumption DEF RLInv, RLTypeOK, NewUnsent, Send, Moves
  <2>2. CASE Resend(c)
    BY <2>2, RateLimitAssumption DEF RLInv, RLTypeOK, NewUnsent, Resend, Moves
  <2>3. CASE Unkeyed(c) \/ StoreError(c) \/ Conclude(c)
    BY <2>3 DEF RLInv, RLTypeOK, NewUnsent, Unkeyed, StoreError, Conclude, Moves
  <2> QED
    BY <2>1, <2>2, <2>3
<1>5. /\ runs' = IF Conclude(c) /\ stage[c] = "allowed" THEN runs + 1 ELSE runs
      /\ runs \in Nat /\ allowed \in Nat
  BY DEF Unkeyed, Send, Resend, StoreError, Conclude, RLInv, RLTypeOK
<1>6. RLTypeOK'
  BY <1>1, <1>3, <1>4, <1>5 DEF RLInv, RLTypeOK
<1>7. AnswersCover'
  <2>1. /\ IsFiniteSet(Holders') /\ Cardinality(Holders) \in Nat
        /\ Cardinality(Holders') \in Nat
        /\ Cardinality(Holders') = IF stage[c] = "allowed" THEN Cardinality(Holders) - 1
                                                        ELSE Cardinality(Holders)
    BY <1>2, HolderLeaves DEF RLInv
  <2> QED
    BY <1>1, <1>5, <2>1 DEF RLInv, AnswersCover
<1> QED
  BY <1>1, <1>4, <1>6, <1>7, StoreUntouched DEF RLInv

\* The script allows: the token it takes from the bucket is the one it gives out.
LEMMA AllowStep ==
    ASSUME RLInv, NEW c \in Calls, Script(c), ScriptAllows(c)
    PROVE  RLInv' /\ Level' = Level - Period
<1>1. /\ Level \in Nat /\ Level <= Full(limit) /\ Level - Period \in Nat
      /\ Level - Period <= Full(limit)
  BY LevelType, LimitType DEF RLInv, ScriptAllows
<1>2. UNCHANGED <<limit, clock, sends, runs, forgotten, denied>> /\ stage[c] = "sent"
  BY DEF Script, ScriptAllows
<1>3. hash' \in Hashes \cup {Absent} /\ Stamped' /\ Level' = Level - Period
  BY <1>1, <1>2, SaveLevel DEF RLInv, ScriptAllows
<1>4. RLTypeOK' /\ NewUnsent'
  BY <1>2, <1>3 DEF RLInv, RLTypeOK, NewUnsent, ScriptAllows, Where
<1>5. AnswersCover'
  <2>1. Holders' = Holders \cup {c} /\ c \notin Holders
    BY <1>2 DEF RLInv, RLTypeOK, Holders, ScriptAllows
  <2>2. /\ IsFiniteSet(Holders') /\ Cardinality(Holders') = Cardinality(Holders) + 1
        /\ Cardinality(Holders) \in Nat
    BY <2>1, FS_AddElement, FS_CardinalityType DEF RLInv, AnswersCover
  <2> QED
    BY <1>2, <2>2, Quantities DEF RLInv, AnswersCover, ScriptAllows
<1>6. AllowedWithinRate'
  <2>1. allowed' * Period = allowed * Period + Period
    BY Quantities, LimitType, TimesSucc DEF RLInv, ScriptAllows
  <2>2. Full(limit)' = Full(limit) /\ Credit' = Credit /\ (clock * limit.rate)' = clock * limit.rate
    BY <1>2 DEF Full, Credit
  <2> QED
    BY <1>1, <1>2, <1>3, <2>1, <2>2, Quantities, LimitType DEF RLInv, AllowedWithinRate
<1> QED
  BY <1>3, <1>4, <1>5, <1>6 DEF RLInv

\* The script denies: what it writes back is what the bucket holds.
LEMMA DenyStep ==
    ASSUME RLInv, NEW c \in Calls, Script(c), ScriptDenies(c)
    PROVE  RLInv' /\ Level' = Level
<1>1. Level \in Nat /\ Level <= Full(limit)
  BY LevelType DEF RLInv
<1>2. UNCHANGED <<limit, clock, sends, runs, forgotten, allowed>> /\ stage[c] = "sent"
  BY DEF Script, ScriptDenies
<1>3. hash' \in Hashes \cup {Absent} /\ Stamped' /\ Level' = Level
  BY <1>1, <1>2, SaveLevel DEF RLInv, ScriptDenies
<1>4. RLTypeOK' /\ NewUnsent'
  BY <1>2, <1>3 DEF RLInv, RLTypeOK, NewUnsent, ScriptDenies, Where
<1>5. AnswersCover'
  <2>1. Holders' = Holders
    BY <1>2 DEF RLInv, RLTypeOK, Holders, ScriptDenies
  <2> QED
    BY <1>2, <2>1 DEF RLInv, AnswersCover
<1>6. AllowedWithinRate'
  BY <1>2, <1>3 DEF RLInv, AllowedWithinRate, Credit, Full
<1> QED
  BY <1>3, <1>4, <1>5, <1>6 DEF RLInv

\* An instant passes.  The bucket gains Rate parts; a key that expires is a full
\* bucket, and when it was not full Burst exceeds Rate and Credit pays for it.
LEMMA TickStep ==
    ASSUME RLInv, Passes
    PROVE  /\ RLInv'
           /\ \/ Level' = Lesser(Full(limit), Level + limit.rate)
              \/ Level' = Full(limit) /\ limit.burst > limit.rate
<1> DEFINE expired == hash # Absent /\ clock + 1 > hash.expires
           lost == expired /\ Level + limit.rate < Full(limit)
<1>1. /\ clock' = clock + 1
      /\ hash' = IF expired THEN Absent ELSE hash
      /\ forgotten' = IF lost THEN forgotten + 1 ELSE forgotten
      /\ UNCHANGED <<limit, stage, sends, allowed, denied, runs>>
  BY DEF Passes
<1>2. Level \in Nat /\ Level <= Full(limit)
  BY LevelType DEF RLInv
<1>3. RLTypeOK' /\ NewUnsent'
  BY <1>1 DEF RLInv, RLTypeOK, NewUnsent
<1>4. AnswersCover'
  BY <1>1 DEF RLInv, AnswersCover, Holders
<1>5. /\ (clock * limit.rate)' = clock * limit.rate + limit.rate
      /\ (allowed * Period)' = allowed * Period /\ Full(limit)' = Full(limit)
  <2>1. clock \in Int /\ limit.rate \in Int
    BY Quantities, LimitType DEF RLInv
  <2>2. (clock + 1) * limit.rate = clock * limit.rate + limit.rate
    BY <2>1, TimesSucc
  <2> QED
    BY <1>1, <2>2 DEF Full
<1>6. CASE ~expired
  <2>1. hash # Absent => clock + 1 <= hash.expires
    BY <1>6, Quantities DEF RLInv, RLTypeOK, Hashes
  <2>2. Stamped' /\ Level' = Lesser(Full(limit), Level + limit.rate)
    BY <1>1, <1>6, <2>1, TickLevel DEF RLInv
  <2>3. Credit' = Credit /\ forgotten' = forgotten
    BY <1>1, <1>6 DEF Credit
  <2>4. Level' <= Level + limit.rate /\ Level' \in Nat
    BY <1>2, <2>2, LimitType DEF RLInv, Lesser
  <2>5. AllowedWithinRate'
    BY <1>1, <1>2, <1>5, <2>3, <2>4, Quantities, LimitType DEF RLInv, AllowedWithinRate
  <2> QED
    BY <1>3, <1>4, <2>2, <2>5 DEF RLInv
<1>7. CASE expired
  <2>1. Stamped' /\ Level' = Full(limit)
    BY <1>1, <1>7 DEF Stamped, Level, Full
  <2>2. /\ Full(limit) - Level <= (limit.burst - limit.rate) * Period
           \/ Level = Full(limit)
        /\ limit.burst <= limit.rate => Level = Full(limit)
    BY <1>7, ExpiredLevel DEF RLInv
  <2>3. CASE ~lost
    <3>1. Credit' = Credit /\ forgotten' = forgotten
      BY <1>1, <2>3 DEF Credit
    <3>2. Full(limit) <= Level + limit.rate
      BY <1>2, <1>7, <2>3, LimitType DEF RLInv
    <3>3. AllowedWithinRate'
      BY <1>1, <1>2, <1>5, <2>1, <3>1, <3>2, Quantities, LimitType
      DEF RLInv, AllowedWithinRate
    <3>4. Level' = Lesser(Full(limit), Level + limit.rate)
      BY <1>2, <2>1, <3>2, LimitType DEF RLInv, Lesser
    <3> QED
      BY <1>3, <1>4, <2>1, <3>3, <3>4 DEF RLInv
  <2>4. CASE lost
    <3> DEFINE excess == limit.burst - limit.rate
    <3>1. excess \in Int /\ limit.burst > limit.rate
      BY <1>2, <2>2, <2>4, LimitType DEF RLInv
    <3>2. Credit' = Credit + excess * Period /\ excess * Period \in Int
      <4> HIDE DEF excess
      <4>1. (forgotten + 1) * excess = forgotten * excess + excess /\ forgotten * excess \in Int
        BY <3>1, Quantities, TimesSucc DEF RLInv
      <4>2. (forgotten * excess + excess) * Period
              = (forgotten * excess) * Period + excess * Period
        BY <3>1, <4>1, LimitType DEF RLInv
      <4>3. excess * Period \in Int
        BY <3>1, LimitType, TimesSucc DEF RLInv
      <4> QED
        BY <1>1, <2>4, <4>1, <4>2, <4>3 DEF RLInv, Credit, excess
    <3>3. Full(limit) - Level <= excess * Period
      BY <1>2, <2>2, <2>4, LimitType DEF RLInv
    <3>4. AllowedWithinRate'
      <4> HIDE DEF excess
      <4> QED
        BY <1>1, <1>2, <1>5, <2>1, <3>1, <3>2, <3>3, Quantities, LimitType
        DEF RLInv, AllowedWithinRate
    <3> QED
      BY <1>3, <1>4, <2>1, <3>1, <3>4 DEF RLInv
  <2> QED
    BY <2>3, <2>4
<1> QED
  BY <1>6, <1>7

\* A step that changes nothing keeps everything.
LEMMA StutterStep ==
    ASSUME RLInv, UNCHANGED rlvars
    PROVE  RLInv' /\ Level' = Level
BY DEF rlvars, RLInv, RLTypeOK, NewUnsent, Stamped, AnswersCover, Holders,
       AllowedWithinRate, Credit, Level, Elapsed, Full, Lesser

\* Every step of the system keeps the invariant.
LEMMA NextRLInv == RLInv /\ [RLNext]_rlvars => RLInv'
<1> SUFFICES ASSUME RLInv, [RLNext]_rlvars PROVE RLInv'
  OBVIOUS
<1>1. CASE UNCHANGED rlvars
  BY <1>1, StutterStep
<1>2. CASE Passes
  BY <1>2, TickStep
<1>3. ASSUME NEW c \in Calls,
             Unkeyed(c) \/ Send(c) \/ Script(c) \/ Resend(c) \/ StoreError(c) \/ Conclude(c)
      PROVE  RLInv'
  <2>1. CASE Script(c)
    BY <2>1, AllowStep, DenyStep DEF Script
  <2> QED
    BY <1>3, <2>1, CallStep
<1> QED
  BY <1>1, <1>2, <1>3 DEF RLNext

-----------------------------------------------------------------------------
(* The theorems *)

\* The variables keep their types: no bucket is ever below zero or above Burst.
THEOREM RateLimitInvariant == RLSpec => []RLInv
BY InitRLInv, NextRLInv, PTL DEF RLSpec

\* However many invocations race for one key, whatever answers are lost and how
\* often scripts are sent again, the handlers that run stay within the burst and
\* the rate, for every limit (invoker/rate-limit.go over redis/rate-limit.go).
THEOREM RunsAreWithinRate == RLSpec => []RunsWithinRate
<1>1. RLInv => RunsWithinRate
  <2> SUFFICES ASSUME RLInv PROVE RunsWithinRate
    OBVIOUS
  <2>1. Cardinality(Holders) \in Nat
    BY FS_CardinalityType DEF RLInv, AnswersCover
  <2>2. runs <= allowed
    BY <2>1, Quantities DEF RLInv, AnswersCover
  <2>3. runs * Period \in Int /\ runs * Period <= allowed * Period
    BY <2>2, Quantities, LimitType, TimesMonotonic DEF RLInv
  <2> QED
    BY <2>3, Quantities, LimitType, LevelType DEF RLInv, AllowedWithinRate, RunsWithinRate, Credit
<1> QED
  BY <1>1, RateLimitInvariant, PTL

\* The Redis script, with its lazily refilled hash and its expiring key, does
\* exactly what a token bucket does: a call of the script is an Allow or a Deny,
\* an instant is a Fill, an expiry that comes too early a Forget.
THEOREM RedisImplementsTokenBucket == RLSpec => TokenBucketSpec
<1>1. RLInit => Bucket!Init
  BY DEF RLInit, Bucket!Init, Level, Full, Bucket!Full
<1>2. RLInv /\ [RLNext]_rlvars => [Bucket!Next]_Bucket!bvars
  <2> SUFFICES ASSUME RLInv, [RLNext]_rlvars PROVE [Bucket!Next]_Bucket!bvars
    OBVIOUS
  <2>1. CASE UNCHANGED rlvars
    BY <2>1, StutterStep DEF rlvars, Bucket!bvars
  <2>2. CASE Passes
    <3>1. UNCHANGED <<limit, allowed, denied>>
      BY <2>2 DEF Passes
    <3> QED
      BY <2>2, <3>1, TickStep DEF Bucket!Next, Bucket!Fill, Bucket!Forget, Lesser,
         Bucket!Lesser, Full, Bucket!Full
  <2>3. ASSUME NEW c \in Calls,
               Unkeyed(c) \/ Send(c) \/ Script(c) \/ Resend(c) \/ StoreError(c) \/ Conclude(c)
        PROVE  [Bucket!Next]_Bucket!bvars
    <3>1. CASE Script(c) /\ ScriptAllows(c)
      <4>1. Bucket!Allow
        BY <3>1, AllowStep DEF Script, ScriptAllows, Bucket!Allow
      <4> QED
        BY <4>1 DEF Bucket!Next
    <3>2. CASE Script(c) /\ ScriptDenies(c)
      <4>1. Bucket!Deny
        BY <3>2, DenyStep DEF Script, ScriptDenies, Bucket!Deny
      <4> QED
        BY <4>1 DEF Bucket!Next
    <3>3. CASE Unkeyed(c) \/ Send(c) \/ Resend(c) \/ StoreError(c) \/ Conclude(c)
      <4>1. UNCHANGED <<limit, allowed, denied>>
        BY <3>3 DEF Unkeyed, Send, Resend, StoreError, Conclude
      <4> QED
        BY <3>3, <4>1, CallStep DEF Bucket!bvars
    <3> QED
      BY <2>3, <3>1, <3>2, <3>3 DEF Script
  <2> QED
    BY <2>1, <2>2, <2>3 DEF RLNext
<1> QED
  BY <1>1, <1>2, RateLimitInvariant, PTL DEF RLSpec, TokenBucketSpec, Bucket!Spec
=============================================================================
