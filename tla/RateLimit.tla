----------------------------- MODULE RateLimit -----------------------------
(***************************************************************************)
(* invoker/rate-limit.go over redis/rate-limit.go: concurrent invocations  *)
(* of events that share one key.  The script is atomic in Redis; its       *)
(* answer may be lost on the way back, and the client may send it again.   *)
(*                                                                         *)
(* Tokens are counted in parts, Period parts to a token: the script counts *)
(* in floating point, refill = delta * rate / period.                      *)
(***************************************************************************)
EXTENDS Integers, FiniteSets

CONSTANTS Calls,     \* invocations
          Configs,   \* the limits considered: records of rate and burst
          Period,
          Absent,    \* no key in the store
          MaxClock,  \* bound: the last instant of the clock
          MaxSends   \* bound: how often the client sends one script

Limits == [rate : Nat \ {0}, burst : Nat \ {0}]
Hashes == [tokens : Nat, ts : Nat, expires : Nat]

ASSUME RateLimitAssumption ==
    /\ Configs \subseteq Limits /\ Period \in Nat \ {0}
    /\ MaxClock \in Nat /\ MaxSends \in Nat \ {0}
    /\ Absent \notin Hashes

VARIABLES
    limit,           \* RateLimitConfig
    hash,            \* the hash of the key
    clock,           \* the clock of Redis
    stage, sends,    \* where an invocation is, and the scripts it sent
    allowed, denied, \* history: the answers the script gave
    runs,            \* history: handlers that ran
    forgotten        \* history: expiries of a key whose bucket was not full

rlvars == <<limit, hash, clock, stage, sends, allowed, denied, runs, forgotten>>

Where == {"new", "sent", "allowed", "denied", "error", "limited", "ran", "free"}

RLTypeOK ==
    /\ limit \in Configs
    /\ hash \in Hashes \cup {Absent}
    /\ clock \in Nat
    /\ stage \in [Calls -> Where] /\ sends \in [Calls -> 0 .. MaxSends]
    /\ allowed \in Nat /\ denied \in Nat /\ runs \in Nat /\ forgotten \in Nat

RLInit ==
    /\ limit \in Configs
    /\ hash = Absent
    /\ clock = 0
    /\ stage = [c \in Calls |-> "new"] /\ sends = [c \in Calls |-> 0]
    /\ allowed = 0 /\ denied = 0 /\ runs = 0 /\ forgotten = 0

-----------------------------------------------------------------------------
(* The script *)

Lesser(m, n) == IF m < n THEN m ELSE n
Full(l) == l.burst * Period

\* math.max(0, now - ts): a key stamped in the future has earned nothing.
Elapsed == IF clock < hash.ts THEN 0 ELSE clock - hash.ts

\* What the bucket holds at this instant; a key that is missing is a full one.
Level ==
    IF hash = Absent THEN Full(limit)
    ELSE Lesser(Full(limit), hash.tokens + Elapsed * limit.rate)

\* Mutant of Save: the instant of an earlier call stays, and the time since
\* then is paid out again.
SaveOldInstant(parts) ==
    hash' = [tokens |-> parts, expires |-> clock + Period,
             ts |-> IF hash = Absent THEN clock ELSE hash.ts]

\* HMSET and PEXPIRE, on both branches.
Save(parts) == hash' = [tokens |-> parts, ts |-> clock, expires |-> clock + Period]

ScriptAllows(c) ==
    /\ Level >= Period
    /\ Save(Level - Period)
    /\ allowed' = allowed + 1
    /\ stage' = [stage EXCEPT ![c] = "allowed"]
    /\ UNCHANGED denied

ScriptDenies(c) ==
    /\ Level < Period
    /\ Save(Level)
    /\ denied' = denied + 1
    /\ stage' = [stage EXCEPT ![c] = "denied"]
    /\ UNCHANGED allowed

Script(c) ==
    /\ stage[c] = "sent"
    /\ ScriptAllows(c) \/ ScriptDenies(c)
    /\ UNCHANGED <<limit, clock, sends, runs, forgotten>>

\* Time passes, and the key expires a Period after the last call.
Passes ==
    LET expired == hash # Absent /\ clock + 1 > hash.expires
    IN  /\ clock < MaxClock
        /\ clock' = clock + 1
        /\ hash' = IF expired THEN Absent ELSE hash
        /\ forgotten' = IF expired /\ Level + limit.rate < Full(limit)
                          THEN forgotten + 1 ELSE forgotten
        /\ UNCHANGED <<limit, stage, sends, allowed, denied, runs>>

-----------------------------------------------------------------------------
(* RateLimiter.Invoke and RateLimitStore.Allow *)

Moves(c, l) == stage' = [stage EXCEPT ![c] = l]

\* An event without a key is not limited.
Unkeyed(c) ==
    /\ stage[c] = "new"
    /\ Moves(c, "free")
    /\ UNCHANGED <<limit, hash, clock, sends, allowed, denied, runs, forgotten>>

Send(c) ==
    /\ stage[c] = "new"
    /\ Moves(c, "sent")
    /\ sends' = [sends EXCEPT ![c] = @ + 1]
    /\ UNCHANGED <<limit, hash, clock, allowed, denied, runs, forgotten>>

\* The request or the answer is lost: the client sends the script again.
Resend(c) ==
    /\ stage[c] \in {"sent", "allowed", "denied"} /\ sends[c] < MaxSends
    /\ Moves(c, "sent")
    /\ sends' = [sends EXCEPT ![c] = @ + 1]
    /\ UNCHANGED <<limit, hash, clock, allowed, denied, runs, forgotten>>

\* Allow fails, whether or not the script ran: the error is returned, reported
\* as a StoreError, and the handler does not run.
StoreError(c) ==
    /\ stage[c] \in {"sent", "allowed", "denied"}
    /\ Moves(c, "error")
    /\ UNCHANGED <<limit, hash, clock, sends, allowed, denied, runs, forgotten>>

\* Mutant of Conclude: a store that fails lets the event through.
ConcludeFailOpen(c) ==
    /\ stage[c] \in {"allowed", "denied", "error"}
    /\ Moves(c, IF stage[c] = "denied" THEN "limited" ELSE "ran")
    /\ runs' = IF stage[c] = "denied" THEN runs ELSE runs + 1
    /\ UNCHANGED <<limit, hash, clock, sends, allowed, denied, forgotten>>

\* The answer of the store: run the handler, or ErrRateLimited.
Conclude(c) ==
    /\ stage[c] \in {"allowed", "denied"}
    /\ Moves(c, IF stage[c] = "allowed" THEN "ran" ELSE "limited")
    /\ runs' = IF stage[c] = "allowed" THEN runs + 1 ELSE runs
    /\ UNCHANGED <<limit, hash, clock, sends, allowed, denied, forgotten>>

RLNext ==
    \/ \E c \in Calls :
          Unkeyed(c) \/ Send(c) \/ Script(c) \/ Resend(c) \/ StoreError(c) \/ Conclude(c)
    \/ Passes

RLSpec == RLInit /\ [][RLNext]_rlvars

-----------------------------------------------------------------------------
(* Properties *)

Bucket == INSTANCE TokenBucket WITH level <- Level

\* The store implements the ideal bucket: a call is allowed exactly when a
\* whole token is due, whatever calls came before, were denied or were lost,
\* and an expired key is a full bucket unless Burst exceeds Rate
\* (redis/rate-limit.go:36-55).
TokenBucketSpec == Bucket!Spec

\* However many invocations race, and whatever is lost between them and Redis,
\* no more handlers run than the burst and the rate allow; each expiry of a
\* bucket that a Period cannot fill costs at most Burst - Rate runs on top.
RunsWithinRate ==
    /\ runs * Period + Level <= Full(limit) + clock * limit.rate
          + forgotten * (limit.burst - limit.rate) * Period
    /\ limit.burst <= limit.rate => forgotten = 0
=============================================================================
