---------------------------- MODULE Idempotency ----------------------------
(***************************************************************************)
(* invoker/idempotency.go and redis/idempotency.go: the deliveries of one  *)
(* idempotency key, in any number of processes that share a store.         *)
(*                                                                         *)
(* Get and Put are separate calls of the store, each of which may fail; a  *)
(* Put that fails may have been applied all the same.  A process may crash *)
(* anywhere.  What lets a handler run twice is remembered in slips.        *)
(***************************************************************************)
EXTENDS Integers

CONSTANTS Runs,             \* the invocations with this key
          ProcessingTTL,    \* of the config; NewIdempotency leaves none at zero
          StoreTTL,         \* how long the store keeps a status; 0 is for ever
          MaxNow            \* bound: the last instant of the clock

Statuses == {"processing", "completed", "failed", "dead_lettered"}

ASSUME TTLAssumption ==
    /\ ProcessingTTL \in Nat \ {0}
    /\ StoreTTL \in [Statuses -> Nat]
    /\ MaxNow \in Nat

VARIABLES
    rec,        \* the record in the store, "none" when there is no key
    written,    \* when it was put
    now,        \* the clock
    pc,         \* pc[r]: where invocation r is
    saw,        \* saw[r]: what its Get returned
    started,    \* started[r]: its StartedAt
    out,        \* out[r]: what it has returned or will return
    slips       \* why the key is not, or was not, protected

store == <<rec, written>>
vars  == <<rec, written, now, pc, saw, started, out, slips>>

Records  == [status : Statuses \cup {"none"}, started : Nat]
NoRecord == [status |-> "none", started |-> 0]
Returned == {"nil", "dead_lettered", "error"}    \* what the handler returns
Outs     == Returned \cup {"none", "panic", "store_error", "duplicate", "in_progress"}
Labels   == {"new", "looking", "marking", "handling", "finishing", "done"}
Slips    == {"raced", "stale", "expired", "lost"}

TypeOK ==
    /\ rec \in Records /\ written \in Nat
    /\ now \in Nat
    /\ pc \in [Runs -> Labels]
    /\ saw \in [Runs -> Records]
    /\ started \in [Runs -> Nat]
    /\ out \in [Runs -> Outs]
    /\ slips \in SUBSET Slips

Init ==
    /\ rec = NoRecord /\ written = 0
    /\ now = 0
    /\ pc = [r \in Runs |-> "new"]
    /\ saw = [r \in Runs |-> NoRecord]
    /\ started = [r \in Runs |-> 0]
    /\ out = [r \in Runs |-> "none"]
    /\ slips = {}

-----------------------------------------------------------------------------
Goto(r, l) == pc' = [pc EXCEPT ![r] = l]

\* The invocation ends with o.
Return(r, o) ==
    /\ Goto(r, "done")
    /\ out' = [out EXCEPT ![r] = o]

Slip(why) == slips' = slips \cup {why}

\* Put: SET, whatever is there.
Put(status, at) ==
    /\ rec' = [status |-> status, started |-> at]
    /\ written' = now

Get(r) ==
    /\ pc[r] = "new"
    /\ \/ /\ saw' = [saw EXCEPT ![r] = rec]
          /\ Goto(r, "looking")
          /\ UNCHANGED out
       \/ Return(r, "store_error") /\ UNCHANGED saw
    /\ UNCHANGED <<store, now, started, slips>>

\* Mutant of Decide: a record in progress counts as a completion.
DecideInProgressDone(r) ==
    /\ pc[r] = "looking"
    /\ IF saw[r].status \in {"completed", "processing"}
         THEN Return(r, "duplicate") /\ UNCHANGED <<started, slips>>
         ELSE /\ started' = [started EXCEPT ![r] = now]
              /\ Goto(r, "marking")
              /\ UNCHANGED <<out, slips>>
    /\ UNCHANGED <<store, now, saw>>

Fresh(r) == now - saw[r].started < ProcessingTTL

\* The decision by the record, at the time it is looked at.
Decide(r) ==
    /\ pc[r] = "looking"
    /\ \/ /\ saw[r].status = "completed"
          /\ Return(r, "duplicate")
          /\ UNCHANGED <<started, slips>>
       \/ /\ saw[r].status = "processing" /\ Fresh(r)
          /\ Return(r, "in_progress")
          /\ UNCHANGED <<started, slips>>
       \/ /\ saw[r].status = "processing" /\ ~Fresh(r)
          /\ started' = [started EXCEPT ![r] = now]
          /\ Goto(r, "marking")
          /\ Slip("stale")
          /\ UNCHANGED out
       \/ /\ saw[r].status \in {"none", "failed", "dead_lettered"}
          /\ started' = [started EXCEPT ![r] = now]
          /\ Goto(r, "marking")
          /\ UNCHANGED <<out, slips>>
    /\ UNCHANGED <<store, now, saw>>

\* Put of the processing marker: applied or not, acknowledged or not.  The
\* record that Get returned may have been replaced by then.
PutProcessing(r) ==
    /\ pc[r] = "marking"
    /\ \/ /\ Put("processing", started[r])
          /\ IF rec # saw[r] THEN Slip("raced") ELSE UNCHANGED slips
          /\ \/ Goto(r, "handling") /\ UNCHANGED out
             \/ Return(r, "store_error")
       \/ Return(r, "store_error") /\ UNCHANGED <<store, slips>>
    /\ UNCHANGED <<now, saw, started>>

\* The handler, and the invokers inside, return.
Handle(r, res) ==
    /\ pc[r] = "handling"
    /\ out' = [out EXCEPT ![r] = res]
    /\ Goto(r, "finishing")
    /\ UNCHANGED <<store, now, saw, started, slips>>

\* An invoker inside panics, or the goroutine exits: there is no final Put.
HandlePanics(r) ==
    /\ pc[r] = "handling"
    /\ Return(r, "panic")
    /\ UNCHANGED <<store, now, saw, started, slips>>

\* Mutant of FinalStatus: a completion is not told from a failure.
FinalStatusFailed(res) == "failed"

FinalStatus(res) ==
    CASE res = "nil" -> "completed"
      [] res = "dead_lettered" -> "dead_lettered"
      [] OTHER -> "failed"

\* The final record is not, or not known to be, in the store.
Lost(r) == slips' = IF out[r] = "nil" THEN slips \cup {"lost"} ELSE slips

\* The final Put: its failure does not change the result.
PutFinal(r) ==
    /\ pc[r] = "finishing"
    /\ \/ Put(FinalStatus(out[r]), started[r]) /\ UNCHANGED slips
       \/ UNCHANGED store /\ Lost(r)
    /\ Goto(r, "done")
    /\ UNCHANGED <<now, saw, started, out>>

-----------------------------------------------------------------------------
(* The environment *)

\* The process of r crashes.
Crash(r) ==
    /\ pc[r] \in {"looking", "marking", "handling", "finishing"}
    /\ Lost(r)
    /\ Goto(r, "done")
    /\ UNCHANGED <<store, now, saw, started, out>>

\* The store drops a record that has outlived the TTL of its status.
Expire ==
    /\ rec.status # "none"
    /\ StoreTTL[rec.status] > 0 /\ now - written >= StoreTTL[rec.status]
    /\ rec' = NoRecord
    /\ IF rec.status \in {"processing", "completed"}
         THEN Slip("expired") ELSE UNCHANGED slips
    /\ UNCHANGED <<written, now, pc, saw, started, out>>

Tick ==
    /\ now < MaxNow
    /\ now' = now + 1
    /\ UNCHANGED <<store, pc, saw, started, out, slips>>

Next ==
    \/ \E r \in Runs :
          \/ Get(r)
          \/ Decide(r)
          \/ PutProcessing(r)
          \/ \E res \in Returned : Handle(r, res)
          \/ HandlePanics(r)
          \/ PutFinal(r)
          \/ Crash(r)
    \/ Expire
    \/ Tick

Spec == Init /\ [][Next]_vars

-----------------------------------------------------------------------------
(* Properties *)

\* The invocations whose handler runs, or has run and is not recorded yet.
Inside == {r \in Runs : pc[r] \in {"handling", "finishing"}}

\* The invocations whose handler did the work.
Complete == {r \in Runs : out[r] = "nil"}

\* At most one invocation is inside, and none once the work is done, unless
\* one of the four things happened that the design leaves open: the record
\* changed between Get and Put, a marker was taken over after ProcessingTTL,
\* the store dropped a marker or a completion, or the final record of a
\* completed run was not stored (Idempotency.Invoke, invoker/idempotency.go).
AtMostOnce ==
    slips = {} => \A q, r \in Inside \cup Complete : q = r

\* Only work that was done is acknowledged as a duplicate, whatever crashed,
\* raced or expired: "ErrInProgress is retried later, never Acked as done", and
\* a dead-lettered or failed record lets a replay run (idempotency.go:108-124).
DuplicateIsHonest ==
    (\E r \in Runs : out[r] = "duplicate") => Complete # {}

\* While nothing slipped, the marker of the invocation inside is in the store,
\* and a completion stays there.
Protected ==
    slips = {} =>
        /\ \A r \in Inside : rec = [status |-> "processing", started |-> started[r]]
        /\ \A r \in Complete : pc[r] = "done" => rec.status = "completed"
        /\ \A r \in Runs : pc[r] = "marking" => saw[r].status \notin {"processing", "completed"}

\* The strengthening that is inductive.
IInv ==
    /\ TypeOK
    /\ AtMostOnce
    /\ Protected
    /\ DuplicateIsHonest
    /\ rec.status = "completed" => Complete # {}
    /\ \A r \in Runs : saw[r].status = "completed" => Complete # {}
    /\ \A r \in Complete : pc[r] \in {"finishing", "done"}
    /\ \A r \in Runs : pc[r] \in {"new", "looking", "marking", "handling"} => out[r] = "none"
=============================================================================
