---------------------------- MODULE TokenBucket ----------------------------
(***************************************************************************)
(* What a rate limit promises for one key: a bucket of Burst tokens that   *)
(* fills at Rate tokens per Period, a call allowed exactly when it finds a *)
(* whole token.  RateLimit shows that the Redis store implements it.       *)
(*                                                                         *)
(* A token is Period parts, so that a bucket gains Rate parts per instant  *)
(* and nothing is rounded.                                                 *)
(***************************************************************************)
EXTENDS Naturals

CONSTANTS Configs,   \* the limits considered: records of rate and burst
          Period

VARIABLES limit,     \* the configured one
          level,     \* parts in the bucket
          allowed, denied

bvars == <<limit, level, allowed, denied>>

Lesser(m, n) == IF m < n THEN m ELSE n
Full(l) == l.burst * Period

Init ==
    /\ limit \in Configs
    /\ level = Full(limit)
    /\ allowed = 0 /\ denied = 0

Fill ==
    /\ level' = Lesser(Full(limit), level + limit.rate)
    /\ UNCHANGED <<limit, allowed, denied>>

Allow ==
    /\ level >= Period
    /\ level' = level - Period
    /\ allowed' = allowed + 1
    /\ UNCHANGED <<limit, denied>>

Deny ==
    /\ level < Period
    /\ denied' = denied + 1
    /\ UNCHANGED <<limit, level, allowed>>

\* A bucket larger than what a Period brings may be forgotten while it is not
\* full, and starts again full.
Forget ==
    /\ limit.burst > limit.rate
    /\ level' = Full(limit)
    /\ UNCHANGED <<limit, allowed, denied>>

Next == Fill \/ Allow \/ Deny \/ Forget

Spec == Init /\ [][Next]_bvars
=============================================================================
