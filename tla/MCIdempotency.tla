--------------------------- MODULE MCIdempotency ---------------------------
(***************************************************************************)
(* Three deliveries of a key.  A marker is stale after one tick, gone from *)
(* the store after two; a completion is gone after three.                  *)
(***************************************************************************)
EXTENDS Idempotency, TLC

Symmetric == Permutations(Runs)

\* The Redis store, to scale: a marker is kept for less than a completion.
RedisTTL == [s \in Statuses |-> CASE s = "processing" -> 2 [] s = "completed" -> 3 [] OTHER -> 1]
=============================================================================
