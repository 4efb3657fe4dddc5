---------------------------- MODULE MCRateLimit ----------------------------
(***************************************************************************)
(* Model of RateLimit for TLC: a bucket smaller than, equal to and larger  *)
(* than what a Period brings.                                              *)
(***************************************************************************)
EXTENDS RateLimit, TLC

MCConfigs == {[rate |-> 2, burst |-> 1], [rate |-> 1, burst |-> 1], [rate |-> 1, burst |-> 2]}

Symmetric == Permutations(Calls)
=============================================================================
