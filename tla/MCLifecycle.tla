---------------------------- MODULE MCLifecycle ----------------------------
(***************************************************************************)
(* Model of Lifecycle for TLC: a few units of work and a few callers.      *)
(***************************************************************************)
EXTENDS Lifecycle
=============================================================================
