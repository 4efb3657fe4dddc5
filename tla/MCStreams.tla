----------------------------- MODULE MCStreams -----------------------------
(***************************************************************************)
(* Model of Streams for TLC.                                               *)
(***************************************************************************)
EXTENDS Streams, TLC

MCGiven == {<<0, 1>>}
Symmetry == Permutations(Emits)
=============================================================================
