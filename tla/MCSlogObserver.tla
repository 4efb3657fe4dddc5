--------------------------- MODULE MCSlogObserver ---------------------------
(***************************************************************************)
(* Model of SlogObserver for TLC.  Keys and signals are alike, but runs    *)
(* with a liveness property use no symmetry.                               *)
(***************************************************************************)
EXTENDS SlogObserver

MCWindows == {0, 2}
=============================================================================
