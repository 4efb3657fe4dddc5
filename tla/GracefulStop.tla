---------------------------- MODULE GracefulStop ----------------------------
(***************************************************************************)
(* What the shutdown state machine of a bus promises, without saying how.  *)
(* Units of work are live or not.  The door is open, then draining, then   *)
(* shut: shut quietly when a stopper saw nothing live, or by force.  No    *)
(* unit starts behind a shut door, and a stopper that reports success saw  *)
(* nothing live.                                                           *)
(*                                                                         *)
(* Lifecycle implements this specification (Lifecycle!GracefulStopSpec).   *)
(***************************************************************************)
CONSTANTS Units,    \* units of work
          Callers   \* stoppers

VARIABLES live,     \* the units being worked on
          door,     \* "open", "draining", "quiet" or "forced"
          verdict   \* what each stopper was told: "none", "nil" or "err"

vars == <<live, door, verdict>>

Init ==
    /\ live = {}
    /\ door = "open"
    /\ verdict = [c \in Callers |-> "none"]

\* A unit starts: only while the door is open or draining.
Start(u) ==
    /\ u \notin live
    /\ door \in {"open", "draining"}
    /\ live' = live \cup {u}
    /\ UNCHANGED <<door, verdict>>

\* A unit ends.
Finish(u) ==
    /\ u \in live
    /\ live' = live \ {u}
    /\ UNCHANGED <<door, verdict>>

\* A stopper asks for the drain.
Drain ==
    /\ door = "open"
    /\ door' = "draining"
    /\ UNCHANGED <<live, verdict>>

\* A stopper reports success: nothing is live and the door is shut.
Succeed(c) ==
    /\ live = {}
    /\ door' = IF door = "forced" THEN "forced" ELSE "quiet"
    /\ verdict' = [verdict EXCEPT ![c] = "nil"]
    /\ UNCHANGED live

\* The door is shut by force, whatever is still live.
Force ==
    /\ door' = "forced"
    /\ UNCHANGED <<live, verdict>>

\* A stopper gives up: only behind a door that was shut by force.
GiveUp(c) ==
    /\ door = "forced"
    /\ verdict' = [verdict EXCEPT ![c] = "err"]
    /\ UNCHANGED <<live, door>>

Next ==
    \/ \E u \in Units : Start(u) \/ Finish(u)
    \/ Drain
    \/ Force
    \/ \E c \in Callers : Succeed(c) \/ GiveUp(c)

Spec == Init /\ [][Next]_vars
=============================================================================
