---------------------------- MODULE MCLocalBus ----------------------------
(* LocalBus, for TLC: a slot, a place in the queue and three emits, so that *)
(* the queue fills up and handlers emit.                                    *)
EXTENDS LocalBus, TLC

CONSTANTS e1, e2, e3, c1

MCEmits    == {e1, e2, e3}
MCTwo      == {e1, e2}
MCPolicies == {"block", "unbounded", "drop"}
MCBlock    == {"block"}
Symmetry   == Permutations(MCEmits)
=============================================================================
