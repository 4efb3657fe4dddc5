---------------------------- MODULE MCBrokerBus ----------------------------
(***************************************************************************)
(* Both transports, with few subscriptions, messages and callers.          *)
(***************************************************************************)
EXTENDS BrokerBus, TLC

MCKinds   == {"jetstream", "nats"}
Symmetric == Permutations(Msgs) \cup Permutations(Callers) \cup Permutations(Subs)
=============================================================================
