-------------------------- MODULE MCEtcdDiscovery --------------------------
(* Two nodes of one network, and a client that watches it. *)
EXTENDS EtcdDiscovery, TLC

CONSTANTS me, n1, home, c1
MCNetworks == [n \in Nodes |-> home]
MCWatchKeys == (c1 :> {home})
============================================================================
