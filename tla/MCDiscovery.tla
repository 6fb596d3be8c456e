---------------------------- MODULE MCDiscovery ----------------------------
(* Small instances of the service discovery for TLC. *)
EXTENDS Discovery, TLC

CONSTANTS n1, n2

NoLoss == [c \in Nodes |-> 0]

\* One node retires and stops, or both may stop, and every answer comes in
\* time; one node retires and the registration of the other times out; a
\* single node registers up to three times and stops; or it registers twice
\* and the master loses its connection to it.
MCPlans ==
  {[regs |-> n1 :> 1 @@ n2 :> 1, retire |-> {n1}, stop |-> {n1}, losses |-> NoLoss],
   [regs |-> n1 :> 1 @@ n2 :> 1, retire |-> {}, stop |-> {n1, n2}, losses |-> NoLoss],
   [regs |-> n1 :> 1 @@ n2 :> 2, retire |-> {n1}, stop |-> {}, losses |-> NoLoss],
   [regs |-> n1 :> 0 @@ n2 :> 3, retire |-> {}, stop |-> {n2}, losses |-> NoLoss],
   [regs |-> n1 :> 0 @@ n2 :> 2, retire |-> {}, stop |-> {n2}, losses |-> n1 :> 0 @@ n2 :> 2],
   [regs |-> n1 :> 1 @@ n2 :> 1, retire |-> {}, stop |-> {}, losses |-> n1 :> 1 @@ n2 :> 0]}
=============================================================================
