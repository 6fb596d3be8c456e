------------------------------ MODULE MCRpcCall ------------------------------
(* Small instances of the caller's side of RPC for TLC. *)
EXTENDS RpcCall

CONSTANTS A, B, L

\* Connections break and the event channel is short; or they break, requests may be too
\* long for them and the channel has room; or a client is closed while another node is
\* called, timeouts come early, and the channel has room.
MCPlans ==
  {[drop |-> {A}, close |-> {}, long |-> {}, async |-> {A, L}, sync |-> {A, L}, events |-> 1, outlasts |-> TRUE],
   [drop |-> {A}, close |-> {}, long |-> {A}, async |-> {A}, sync |-> {A}, events |-> 3, outlasts |-> TRUE],
   [drop |-> {}, close |-> {A}, long |-> {}, async |-> {B}, sync |-> {B}, events |-> 3, outlasts |-> FALSE]}

\* A node is deleted while an asynchronous call to it is being written.
ClosePlan ==
  {[drop |-> {}, close |-> {A}, long |-> {}, async |-> {A}, sync |-> {}, events |-> 3, outlasts |-> TRUE]}
=============================================================================
