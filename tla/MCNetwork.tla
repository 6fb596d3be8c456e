----------------------------- MODULE MCNetwork -----------------------------
(***************************************************************************)
(* Network for every transport and role: two connections, where Close      *)
(* meets connections that come and go, and one connection with three       *)
(* messages, where the channel fills up behind the writer.  A client that  *)
(* dials again with messages to send meets the nil that its first          *)
(* connection left in the byte pool.                                       *)
(***************************************************************************)
EXTENDS Network

CONSTANTS c1, c2

MCSetup(t, r, cs, out, in) == [transport |-> t, role |-> r, conns |-> cs, sends |-> out, reads |-> in]
MCSetups ==
  {MCSetup(t, r, {c1, c2}, 0, 0) : t \in {"tcp", "ws", "kcp"}, r \in {"server", "client"}}
  \cup {MCSetup(t, "server", {c1}, 2, 1) : t \in {"tcp", "ws", "kcp"}}
  \cup {MCSetup(t, "client", {c1}, 2, 1) : t \in {"ws", "kcp"}}
  \cup {MCSetup("tcp", "client", {c1, c2}, 2, 1)}
============================================================================
