---------------------------- MODULE MCRpcServer ----------------------------
(* Requests for RpcServer: every kind, from a connection that may have it. *)
EXTENDS RpcServer

CONSTANTS t1, n1, l1, s1
R(c, wants, kind, size) == [conn |-> c, wants |-> wants, kind |-> kind, size |-> size]
MCOffered ==
  {R(t1, TRUE, k, "small") : k \in {"plain", "responder", "badhead", "badparam"}}
  \cup {R(t1, FALSE, "plain", "small"), R(t1, TRUE, "plain", "dense")}
  \cup {R(n1, TRUE, k, "small") : k \in {"noservice", "void", "noprocessor"}}
  \cup {R(n1, TRUE, "plain", "long"), R(n1, FALSE, "raw", "small"), R(n1, FALSE, "rawjson", "small")}
  \cup {R(l1, TRUE, k, "small") : k \in {"responder", "nomethod"}}
  \cup {R(s1, TRUE, k, "small") : k \in {"plain", "nomethod"}}
============================================================================
