--------------------------- MODULE MCMessageQueue ---------------------------
(* Small instances of a topic of the message queue service for TLC. *)
EXTENDS MessageQueue

\* One subscription and a ring that wraps; two subscriptions that replace each
\* other, with a fault.
MCLimits == {[msgs |-> 3, subs |-> 1, faults |-> 0], [msgs |-> 2, subs |-> 2, faults |-> 1]}
=============================================================================
