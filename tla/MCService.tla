------------------------------ MODULE MCService ------------------------------
(* Small instances of a service with its modules for TLC. *)
EXTENDS Service, TLC

\* A one-shot timer and a cron with listeners; the one-shot timer and a ticker.
MCPlans == {[objs |-> Timers \cup Crons, procs |-> Procs],
            [objs |-> Timers \cup Tickers, procs |-> {}]}
=============================================================================
