---------------------------- MODULE MCConcurrent ----------------------------
(* Small instances of the coroutine pool for TLC. *)
EXTENDS Concurrent, TLC

WorkerSymmetry == Permutations(Workers)

\* Queue tasks: the raw ids 1 and 3 fold into one session (modulo 2), 2 has its
\* own.  Among them are calls without a function.
QueueCalls == {<<0, FALSE, TRUE>>, <<1, TRUE, FALSE>>, <<2, TRUE, FALSE>>,
               <<3, TRUE, FALSE>>}

\* Tasks without and with a queue, with and without a callback.
CallbackCalls == {<<0, TRUE, FALSE>>, <<1, TRUE, TRUE>>, <<2, TRUE, FALSE>>}

FalseOnly == {"false"}
TrueOrPanic == {"true", "panic"}
=============================================================================
