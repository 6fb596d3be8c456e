---------------------------- MODULE TopicWindow ----------------------------
(***************************************************************************)
(* What the memory queue of a topic promises: while its room is open it    *)
(* holds the messages pushed last, at most RingCap of them and in the      *)
(* order they were pushed; only the end of the process empties it.         *)
(***************************************************************************)
EXTENDS Integers, Sequences

CONSTANT RingCap

VARIABLES window, open

Init == window = <<>> /\ open = FALSE

Open == ~open /\ open' = TRUE /\ window' = window

Add(m) ==
  /\ open /\ open' = open
  /\ window' = IF Len(window) < RingCap THEN Append(window, m) ELSE Append(Tail(window), m)

Restart == open' = FALSE /\ window' = <<>>

\* The message that was added is the last one of the new window.
Next == Open \/ Restart \/ (window' # <<>> /\ Add(window'[Len(window')]))

Spec == Init /\ [][Next]_<<window, open>>
=============================================================================
