----------------------------- MODULE FrameTimer -----------------------------
(***************************************************************************)
(* The frame timers of package sysmodule/frametimer: groups of timers that *)
(* count frames, run at a multiple of the global frame rate, and are       *)
(* visited only on the frame for which they last registered themselves in  *)
(* mapFrameGroup.  The frame goroutine raises the global frame number      *)
(* before it takes the lock under which it ticks the groups.  The service  *)
(* calls the operations of its groups one after another; they take that    *)
(* lock too, except SetMultiple and Close, whose steps fall between those  *)
(* of the frame goroutine.                                                 *)
(***************************************************************************)
EXTENDS Integers, FiniteSets, FiniteSetsExt

CONSTANTS
  Groups,     \* group ids
  MaxTimers,  \* bound on the timers created
  MaxFrame,   \* bound on the global frame
  Delays,     \* the durations of timers, in frames
  Multiples   \* the multiples used: 0..maxMultiple in the code, 1 by default

ASSUME FrameAssumption ==
  /\ MaxTimers \in Nat /\ MaxFrame \in Nat
  /\ Delays \subseteq Nat /\ \E d \in Delays : \A e \in Delays : e <= d
  /\ 1 \in Multiples /\ Multiples \subseteq Nat

VARIABLES
  globalFrameNum,
  phase,           \* of the frame goroutine: sleep, raised, locked, crashed
  round,           \* locked: the frame looked at and its groups yet to be ticked
  mapFrameGroup,   \* frame -> the groups to tick on it
  mapGroup,        \* the groups that were made and not closed
  fg,              \* the state of every group; timers is its heap
  maxTimerID,
  call,            \* the SetMultiple or Close under way, without the lock
  late             \* history: groups whose last such call met the locked frameTick

frameVars == <<globalFrameNum, phase, round, mapFrameGroup, mapGroup, fg, maxTimerID, call, late>>

\* A registration is never further ahead than the longest delay.
Horizon == 0..(MaxFrame + Max(Delays) + 1)

\* A group as init leaves it: it counts from frame 0, whatever the frame is.
NewFrameGroup ==
  [timers |-> {}, preTickGlobalFrameNum |-> 0, preGlobalFrameNum |-> 0, frameNum |-> 0,
   pause |-> FALSE, multiple |-> 1]

NoRound == [frame |-> 0, left |-> {}]
NoCall == [op |-> "none", on |-> {}, met |-> FALSE, frame |-> 0]

FrameInit ==
  /\ globalFrameNum = 0 /\ phase = "sleep" /\ round = NoRound
  /\ mapFrameGroup = [f \in Horizon |-> {}] /\ mapGroup = {}
  /\ fg = [g \in Groups |-> NewFrameGroup]
  /\ maxTimerID = 0 /\ call = NoCall /\ late = {}

\* The service runs no other call; a call that locks waits for frameTick.
NoOther == call.op = "none" /\ phase # "crashed"
Locks == NoOther /\ phase # "locked"

\* An id is new: nothing is left of a closed group that had it.
NewGroup(g) ==
  /\ Locks /\ g \notin mapGroup /\ \A f \in Horizon : g \notin mapFrameGroup[f]
  /\ mapGroup' = mapGroup \cup {g} /\ late' = late \ {g}
  /\ fg' = [fg EXCEPT ![g] = NewFrameGroup]
  /\ UNCHANGED <<globalFrameNum, phase, round, mapFrameGroup, maxTimerID, call>>
-----------------------------------------------------------------------------
Least(timers) == Min({t.frameNum : t \in timers})

convertGlobalFrameNum(s, frame) == globalFrameNum + (frame - s.frameNum) \div s.multiple

removeGroup(map, g, f) == [map EXCEPT ![f] = @ \ {g}]

refreshGroupMinFrame(map, g, pre, f) == [removeGroup(map, g, pre) EXCEPT ![f] = @ \cup {g}]

\* Nothing to register, or multiple 0, by which convertGlobalFrameNum divides:
\* the panic ends the call there.
Registers(s) == s.timers # {} /\ ~s.pause
Divides(s) == Registers(s) /\ s.multiple = 0

\* refreshMinFrame, as the new map and the new state of the group: the
\* registration moves to the frame of the earliest timer.
refreshMinFrame(st, g) ==
  LET s == st.fg IN
  IF ~Registers(s) \/ Divides(s) THEN st
  ELSE LET f == convertGlobalFrameNum(s, Least(s.timers)) IN
       [map |-> refreshGroupMinFrame(st.map, g, s.preGlobalFrameNum, f),
        fg |-> [s EXCEPT !.preGlobalFrameNum = f]]

Install(st, g) == mapFrameGroup' = st.map /\ fg' = [fg EXCEPT ![g] = st.fg]
\* Every change of a group ends in refreshMinFrame.
Refreshed(map, s, g) == Install(refreshMinFrame([map |-> map, fg |-> s], g), g)

\* FrameAfterFunc and FrameNewTicker count from frameNum, which is that of the
\* group's last tick.
addTimer(g, frame, ticker) ==
  LET t == [timerID |-> maxTimerID + 1, frameNum |-> fg[g].frameNum + frame,
            tickerFrameNum |-> IF ticker THEN frame ELSE 0]
  IN
  /\ Locks /\ g \in mapGroup /\ maxTimerID < MaxTimers /\ maxTimerID' = maxTimerID + 1
  /\ Refreshed(mapFrameGroup, [fg[g] EXCEPT !.timers = @ \cup {t}], g)
  /\ late' = late \ {g}
  /\ UNCHANGED <<globalFrameNum, phase, round, mapGroup, call>>
FrameAfterFunc(g, frame) == addTimer(g, frame, FALSE)
FrameNewTicker(g, frame) == addTimer(g, frame, TRUE)

Pause(g) ==
  /\ Locks /\ g \in mapGroup
  /\ Install([map |-> removeGroup(mapFrameGroup, g, fg[g].preGlobalFrameNum),
              fg |-> [fg[g] EXCEPT !.pause = TRUE, !.preGlobalFrameNum = 0]], g)
  /\ late' = late \ {g}
  /\ UNCHANGED <<globalFrameNum, phase, round, mapGroup, maxTimerID, call>>

\* The frames passed meanwhile do not count: preTick is set once registered.
Resume(g) ==
  LET s == [fg[g] EXCEPT !.pause = FALSE]
      st == refreshMinFrame([map |-> mapFrameGroup, fg |-> s], g)
  IN
  /\ Locks /\ g \in mapGroup
  /\ IF Divides(s) THEN Install(st, g)
     ELSE Install([st EXCEPT !.fg.preTickGlobalFrameNum = globalFrameNum], g)
  /\ UNCHANGED <<globalFrameNum, phase, round, mapGroup, maxTimerID, call, late>>

\* mapTimer is never cleaned: cancelling a timer that has fired or was cancelled
\* takes away whatever timer is at its old index.
CancelTimer(g, id) ==
  /\ Locks /\ g \in mapGroup /\ id \in 1..maxTimerID
  /\ \E t \in fg[g].timers :
       /\ t.timerID = id \/ \A h \in Groups : \A u \in fg[h].timers : u.timerID # id
       /\ Refreshed(removeGroup(mapFrameGroup, g, fg[g].preGlobalFrameNum),
                    [fg[g] EXCEPT !.timers = @ \ {t}, !.preGlobalFrameNum = 0], g)
  /\ late' = late \ {g}
  /\ UNCHANGED <<globalFrameNum, phase, round, mapGroup, maxTimerID, call>>
-----------------------------------------------------------------------------
\* SetMultiple and Close take no lock.  SetMultiple works out the frame from what
\* it reads of the group, and registers the group for it later.
SetMultiple(g, m) ==
  LET s == [fg[g] EXCEPT !.multiple = m] IN
  /\ NoOther /\ g \in mapGroup /\ fg[g].multiple # m /\ fg' = [fg EXCEPT ![g] = s]
  /\ call' = IF ~Registers(s) \/ Divides(s) THEN NoCall
             ELSE [op |-> "SetMultiple", on |-> {g}, met |-> phase = "locked",
                   frame |-> convertGlobalFrameNum(s, Least(s.timers))]
  /\ UNCHANGED <<globalFrameNum, phase, round, mapFrameGroup, mapGroup, maxTimerID, late>>

\* Close takes the registration away, and the group out of mapGroup later.
Close(g) ==
  /\ NoOther /\ g \in mapGroup
  /\ mapFrameGroup' = removeGroup(mapFrameGroup, g, fg[g].preGlobalFrameNum)
  /\ call' = [NoCall EXCEPT !.op = "Close", !.on = {g}, !.met = phase = "locked"]
  /\ UNCHANGED <<globalFrameNum, phase, round, mapGroup, fg, maxTimerID, late>>

CallEnds(op, g) ==
  /\ phase # "crashed" /\ call.op = op /\ call.on = {g} /\ call' = NoCall
  /\ late' = IF call.met THEN late \cup {g} ELSE late \ {g}
  /\ UNCHANGED <<globalFrameNum, phase, round, maxTimerID>>
SetMultipleEnd(g) ==
  /\ CallEnds("SetMultiple", g) /\ UNCHANGED mapGroup
  /\ Install([map |-> refreshGroupMinFrame(mapFrameGroup, g, fg[g].preGlobalFrameNum, call.frame),
              fg |-> [fg[g] EXCEPT !.preGlobalFrameNum = call.frame]], g)
CloseEnd(g) ==
  /\ CallEnds("Close", g) /\ mapGroup' = mapGroup \ {g}
  /\ UNCHANGED <<mapFrameGroup, fg>>
-----------------------------------------------------------------------------
raiseFrame ==
  /\ phase = "sleep" /\ globalFrameNum < MaxFrame
  /\ globalFrameNum' = globalFrameNum + 1 /\ phase' = "raised"
  /\ UNCHANGED <<round, mapFrameGroup, mapGroup, fg, maxTimerID, call, late>>

\* frameTick takes the groups of one frame number and deletes its entry.
Look(f) ==
  /\ round' = [frame |-> f, left |-> mapFrameGroup[f]]
  /\ mapFrameGroup' = [mapFrameGroup EXCEPT ![f] = {}]
  /\ UNCHANGED <<globalFrameNum, mapGroup, fg, maxTimerID, late>>

\* With the lock it looks first at the frame before the raise: a group that read
\* it then may have registered for it meanwhile.  (Mutant: only at the new one.)
OnlyNewFrame ==
  /\ phase = "raised" /\ phase' = "locked" /\ Look(globalFrameNum)
  /\ call' = [call EXCEPT !.met = call.op # "none"]
LockFrames ==
  /\ phase = "raised" /\ phase' = "locked" /\ Look(globalFrameNum - 1)
  /\ call' = [call EXCEPT !.met = call.op # "none"]

NextFrame ==
  /\ phase = "locked" /\ round.left = {} /\ round.frame < globalFrameNum
  /\ Look(globalFrameNum) /\ UNCHANGED <<phase, call>>

Unlock ==
  /\ phase = "locked" /\ round.left = {} /\ round.frame = globalFrameNum
  /\ phase' = "sleep" /\ round' = NoRound
  /\ UNCHANGED <<globalFrameNum, mapFrameGroup, mapGroup, fg, maxTimerID, call, late>>

\* onceTick: every timer that is due is posted; a ticker is put back with its
\* next frame, which is later than the group's.
onceTick(s) ==
  LET now == s.frameNum + (globalFrameNum - s.preTickGlobalFrameNum) * s.multiple
      due == {t \in s.timers : t.frameNum <= now}
      again == {[t EXCEPT !.frameNum = now + t.tickerFrameNum] :
                  t \in {d \in due : d.tickerFrameNum # 0}}
  IN  [s EXCEPT !.frameNum = now, !.preTickGlobalFrameNum = globalFrameNum,
                !.timers = (@ \ due) \cup again]

\* A group of the round takes its turn.  A division by zero ends the process:
\* the frame goroutine recovers no panic.
tick(g) ==
  LET s == onceTick(fg[g]) IN
  /\ phase = "locked" /\ g \in round.left /\ g \in mapGroup
  /\ Refreshed(mapFrameGroup, s, g)
  /\ round' = [round EXCEPT !.left = @ \ {g}]
  /\ phase' = IF Divides(s) THEN "crashed" ELSE phase
  /\ late' = IF Registers(s) THEN late \ {g} ELSE late
  /\ UNCHANGED <<globalFrameNum, mapGroup, maxTimerID, call>>

\* A group closed meanwhile is passed over.
SkipClosed(g) ==
  /\ phase = "locked" /\ g \in round.left \ mapGroup
  /\ round' = [round EXCEPT !.left = @ \ {g}]
  /\ UNCHANGED <<globalFrameNum, phase, mapFrameGroup, mapGroup, fg, maxTimerID, call, late>>

FrameNext ==
  \/ \E g \in Groups :
       \/ NewGroup(g) \/ Pause(g) \/ Resume(g) \/ Close(g)
       \/ \E d \in Delays : FrameAfterFunc(g, d) \/ FrameNewTicker(g, d)
       \/ \E m \in Multiples : SetMultiple(g, m)
       \/ \E id \in 1..MaxTimers : CancelTimer(g, id)
       \/ SetMultipleEnd(g) \/ CloseEnd(g) \/ tick(g) \/ SkipClosed(g)
  \/ raiseFrame \/ LockFrames \/ NextFrame \/ Unlock

FrameSpec == FrameInit /\ [][FrameNext]_frameVars
-----------------------------------------------------------------------------
Touched(g) == g \in round.left \/ g \in call.on

(* A running group that holds timers is registered for exactly one frame, one *)
(* the frame goroutine has still to look at and no later than its earliest    *)
(* timer allows; a paused or closed group is registered for none.  This does  *)
(* not hold of a group whose SetMultiple or Close, which take no lock, met    *)
(* the locked part of frameTick: it may be registered for a frame that has    *)
(* passed, until the next operation on it.  Nor of a group with multiple 0.   *)
WakeupArmed ==
  \A g \in Groups :
    LET at == {f \in Horizon : g \in mapFrameGroup[f]}
        seen == IF phase = "raised" THEN globalFrameNum - 1 ELSE globalFrameNum
        s == fg[g]
    IN
    IF g \in late \/ Touched(g) \/ (g \in mapGroup /\ Divides(s))
    THEN at \subseteq {s.preGlobalFrameNum}
    ELSE IF g \notin mapGroup \/ ~Registers(s) THEN at = {}
    ELSE /\ at = {s.preGlobalFrameNum}
         /\ seen <= s.preGlobalFrameNum
         /\ s.preGlobalFrameNum <= convertGlobalFrameNum(s, Least(s.timers))
=============================================================================
