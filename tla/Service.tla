------------------------------ MODULE Service ------------------------------
(***************************************************************************)
(* A service, its tree of modules, their timers and their event listeners: *)
(* packages service, event and util/timer.                                 *)
(*                                                                         *)
(* The goroutine of the service (Service.run) takes a close signal, an     *)
(* event or a timer, one at a time; modules are added and released, timers *)
(* started and cancelled, and listeners registered from the user's code it *)
(* runs.  A second goroutine (tickRoutine) moves timers that are due from  *)
(* the global heap to the service's ChanTimer.  Timer objects come from    *)
(* global pools, one per kind, and are used again after their release.     *)
(*                                                                         *)
(* Time is left out: any timer of the heap may be due.                     *)
(***************************************************************************)
EXTENDS Integers, Sequences, FiniteSets, SequencesExt

CONSTANTS
  Mods,        \* modules that may be added to the service
  Timers,      \* objects of timerPool
  Tickers,     \* objects of tickerPool
  Crons,       \* objects of cronPool
  Procs,       \* event processors a listener can be registered with
  Plans,       \* the objects and the processors the modules use
  ChanTimerCap,\* timerDispatcherLen
  MaxEvent,    \* maxServiceEventChannelNum
  MaxTimers    \* bound on the number of timers started

ASSUME PoolsAssumption ==
  Timers \cap Tickers = {} /\ Timers \cap Crons = {} /\ Tickers \cap Crons = {}
ASSUME LimitsAssumption ==
  ChanTimerCap \in Nat \ {0} /\ MaxEvent \in Nat \ {0}
  /\ MaxTimers \in Nat
ASSUME PlansAssumption ==
  Plans \subseteq [objs : SUBSET (Timers \cup Tickers \cup Crons), procs : SUBSET Procs]

Root == "service"
NoMod == "nomod"
ASSUME ModsAssumption == Root \notin Mods /\ NoMod \notin Mods /\ IsFiniteSet(Mods)

Objs == Timers \cup Tickers \cup Crons
Ids == 1..MaxTimers

VARIABLES
  uses,        \* the plan, fixed
  svc,         \* the service: "run" or "stopped"
  closeSig,    \* closeSig was closed
  state,       \* every module: "none", "in" the tree, or "released"
  child,       \* the children of every module and of the service
  descendants, \* the ancestor's map of all modules
  active,      \* mapActiveTimer of every module
  byId,        \* mapActiveIdTimer of every module: pairs <<id, object>>
  tm,          \* the fields of every timer object
  heap,        \* timerHeap
  ticking,     \* a timer tick has popped and not yet sent, as a set
  chanTimer,   \* ChanTimer of the service
  doing,       \* the timer whose callback is running, as a set
  lastId,      \* the last timer id generated
  owner,       \* the module that started the timer with an id
  cancelledBy, \* timer ids cancelled by their module or by its release
  fired,       \* timer ids whose callback ran
  lapsed,      \* ids of crons that came to Do without a next time
  regs,        \* mapRegEvent of every module: the processors it listens to
  listen,      \* mapListenerEvent of every processor: count for the service
  bind,        \* mapBindHandlerEvent of the service: modules with a callback
  chanEvent    \* the number of events in the event channel

treeVars == <<state, child, descendants>>
timerVars == <<active, byId, tm, heap, ticking, chanTimer, doing, lastId,
               owner, cancelledBy, fired, lapsed>>
eventVars == <<regs, listen, bind, chanEvent>>
vars == <<uses, svc, closeSig, treeVars, timerVars, eventVars>>

Fresh == [ref |-> FALSE, id |-> 0, cancelled |-> FALSE, onClose |-> NoMod]

Init ==
  /\ uses \in Plans
  /\ svc = "run"
  /\ closeSig = FALSE
  /\ state = [m \in Mods |-> "none"]
  /\ child = [m \in Mods \cup {Root} |-> {}]
  /\ descendants = {}
  /\ active = [m \in Mods |-> {}]
  /\ byId = [m \in Mods |-> {}]
  /\ tm = [o \in Objs |-> Fresh]
  /\ heap = {}
  /\ ticking = {}
  /\ chanTimer = <<>>
  /\ doing = {}
  /\ lastId = 0
  /\ owner = [i \in Ids |-> NoMod]
  /\ cancelledBy = {}
  /\ fired = {}
  /\ lapsed = {}
  /\ regs = [m \in Mods |-> {}]
  /\ listen = [p \in Procs |-> 0]
  /\ bind = {}
  /\ chanEvent = 0

\* The service goroutine runs user code, inside a callback or not; it takes
\* the next item of its channels when no callback is running.
Running == svc = "run"
Selecting == Running /\ doing = {}
InTree(m) == m \in descendants \cup {Root}
-----------------------------------------------------------------------------
(* The tree of modules.                                                    *)

\* AddModule: the module is entered before OnInit runs.  When an OnInit that
\* did nothing else fails, the module is taken out again: a stuttering step.
AddModule(p, m) ==
  /\ Running
  /\ InTree(p) /\ state[m] = "none"
  /\ state' = [state EXCEPT ![m] = "in"]
  /\ child' = [child EXCEPT ![p] = @ \cup {m}]
  /\ descendants' = descendants \cup {m}
  /\ UNCHANGED <<uses, svc, closeSig, timerVars, eventVars>>

\* The module m and everything below it: the least set that contains m and
\* the children of its members.
Closed(S) == \A x \in S : child[x] \subseteq S
Subtree(m) ==
  {x \in Mods \cup {Root} :
     \A S \in SUBSET (Mods \cup {Root}) : m \in S /\ Closed(S) => x \in S}

\* Destroy: every registration of the modules ms is undone, in the processor
\* that was listened to and in the service's own.
KeepsListening(ms) == UNCHANGED <<regs, listen, bind>>
Destroy(ms) ==
  /\ regs' = [m \in Mods |-> IF m \in ms THEN {} ELSE regs[m]]
  /\ listen' = [p \in Procs |-> listen[p] - Cardinality({m \in ms : p \in regs[m]})]
  /\ bind' = bind \ ms

\* Cancel only marks the object: the heap and the channel keep it.
CancelAndRelease(o) == Fresh
Cancel(o) == [tm[o] EXCEPT !.cancelled = TRUE]

\* Cancel every timer the modules ms still refer to.
Referred(ms) == UNION {active[m] \cup {e[2] : e \in byId[m]} : m \in ms}
ForgetTimers(ms) == {}
Cancelled(ms) == Referred(ms)

\* What ReleaseModule does for a set of modules closed under children.
Release(ms) ==
  /\ state' = [m \in Mods |-> IF m \in ms THEN "released" ELSE state[m]]
  /\ descendants' = descendants \ ms
  /\ Destroy(ms)
  /\ tm' = [o \in Objs |-> IF o \in Cancelled(ms)
                           THEN Cancel(o) ELSE tm[o]]
  /\ active' = [m \in Mods |-> IF m \in ms THEN {} ELSE active[m]]
  /\ byId' = [m \in Mods |-> IF m \in ms THEN {} ELSE byId[m]]
  /\ cancelledBy' = cancelledBy \cup {i \in Ids : owner[i] \in ms}

\* The children without m and what is below it.
DeleteChild(p, m) == [x \in Mods \cup {Root} |->
  IF x = p THEN child[x] \ {m}
  ELSE IF x \in Subtree(m) THEN {} ELSE child[x]]

\* ReleaseModule, called on the parent p of m.
ReleaseModule(p, m) ==
  /\ Running
  /\ InTree(p) /\ m \in child[p]
  /\ Release(Subtree(m))
  /\ child' = DeleteChild(p, m)
  /\ UNCHANGED <<uses, svc, closeSig, heap, ticking, chanTimer, doing, lastId, owner, fired, lapsed,
                 chanEvent>>
-----------------------------------------------------------------------------
(* Timers.                                                                 *)

\* TickerFunc is the one that does not keep the module's OnCloseTimer.
KeepsOnClose(o) == o \notin Tickers

\* GenTimerId, with the ids of all modules taken from one seed.
GenTimerId == lastId + 1

\* SafeAfterFunc, SafeNewTicker and SafeCronFunc: an object of the pool is
\* set up, pushed to the heap and entered into both maps of the module.  The
\* pool resets an object when it is put back, not when it is taken.
StartTimer(m, o) ==
  LET i == GenTimerId IN
  /\ Running
  /\ state[m] = "in"
  /\ lastId < MaxTimers
  /\ o \in uses.objs /\ ~tm[o].ref
  /\ lastId' = lastId + 1
  /\ owner' = [owner EXCEPT ![i] = m]
  /\ tm' = [tm EXCEPT ![o].ref = TRUE, ![o].id = i,
                      ![o].onClose = IF KeepsOnClose(o) THEN m ELSE NoMod]
  /\ heap' = heap \cup {o}
  /\ active' = [active EXCEPT ![m] = @ \cup {o}]
  /\ byId' = [byId EXCEPT ![m] = @ \cup {<<i, o>>}]
  /\ UNCHANGED <<uses, svc, closeSig, treeVars, ticking, chanTimer, doing, cancelledBy,
                 fired, lapsed, eventVars>>

\* SafeCronFunc of an expression without a next time: CronFunc returns nil and
\* the use of it panics, when only an id was taken.
SafeCronFuncPanics(m) ==
  /\ Running
  /\ state[m] = "in"
  /\ lastId < MaxTimers
  /\ uses.objs \cap Crons # {}
  /\ lastId' = lastId + 1
  /\ UNCHANGED <<uses, svc, closeSig, treeVars, active, byId, tm, heap, ticking, chanTimer,
                 doing, owner, cancelledBy, fired, lapsed, eventVars>>

\* CancelTimerId marks the object; its id is set to 0, so the user does not
\* cancel it twice.
CancelTimerId(m, i, o) ==
  /\ Running
  /\ <<i, o>> \in byId[m] /\ i \notin cancelledBy
  /\ tm' = [tm EXCEPT ![o] = Cancel(o)]
  /\ cancelledBy' = cancelledBy \cup {i}
  /\ UNCHANGED <<uses, svc, closeSig, treeVars, active, byId, heap, ticking,
                 chanTimer, doing, lastId, owner, fired, lapsed, eventVars>>

\* tick: a timer that is due leaves the heap (rOpen is true exactly for the
\* timers of the heap) ...
Tick(o) ==
  /\ ticking = {}
  /\ o \in heap
  /\ heap' = heap \ {o}
  /\ ticking' = {o}
  /\ UNCHANGED <<uses, svc, closeSig, treeVars, active, byId, tm, chanTimer, doing, lastId,
                 owner, cancelledBy, fired, lapsed, eventVars>>

\* ... and is sent to the service; tickRoutine blocks while it is full.
AppendChannel ==
  /\ Len(chanTimer) < ChanTimerCap
  /\ \E o \in ticking : chanTimer' = Append(chanTimer, o)
  /\ ticking' = {}
  /\ UNCHANGED <<uses, svc, closeSig, treeVars, active, byId, tm, heap, doing, lastId,
                 owner, cancelledBy, fired, lapsed, eventVars>>

\* OnCloseTimer and the return to the pool.
CloseTimer(o) ==
  /\ tm' = [tm EXCEPT ![o] = Fresh]
  /\ IF tm[o].onClose # NoMod
     THEN /\ active' = [active EXCEPT ![tm[o].onClose] = @ \ {o}]
          /\ byId' = [byId EXCEPT ![tm[o].onClose] =
                        {e \in @ : e[1] # tm[o].id}]
     ELSE UNCHANGED <<active, byId>>

\* Do runs the callback of a timer that is not cancelled.
IsCancelled(o) == tm[o].cancelled
IsActive(o) == ~tm[o].cancelled

\* After its callback a ticker or cron is set up again unless it was
\* cancelled meanwhile; a one-shot timer is closed.
Rearms(o) == o \notin Timers

\* Do up to the callback: a cancelled timer is closed, otherwise its callback
\* starts, and runs whatever user steps follow.  A cron whose expression has
\* no next time calls cbCronEx, which SafeCronFunc leaves nil: the panic is
\* recovered, the callback does not run and the object stays where it is.
Do ==
  LET o == Head(chanTimer) IN
  /\ Selecting
  /\ chanTimer # <<>>
  /\ chanTimer' = Tail(chanTimer)
  /\ \/ /\ IsActive(o)
        /\ doing' = {o}
        /\ fired' = fired \cup {tm[o].id}
        /\ UNCHANGED <<tm, active, byId, lapsed>>
     \/ /\ IsActive(o) /\ o \in Crons
        /\ lapsed' = lapsed \cup {tm[o].id}
        /\ UNCHANGED <<doing, fired, tm, active, byId>>
     \/ /\ ~IsActive(o)
        /\ CloseTimer(o)
        /\ UNCHANGED <<doing, fired, lapsed>>
  /\ UNCHANGED <<uses, svc, closeSig, treeVars, heap, ticking, lastId, owner,
                 cancelledBy, eventVars>>

\* Do from the return of the callback on.
DoEnd(o) ==
  /\ o \in doing
  /\ doing' = {}
  /\ IF Rearms(o) /\ IsActive(o)
     THEN /\ heap' = heap \cup {o}
          /\ UNCHANGED <<tm, active, byId>>
     ELSE /\ CloseTimer(o)
          /\ UNCHANGED heap
  /\ UNCHANGED <<uses, svc, closeSig, treeVars, ticking, chanTimer, lastId, owner,
                 cancelledBy, fired, lapsed, eventVars>>

\* A callback that panics: Do recovers and returns.  The timer is neither set
\* up again nor closed, and its object does not return to the pool.
DoPanics(o) ==
  /\ o \in doing
  /\ doing' = {}
  /\ UNCHANGED <<uses, svc, closeSig, treeVars, active, byId, tm, heap, ticking, chanTimer,
                 lastId, owner, cancelledBy, fired, lapsed, eventVars>>
-----------------------------------------------------------------------------
(* Events.                                                                 *)

\* RegEventReceiverFunc of the processor p for a listener of module m.
RegEventReceiverFunc(p, m) ==
  /\ Running
  /\ p \in uses.procs /\ state[m] = "in" /\ p \notin regs[m]
  /\ regs' = [regs EXCEPT ![m] = @ \cup {p}]
  /\ bind' = bind \cup {m}
  /\ listen' = [listen EXCEPT ![p] = @ + 1]
  /\ UNCHANGED <<uses, svc, closeSig, treeVars, timerVars, chanEvent>>

\* UnRegEventReceiverFun: the callback is taken away even if the module
\* still listens to another processor.
UnRegEventReceiverFun(p, m) ==
  /\ Running
  /\ state[m] = "in" /\ p \in regs[m]
  /\ regs' = [regs EXCEPT ![m] = @ \ {p}]
  /\ bind' = bind \ {m}
  /\ listen' = [listen EXCEPT ![p] = @ - 1]
  /\ UNCHANGED <<uses, svc, closeSig, treeVars, timerVars, chanEvent>>

\* castEvent of the processor p: the event is pushed to the service if it is
\* among the listeners; a full channel loses it.
CastEvent(p) ==
  /\ listen[p] > 0 /\ chanEvent < MaxEvent
  /\ chanEvent' = chanEvent + 1
  /\ UNCHANGED <<uses, svc, closeSig, treeVars, timerVars, regs, listen, bind>>

\* The service takes an event and runs every callback bound to its type.
EventHandler ==
  /\ Selecting
  /\ chanEvent > 0
  /\ chanEvent' = chanEvent - 1
  /\ UNCHANGED <<uses, svc, closeSig, treeVars, timerVars, regs, listen, bind>>
-----------------------------------------------------------------------------
(* Stopping.                                                               *)

\* Stop closes closeSig and waits for run to return.
Stop ==
  /\ ~closeSig
  /\ closeSig' = TRUE
  /\ UNCHANGED <<uses, svc, treeVars, timerVars, eventVars>>

\* run: Service.Release releases the children in reverse and with them all
\* modules; then the loop ends.
StopRun ==
  /\ Selecting
  /\ closeSig
  /\ svc' = "stopped"
  /\ Release(descendants)
  /\ child' = [x \in Mods \cup {Root} |-> {}]
  /\ UNCHANGED <<uses, closeSig, heap, ticking, chanTimer, doing, lastId, owner, fired, lapsed,
                 chanEvent>>
-----------------------------------------------------------------------------
UserStep ==
  \/ \E p \in Mods \cup {Root}, m \in Mods : AddModule(p, m) \/ ReleaseModule(p, m)
  \/ \E m \in Mods, o \in Objs :
       StartTimer(m, o) \/ \E i \in Ids : CancelTimerId(m, i, o)
  \/ \E m \in Mods : SafeCronFuncPanics(m)
  \/ \E p \in Procs, m \in Mods :
       RegEventReceiverFunc(p, m) \/ UnRegEventReceiverFun(p, m)

Next ==
  \/ UserStep
  \/ \E o \in Objs : Tick(o)
  \/ AppendChannel
  \/ Do
  \/ \E o \in Objs : DoEnd(o)
  \/ \E o \in Objs : DoPanics(o)
  \/ \E p \in Procs : CastEvent(p)
  \/ EventHandler
  \/ Stop
  \/ StopRun

Safety == Init /\ [][Next]_vars

(* tickRoutine and the service goroutine are scheduled, a callback returns *)
(* or panics; Go's select chooses *)
(* at random among the channels that are ready, so that a ready channel is  *)
(* taken in the long run.  The heap is ordered by fire time and a timer    *)
(* set up again gets a later one, so every timer becomes the first; for    *)
(* tickers this is not needed.                                             *)
Fairness ==
  /\ \A o \in Objs \ Tickers : SF_vars(Tick(o))
  /\ WF_vars(\E o \in Objs : DoEnd(o) \/ DoPanics(o))
  /\ WF_vars(AppendChannel)
  /\ SF_vars(Do)
  /\ SF_vars(EventHandler)
  /\ SF_vars(StopRun)
Spec == Safety /\ Fairness
-----------------------------------------------------------------------------
(* Properties.                                                             *)

TreeType ==
  /\ state \in [Mods -> {"none", "in", "released"}]
  /\ child \in [Mods \cup {Root} -> SUBSET Mods]
  /\ descendants \subseteq Mods

TimerObject == [ref : BOOLEAN, id : 0..MaxTimers, cancelled : BOOLEAN,
                onClose : Mods \cup {NoMod}]

TimerType ==
  /\ active \in [Mods -> SUBSET Objs]
  /\ byId \in [Mods -> SUBSET (Ids \X Objs)]
  /\ tm \in [Objs -> TimerObject]
  /\ heap \subseteq Objs /\ ticking \subseteq Objs /\ doing \subseteq Objs
  /\ chanTimer \in Seq(Objs) /\ Len(chanTimer) <= ChanTimerCap
  /\ lastId \in 0..MaxTimers
  /\ owner \in [Ids -> Mods \cup {NoMod}]
  /\ cancelledBy \subseteq Ids
  /\ fired \subseteq Ids /\ lapsed \subseteq Ids

EventType ==
  /\ regs \in [Mods -> SUBSET Procs]
  /\ listen \in [Procs -> Nat]
  /\ bind \subseteq Mods
  /\ chanEvent \in 0..MaxEvent

(* The types of the state, with the bounds of ChanTimer and of the event   *)
(* channel, and no negative number of listeners.                           *)
TypeOK ==
  /\ uses \in Plans /\ svc \in {"run", "stopped"} /\ closeSig \in BOOLEAN
  /\ TreeType /\ TimerType /\ EventType

(* The map of all modules and the sets of children describe the same      *)
(* tree: every registered module is reachable from the service through     *)
(* exactly one parent, and released modules are in neither.                *)
TreeAgrees ==
  /\ descendants = Subtree(Root) \ {Root}
  /\ descendants = {m \in Mods : state[m] = "in"}
  /\ \A x, y \in Mods \cup {Root} :
       child[x] \cap child[y] # {} => x = y

(* An object in the pool is neither waiting in the heap nor on its way to  *)
(* the service, and one in use is in one place at most: a timer fires for  *)
(* the module that started it.                                             *)
PooledIsIdle ==
  \A o \in Objs :
    /\ ~tm[o].ref => o \notin heap \cup ticking \cup doing \cup ToSet(chanTimer)
    /\ Cardinality({i \in 1..Len(chanTimer) : chanTimer[i] = o})
         + (IF o \in heap THEN 1 ELSE 0) + (IF o \in ticking THEN 1 ELSE 0)
         + (IF o \in doing THEN 1 ELSE 0) <= 1

(* Releasing a module reaches every timer it started that can still fire,  *)
(* through the maps the module keeps: no callback runs for a module that   *)
(* was released, and none after its timer was cancelled.                   *)
CancelledNeverFires ==
  \A o \in Objs :
    tm[o].ref /\ tm[o].id \in cancelledBy => tm[o].cancelled

(* When a module is released its listeners are unloaded: its callbacks no  *)
(* longer run, and the processors it listened to count only listeners that *)
(* are left.                                                               *)
ListenersUnloaded ==
  /\ \A m \in Mods : state[m] # "in" => m \notin bind /\ regs[m] = {}
  /\ \A p \in Procs : listen[p] = Cardinality({m \in Mods : p \in regs[m]})

(* What is released is gone: from the one tree of modules and from the     *)
(* listeners of every processor, also when a callback released it, a       *)
(* parent was released first or the service stops.                         *)
ReleasedIsGone == TreeAgrees /\ ListenersUnloaded

(* A timer that is not cancelled fires, whatever callbacks panic before it. *)
(* This holds for one-shot timers, and for crons whose expression has a    *)
(* next time when they come to Do; a ticker may be stopped through the     *)
(* stale entry that the module of an earlier one still has (TickerFunc).   *)
TimerFires ==
  \A i \in Ids :
    (\E o \in Timers \cup Crons : tm[o].ref /\ tm[o].id = i)
      ~> (i \in fired \cup cancelledBy \cup lapsed)
=============================================================================
