----------------------------- MODULE Blueprint -----------------------------
(***************************************************************************)
(* Package util/blueprint: Blueprint, the graphs it keeps, the timers that *)
(* graphs start and the reloading of all graphs.  There is one graph file; *)
(* its drawing is made from a script for the entrance with integer         *)
(* parameters and one for the timer entrance.                              *)
(***************************************************************************)
EXTENDS BlueprintScript

CONSTANTS
  Scripts,       \* contents of the file: [main, timer]
  Edits,         \* what the file may be changed to
  Arguments,     \* arguments of Do and TriggerEvent
  Draws,         \* what the random generator may return
  MaxGraphs,     \* bound on the graphs created
  MaxOps         \* bound on the operations

Gone == [main |-> <<>>, timer |-> <<>>]   \* the file is not there

VARIABLES
  file,      \* what the file holds
  pool,      \* graphPool: what was loaded, with the number of the loading
  pending,   \* what StartHotReload loaded and is not yet applied
  mapGraph,  \* the graphs: their drawing and their global variables
  seedID,
  timers,    \* running timers: the graph and the argument, and the class object
  emgr,      \* the graph the CreateTimer object of each loading last worked for
  last,      \* the last run of a graph
  meant,     \* the g_x that the triggered runs of each graph so far are meant to leave
  ops

bpVars == <<file, pool, pending, mapGraph, seedID, timers, emgr, last, meant, ops>>

Main(s) == Draw(s.main, "Entrance_IntParam")
OnTimer(s) == Draw(s.timer, "Entrance_Timer")
Loads(s) == (\A c \in Classes : createExecFromJSON(Def[c])) /\ (s = Gone \/ (Main(s).loaded /\ OnTimer(s).loaded))
NoRun == [op |-> "none"]
NoGlobals == [v \in Globals |-> NilPort]

\* Init fails when the file cannot be loaded.
BpInit ==
  /\ \E s \in Scripts : Loads(s) /\ file = s /\ pool = [file |-> s, n |-> 1]
  /\ pending = {} /\ mapGraph = [i \in {} |-> 0] /\ seedID = 0
  /\ timers = {} /\ emgr = <<"none">> /\ last = NoRun /\ ops = 0
  /\ meant = [i \in {} |-> NilPort]

Step == ops < MaxOps /\ ops' = ops + 1

Create ==
  /\ Step /\ seedID < MaxGraphs /\ seedID' = seedID + 1 /\ last' = NoRun
  /\ mapGraph' = IF pool.file = Gone THEN mapGraph
                 ELSE (seedID' :> [base |-> pool.file, globals |-> NoGlobals]) @@ mapGraph
  /\ meant' = IF pool.file = Gone THEN meant ELSE (seedID' :> NilPort) @@ meant
  /\ UNCHANGED <<file, pool, pending, timers, emgr>>

\* The graph objects a run may touch, and the one it is given: Clone makes an
\* object of its own, 0, with a copy of the variables.  (Mutant: no clone.)
Itself(i) == [graphs |-> mapGraph, obj |-> i]
NoClone(i) == Itself(i)
Clone(i) == [graphs |-> (0 :> mapGraph[i]) @@ mapGraph, obj |-> 0]

\* Graph.Do on a graph object.  A drawing without the entrance does nothing.
Name(o) == IF o = 0 THEN "clone" ELSE ToString(o)
Em == [c \in Classes |-> [NoEm EXCEPT !.gr = emgr[pool.n]]]
Recorded(i, o, script, args, rnd, rest, d) ==
  LET after == [o.graphs EXCEPT ![o.obj].globals = d.globals] IN
  /\ last' = [op |-> "run", graph |-> i, script |-> script, args |-> args, rnd |-> rnd,
              before |-> mapGraph[i].globals, after |-> d.globals, st |-> d.st, ret |-> d.ret]
  /\ emgr' = [emgr EXCEPT ![pool.n] = d.em["CreateTimer"].gr]
  /\ mapGraph' = [j \in DOMAIN mapGraph |-> after[j]]
  /\ timers' = rest \cup {[graph |-> i, arg |-> d.timers[k], em |-> pool.n] : k \in DOMAIN d.timers}
RunGraph(i, o, draw, script, args, rnd, rest) ==
  Recorded(i, o, script, args, rnd, rest,
           GraphDo(draw, Name(o.obj), o.graphs[o.obj].globals, Em, args, rnd))
Means(i, script, args, rnd) == meant' = [meant EXCEPT ![i] = Meaning(script, args, rnd, @).gx]

Runnable(i) == i \in DOMAIN mapGraph /\ mapGraph[i].base # Gone
\* Blueprint.Do works on a clone, TriggerEvent on the graph itself.
DoGraph(i, args, rnd) ==
  /\ Step /\ Runnable(i)
  /\ LET s == mapGraph[i].base IN RunGraph(i, Clone(i), Main(s), s.main, args, rnd, timers)
  /\ UNCHANGED <<file, pool, pending, seedID, meant>>
TriggerEvent(i, args, rnd) ==
  /\ Step /\ Runnable(i)
  /\ LET s == mapGraph[i].base IN
     RunGraph(i, Itself(i), Main(s), s.main, args, rnd, timers) /\ Means(i, s.main, args, rnd)
  /\ UNCHANGED <<file, pool, pending, seedID>>

\* Release goes through mapTimerID, which is never made, so that no timer of the
\* graph is stopped; the graph object is emptied.
ReleaseGraph(i) ==
  /\ Step /\ i \in DOMAIN mapGraph
  /\ mapGraph' = [j \in DOMAIN mapGraph \ {i} |-> mapGraph[j]] /\ last' = NoRun
  /\ meant' = [j \in DOMAIN meant \ {i} |-> meant[j]]
  /\ UNCHANGED <<file, pool, pending, seedID, timers, emgr>>

CancelTimerId(t) ==
  /\ Step /\ t \in timers /\ timers' = timers \ {t} /\ last' = NoRun
  /\ UNCHANGED <<file, pool, pending, mapGraph, seedID, emgr, meant>>

\* The callback asks the graph the class object last worked for, which may have
\* been emptied meanwhile: then it panics.  The timer's own graph may be gone.
Emptied(gr) == gr \in {ToString(i) : i \in (1 .. seedID) \ DOMAIN mapGraph}
TimerFires(t) ==
  /\ Step /\ t \in timers
  /\ IF Emptied(emgr[t.em]) \/ ~Runnable(t.graph)
     THEN timers' = timers \ {t} /\ last' = NoRun /\ UNCHANGED <<mapGraph, emgr, meant>>
     ELSE LET s == mapGraph[t.graph].base IN
          /\ RunGraph(t.graph, Itself(t.graph), OnTimer(s), s.timer, <<t.arg>>, 0, timers \ {t})
          /\ Means(t.graph, s.timer, <<t.arg>>, 0)
  /\ UNCHANGED <<file, pool, pending, seedID>>

FileChanges(s) ==
  /\ Step /\ s # file /\ file' = s /\ last' = NoRun
  /\ UNCHANGED <<pool, pending, mapGraph, seedID, timers, emgr, meant>>

\* StartHotReload loads beside the old pools and returns a function to apply it
\* later; it gives up when the file cannot be loaded.
StartHotReload ==
  /\ Step /\ last' = NoRun
  /\ pending' = IF Loads(file) THEN pending \cup {file} ELSE pending
  /\ UNCHANGED <<file, pool, mapGraph, seedID, timers, emgr, meant>>
HotReload(s) == [i \in DOMAIN mapGraph |-> [mapGraph[i] EXCEPT !.base = s]]
ApplyHotReload ==
  /\ Step /\ last' = NoRun /\ emgr' = Append(emgr, "none")
  /\ \E s \in pending :
       pending' = pending \ {s} /\ pool' = [file |-> s, n |-> pool.n + 1] /\ mapGraph' = HotReload(s)
  /\ UNCHANGED <<file, seedID, timers, meant>>

BpNext ==
  \/ Create \/ StartHotReload \/ ApplyHotReload
  \/ \E s \in Edits \cup {Gone} : FileChanges(s)
  \/ \E t \in timers : CancelTimerId(t) \/ TimerFires(t)
  \/ \E i \in DOMAIN mapGraph :
       \/ ReleaseGraph(i)
       \/ \E a \in Arguments, r \in Draws : DoGraph(i, a, r) \/ TriggerEvent(i, a, r)

BpSpec == BpInit /\ [][BpNext]_bpVars
-----------------------------------------------------------------------------
\* A drawn graph does what its lines say: the nodes that execNode.Do runs, the
\* inputs it pulls anew or takes from an earlier run of a node, loops inside
\* loops that share the one object of their class, and the branches, come to the
\* result, the error or the panic of the script it was drawn from, and leave the
\* global variable it assigns.
RunsAsDrawn ==
  last.op # "none" =>
    LET m == Meaning(last.script, last.args, last.rnd, last.before["g_x"]) IN
    last.st = m.st /\ last.ret = m.ret /\ last.after["g_x"] = m.gx

\* The global variable of a graph is what the scripts of its own triggered runs
\* and timers say one after the other, whatever was called in between: runs of Do
\* on it, runs of other graphs through the same class objects, runs that assign
\* and then panic (they leave nothing) or fail (they leave what they assigned),
\* and reloading, which changes the drawing and not the variables.
GlobalsAreOwn == \A i \in DOMAIN mapGraph : mapGraph[i].globals["g_x"] = meant[i]
=============================================================================
