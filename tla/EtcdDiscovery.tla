--------------------------- MODULE EtcdDiscovery ---------------------------
(***************************************************************************)
(* Package cluster, etcddiscovery.go: a node keeps its own information in  *)
(* etcd under a lease and follows the keys of its network and of           *)
(* neighbouring ones.  Every node registers; what it makes of the others   *)
(* is modelled for one of them, Me.                                        *)
(*                                                                         *)
(* etcd itself (leases, keys, watches that report every change of a key in *)
(* order from the moment they are made) is external.  The information on a *)
(* node is whether it retired.                                             *)
(***************************************************************************)
EXTENDS Naturals, Sequences, FiniteSets

CONSTANTS
  Nodes,       \* the nodes
  Me,          \* the one whose view is followed; it does not stop
  Networks,    \* the network of a node: the key under which it registers
  Clients,     \* the etcd clients of Me
  watchKeys,   \* the keys that a client watches
  EarlyRetire, \* a node may retire before it has a lease
  MaxLeases,   \* bound on the leases of a node that live at a time
  MaxStarts,   \* bound on the starts of a node
  MaxFails,    \* bound on failures of etcd and of the connections to it
  MaxWatchers, \* bound on the goroutines in watcher
  MaxQueue     \* nodes come and go only while less than this waits to be handled

Keys == UNION {watchKeys[c] : c \in Clients}
Leases == 1 .. MaxLeases
Others == Nodes \ {Me}
Ws == 1 .. MaxWatchers

ASSUME EtcdAssumption ==
  /\ Me \in Nodes /\ EarlyRetire \in BOOLEAN
  /\ MaxLeases \in Nat \ {0} /\ MaxStarts \in Nat \ {0} /\ MaxFails \in Nat /\ MaxWatchers \in Nat \ {0} /\ MaxQueue \in Nat \ {0}
  /\ Networks \in [Nodes -> Keys]
  /\ \A c, d \in Clients : c # d => watchKeys[c] \cap watchKeys[d] = {}

VARIABLES
  up,        \* nodes that run
  starts,    \* how often each was started
  reg,       \* registerServiceByClient: none, timer, granted, put or kept
  leaseID,   \* the lease that a node believes to have, 0 for none
  retired,   \* bRetire
  redo,      \* the timer of tryLaterRetire runs
  live,      \* etcd: the leases of each node
  store,     \* etcd: the information under the key of each node, and its lease
  timers,    \* the timers of tryWatch
  watchers,  \* the goroutines in watcher, with what etcd has for them
  chanEvent, \* events for the discovery service of Me
  view,      \* what the cluster of Me knows of each node
  known,     \* mapDiscoveryNodeId
  fails      \* failures so far

nodeState == <<up, starts, reg, leaseID, retired, redo>>
etcdState == <<live, store>>
myState == <<timers, chanEvent, view, known>>
etcdVars == <<nodeState, etcdState, myState, watchers, fails>>

NoKey == [info |-> "none", lease |-> 0]
NoWatcher == [pc |-> "free", key |-> CHOOSE k \in Keys : TRUE, cli |-> CHOOSE c \in Clients : TRUE, buf |-> <<>>]

EtcdInit ==
  /\ up = {Me} /\ starts = [n \in Nodes |-> IF n = Me THEN 1 ELSE 0]
  /\ reg = [n \in Nodes |-> IF n = Me THEN "timer" ELSE "none"]
  /\ leaseID = [n \in Nodes |-> 0] /\ retired = {} /\ redo = {}
  /\ live = [n \in Nodes |-> {}] /\ store = [n \in Nodes |-> NoKey]
  /\ timers = [c \in Clients |-> 1] /\ watchers = [w \in Ws |-> NoWatcher]
  /\ chanEvent = <<>> /\ view = [n \in Nodes |-> "none"] /\ known = [k \in Keys |-> {}]
  /\ fails = 0

Fail == fails < MaxFails /\ fails' = fails + 1
-----------------------------------------------------------------------------
(* etcd *)

Watched(w, n) == watchers[w].pc \in {"get", "loop"} /\ watchers[w].key = Networks[n]
\* The key of n is set to v: every watch on it gets to know.
Change(n, v) ==
  /\ store' = [store EXCEPT ![n] = v]
  /\ watchers' = [w \in Ws |-> IF Watched(w, n)
                               THEN [watchers[w] EXCEPT !.buf = Append(@, [node |-> n, info |-> v.info])]
                               ELSE watchers[w]]
NoChange == UNCHANGED <<store, watchers>>

\* A lease ends, and the key with it if it hangs on it.
Ends(n, l) ==
  /\ live' = [live EXCEPT ![n] = @ \ {l}]
  /\ IF store[n].info # "none" /\ store[n].lease = l THEN Change(n, NoKey) ELSE NoChange

\* A lease that is fresh or kept alive lasts, unless the node does not get through.
Kept(n, l) == n \in up /\ reg[n] \in {"granted", "put", "kept"} /\ leaseID[n] = l
Expire(n, l) ==
  /\ l \in live[n] /\ Ends(n, l)
  /\ IF Kept(n, l) THEN Fail ELSE UNCHANGED fails
  /\ UNCHANGED <<nodeState, myState>>

\* client.Put under a lease, which must live; without a lease it is for ever.
MayPut(n) == leaseID[n] = 0 \/ leaseID[n] \in live[n]
Info(n) == IF n \in retired THEN "retired" ELSE "up"
Put(n, info) == Change(n, [info |-> info, lease |-> leaseID[n]])
-----------------------------------------------------------------------------
(* a node registers *)

\* The service of n is inside registerServiceByClient.
Busy(n) == reg[n] \in {"granted", "put"}

\* The bound on what waits.
Room == Len(chanEvent) < MaxQueue /\ \A w \in Ws : Len(watchers[w].buf) < MaxQueue

OnStart(n) ==
  /\ Room /\ n \notin up /\ starts[n] < MaxStarts
  /\ up' = up \cup {n} /\ starts' = [starts EXCEPT ![n] = @ + 1]
  /\ reg' = [reg EXCEPT ![n] = "timer"]
  /\ UNCHANGED <<leaseID, retired, redo, etcdState, watchers, myState, fails>>

tryRegisterService(n) == reg' = [reg EXCEPT ![n] = "timer"]

Grant(n) ==
  /\ n \in up /\ reg[n] = "timer"
  /\ \/ /\ live[n] # Leases
        /\ LET l == CHOOSE l \in Leases \ live[n] : TRUE IN
           live' = [live EXCEPT ![n] = @ \cup {l}] /\ leaseID' = [leaseID EXCEPT ![n] = l]
        /\ reg' = [reg EXCEPT ![n] = "granted"] /\ UNCHANGED fails
     \/ Fail /\ tryRegisterService(n) /\ UNCHANGED <<live, leaseID>>
  /\ UNCHANGED <<up, starts, retired, redo, store, watchers, myState>>

\* A Put that fails may have taken effect.
PutKey(n) ==
  /\ reg[n] = "granted"
  /\ \/ MayPut(n) /\ Put(n, Info(n)) /\ reg' = [reg EXCEPT ![n] = "put"] /\ UNCHANGED fails
     \/ ~MayPut(n) /\ tryRegisterService(n) /\ NoChange /\ UNCHANGED fails
     \/ Fail /\ tryRegisterService(n) /\ (NoChange \/ (MayPut(n) /\ Put(n, Info(n))))
  /\ UNCHANGED <<up, starts, leaseID, retired, redo, live, myState>>

KeepAlive(n) ==
  /\ reg[n] = "put"
  /\ \/ reg' = [reg EXCEPT ![n] = "kept"] /\ UNCHANGED fails
     \/ Fail /\ tryRegisterService(n)
  /\ UNCHANGED <<up, starts, leaseID, retired, redo, etcdState, watchers, myState>>

\* keepAliveChan is closed: the node registers once more.  (Mutant: it does not.)
GivesUp(n) ==
  /\ n \in up /\ reg[n] = "kept" /\ leaseID[n] \notin live[n]
  /\ reg' = [reg EXCEPT ![n] = "none"]
  /\ UNCHANGED <<up, starts, leaseID, retired, redo, etcdState, watchers, myState, fails>>
KeepAliveEnds(n) ==
  /\ n \in up /\ reg[n] = "kept" /\ leaseID[n] \notin live[n]
  /\ tryRegisterService(n)
  /\ UNCHANGED <<up, starts, leaseID, retired, redo, etcdState, watchers, myState, fails>>

\* The new information is put; if that fails it is tried again after a second.
retire(n) ==
  \/ MayPut(n) /\ Put(n, "retired") /\ redo' = redo \ {n} /\ UNCHANGED fails
  \/ ~MayPut(n) /\ redo' = redo \cup {n} /\ NoChange /\ UNCHANGED fails
  \/ Fail /\ redo' = redo \cup {n} /\ NoChange
OnRetire(n) ==
  /\ Room /\ n \in up \ retired /\ ~Busy(n) /\ (EarlyRetire \/ leaseID[n] # 0)
  /\ retired' = retired \cup {n} /\ retire(n)
  /\ UNCHANGED <<up, starts, reg, leaseID, live, myState>>
tryLaterRetire(n) ==
  /\ n \in redo /\ ~Busy(n) /\ retire(n)
  /\ UNCHANGED <<up, starts, reg, leaseID, retired, live, myState>>

Stops(n) ==
  /\ Room /\ n \in up \ {Me} /\ up' = up \ {n} /\ reg' = [reg EXCEPT ![n] = "none"]
  /\ leaseID' = [leaseID EXCEPT ![n] = 0] /\ retired' = retired \ {n} /\ redo' = redo \ {n}
  /\ UNCHANGED <<starts, myState>>
\* The lease is revoked if there is one and etcd can be reached.
close(n) ==
  \/ leaseID[n] \in live[n] /\ Ends(n, leaseID[n]) /\ UNCHANGED fails
  \/ leaseID[n] \notin live[n] /\ NoChange /\ UNCHANGED <<live, fails>>
  \/ Fail /\ NoChange /\ UNCHANGED live
OnRelease(n) == Stops(n) /\ ~Busy(n) /\ close(n)
Crash(n) == Stops(n) /\ NoChange /\ UNCHANGED <<live, fails>>
-----------------------------------------------------------------------------
(* Me follows the others *)

tryWatch(c) == timers' = [timers EXCEPT ![c] = @ + 1]
\* The event channel is taken as never full: pushEvent would drop the event, and the
\* view would miss a change until the key changes once more or the watch breaks off.
Notify(e) == chanEvent' = Append(chanEvent, e)

\* A goroutine for every key of the client, whatever runs already.
watchByClient(c) ==
  /\ timers[c] > 0 /\ ~Busy(Me) /\ timers' = [timers EXCEPT ![c] = @ - 1]
  /\ \E slots \in [watchKeys[c] -> {w \in Ws : watchers[w].pc = "free"}] :
       /\ \A k, j \in watchKeys[c] : k # j => slots[k] # slots[j]
       /\ \A k \in watchKeys[c] : \A w \in Ws :
            watchers[w].pc = "free" /\ w < slots[k] => \E j \in watchKeys[c] : slots[j] = w
       /\ watchers' = [w \in Ws |-> IF \E k \in watchKeys[c] : slots[k] = w
                                    THEN [pc |-> "start", key |-> CHOOSE k \in watchKeys[c] : slots[k] = w,
                                          cli |-> c, buf |-> <<>>]
                                    ELSE watchers[w]]
  /\ UNCHANGED <<nodeState, etcdState, chanEvent, view, known, fails>>

\* client.Watch first, then the keys that are there.
Watch(w) ==
  /\ watchers[w].pc = "start" /\ watchers' = [watchers EXCEPT ![w].pc = "get"]
  /\ UNCHANGED <<nodeState, etcdState, myState, fails>>
Gone(w) == watchers' = [watchers EXCEPT ![w] = NoWatcher] /\ tryWatch(watchers[w].cli)

\* The keys that etcd has.
Snapshot(k) == [n \in Nodes |-> IF Networks[n] = k THEN store[n].info ELSE "none"]
getServices(w) ==
  /\ watchers[w].pc = "get"
  /\ \/ /\ Notify([typ |-> "gets", key |-> watchers[w].key, kvs |-> Snapshot(watchers[w].key)])
        /\ watchers' = [watchers EXCEPT ![w].pc = "loop"] /\ UNCHANGED <<timers, fails>>
     \/ Fail /\ Gone(w) /\ UNCHANGED chanEvent
  /\ UNCHANGED <<nodeState, etcdState, view, known>>

\* notifyPut and notifyDelete.
watcher(w) ==
  /\ watchers[w].pc = "loop" /\ watchers[w].buf # <<>>
  /\ LET e == Head(watchers[w].buf) IN
     Notify([typ |-> IF e.info = "none" THEN "delete" ELSE "put", key |-> watchers[w].key, node |-> e.node, info |-> e.info])
  /\ watchers' = [watchers EXCEPT ![w].buf = Tail(@)]
  /\ UNCHANGED <<nodeState, etcdState, timers, view, known, fails>>

\* The channel of the watch is closed, and what was not read yet is lost.
WatchEnds(w) ==
  /\ watchers[w].pc = "loop" /\ Fail /\ Gone(w)
  /\ UNCHANGED <<nodeState, etcdState, chanEvent, view, known>>

\* The view after n was set or deleted; the node itself is left out.
setNodeInfo(n, info) == IF n = Me THEN view ELSE [view EXCEPT ![n] = info]
delNode(n) == IF n = Me THEN view ELSE [view EXCEPT ![n] = "none"]
addNodeId(k, n) == [known EXCEPT ![k] = @ \cup {n}]

\* Nodes that are not among the keys any more are deleted.  (Mutant: they are kept.)
OnlyAdds(e) ==
  LET there == {n \in Nodes : e.kvs[n] # "none"} IN
  /\ view' = [n \in Nodes |-> IF n \in there \ {Me} THEN e.kvs[n] ELSE view[n]]
  /\ known' = [known EXCEPT ![e.key] = @ \cup there]
OnEventGets(e) ==
  LET there == {n \in Nodes : e.kvs[n] # "none"}  expired == known[e.key] \ (there \cup {Me}) IN
  /\ view' = [n \in Nodes |-> IF n \in there \ {Me} THEN e.kvs[n] ELSE IF n \in expired THEN "none" ELSE view[n]]
  /\ known' = [known EXCEPT ![e.key] = (@ \cup there) \ expired]
OnEventPut(e) ==
  view' = setNodeInfo(e.node, e.info) /\ known' = addNodeId(e.key, e.node)
OnEventDelete(e) ==
  /\ view' = delNode(e.node)
  /\ known' = IF e.node = Me THEN known ELSE [known EXCEPT ![e.key] = @ \ {e.node}]

OnEtcdDiscovery ==
  /\ chanEvent # <<>> /\ ~Busy(Me) /\ chanEvent' = Tail(chanEvent)
  /\ LET e == Head(chanEvent) IN
     \/ e.typ = "gets" /\ OnEventGets(e)
     \/ e.typ = "put" /\ OnEventPut(e)
     \/ e.typ = "delete" /\ OnEventDelete(e)
  /\ UNCHANGED <<nodeState, etcdState, watchers, timers, fails>>
-----------------------------------------------------------------------------
NodeSteps(n) == Grant(n) \/ PutKey(n) \/ KeepAlive(n) \/ KeepAliveEnds(n)
WatcherSteps(w) == Watch(w) \/ getServices(w) \/ watcher(w)

EtcdNext ==
  \/ \E n \in Nodes : \/ OnStart(n) \/ Grant(n) \/ PutKey(n) \/ KeepAlive(n) \/ KeepAliveEnds(n)
                      \/ OnRetire(n) \/ tryLaterRetire(n) \/ OnRelease(n) \/ Crash(n)
                      \/ \E l \in Leases : Expire(n, l)
  \/ \E c \in Clients : watchByClient(c)
  \/ \E w \in Ws : Watch(w) \/ getServices(w) \/ watcher(w) \/ WatchEnds(w)
  \/ OnEtcdDiscovery

\* Timers fire, goroutines and the service run on, and etcd ends the leases that
\* nobody keeps.
EtcdFairness ==
  /\ \A n \in Nodes : WF_etcdVars(NodeSteps(n)) /\ WF_etcdVars(tryLaterRetire(n))
  /\ \A n \in Nodes : \A l \in Leases : WF_etcdVars(~Kept(n, l) /\ Expire(n, l))
  /\ \A c \in Clients : WF_etcdVars(watchByClient(c))
  /\ \A w \in Ws : WF_etcdVars(WatcherSteps(w))
  /\ WF_etcdVars(OnEtcdDiscovery)
EtcdSpec == EtcdInit /\ [][EtcdNext]_etcdVars /\ EtcdFairness
-----------------------------------------------------------------------------
\* The watchers of key k have told all they know, none is to be started again, and
\* the service has handled what they told.
Active(k) == {w \in Ws : watchers[w].pc # "free" /\ watchers[w].key = k}
CaughtUp(k) ==
  /\ Active(k) # {} /\ \A w \in Active(k) : watchers[w].pc = "loop" /\ watchers[w].buf = <<>>
  /\ \A c \in Clients : k \in watchKeys[c] => timers[c] = 0
  /\ \A i \in DOMAIN chanEvent : chanEvent[i].key # k
\* Whenever nothing is on its way, the view is what etcd has, although the snapshot
\* is taken behind the start of the watch, repeats what the watch reports and may
\* overtake it, and watches end and lose changes.
ViewFollowsStore == \A n \in Others : CaughtUp(Networks[n]) => view[n] = store[n].info

\* A node that runs on is known in the end, as retired if it has retired, and one
\* that is gone is not, whether it was released or crashed, came back before its
\* lease ended, lost its lease or could not reach etcd for a time.
EventuallyKnown ==
  \A n \in Others :
    /\ <>[](n \in up) => <>[](view[n] # "none")
    /\ <>[](n \in up /\ n \in retired) => <>[](view[n] = "retired")
    /\ <>[](n \notin up) => <>[](view[n] = "none")
=============================================================================
