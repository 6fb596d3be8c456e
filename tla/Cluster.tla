------------------------------ MODULE Cluster ------------------------------
(***************************************************************************)
(* The tables of a node's cluster object (package cluster): the clients of *)
(* the known nodes, the nodes that offer a service, the services made from *)
(* a template, and the services of the node that listen to discovery.      *)
(*                                                                         *)
(* Discovery changes the tables under the cluster's lock and, while it     *)
(* holds it, puts an event into the channel of every listening service;    *)
(* the services handle their events and ask the tables in their own        *)
(* goroutines.                                                             *)
(*                                                                         *)
(* A service name "S:T" is <<S, T>>, a plain one <<S, NoTemplate>>.         *)
(***************************************************************************)
EXTENDS Integers, Sequences, FiniteSets

CONSTANTS
  LocalNode,       \* the node whose tables these are
  RemoteNodes,     \* the others
  MasterNodes,     \* those of them that are discovery masters
  LocalOffers,     \* the local ServiceList
  Announcements,   \* the service lists that remote nodes announce
  AllowDiscovery,  \* the local rules, none for everything
  Listeners,       \* the services of the node
  EventRoom,       \* the room of a service's event channel
  MaxChanges       \* bound on the changes that discovery brings

NoTemplate == "none"
NoNode == "NodeIdNull"

ASSUME ClusterAssumption ==
  /\ LocalNode \notin RemoteNodes /\ MasterNodes \subseteq RemoteNodes
  /\ NoNode \notin RemoteNodes
  /\ \A offers \in Announcements \cup {LocalOffers} : \A o \in offers : o = <<o[1], o[2]>>
  /\ EventRoom \in Nat \ {0} /\ MaxChanges \in Nat

VARIABLES
  mapRpc,                  \* the known nodes: offers, retire, connected
  mapServiceNode,          \* pairs of a service and a node
  mapTemplateServiceNode,  \* pairs of a template and a service
  writer,                  \* the change that holds the lock, or NoWriter
  bound,                   \* the listeners that each service has set
  rpcListeners,            \* mapServiceListenRpcEvent
  inbox,                   \* the event channels
  told,                    \* what its events told a service of each node
  current,                 \* the nodes of which a service got the last event
  changes

tableVars == <<mapRpc, mapServiceNode, mapTemplateServiceNode>>
clusterVars == <<tableVars, writer, bound, rpcListeners, inbox, told, current, changes>>

NoWriter == [op |-> "free", todo |-> {}]
NamesOf(offers) == {o[1] : o \in offers}
TemplatesOf(offers) == {<<o[2], o[1]>> : o \in {p \in offers : p[2] # NoTemplate}}

\* parseLocalCfg.
ClusterInit ==
  /\ mapRpc = [n \in {LocalNode} |-> [offers |-> LocalOffers, retire |-> FALSE, connected |-> TRUE]]
  /\ mapServiceNode = NamesOf(LocalOffers) \X {LocalNode}
  /\ mapTemplateServiceNode = TemplatesOf(LocalOffers)
  /\ writer = NoWriter
  /\ bound = [s \in Listeners |-> {}] /\ rpcListeners = {}
  /\ inbox = [s \in Listeners |-> <<>>]
  /\ told = [s \in Listeners |-> [n \in RemoteNodes |-> {}]]
  /\ current = [s \in Listeners |-> {}]
  /\ changes = 0
-----------------------------------------------------------------------------
\* A rule's empty list, and its empty regular expression, match everything.
Admits(list, x) == list = {} \/ x \in list

\* CanDiscoveryService, with a pattern as the set of what it matches.
CanDiscoveryService(master, node, name) ==
  \/ AllowDiscovery = {}
  \/ \E rule \in AllowDiscovery :
       /\ Admits(rule.masters, master) /\ Admits(rule.nodes, node)
       /\ Admits(rule.services, name)

\* setNodeInfo: what is left of an announcement.
Discovered(master, node, announced) ==
  {o \in announced : CanDiscoveryService(master, node, o[1])}

\* delServiceNode for each of a node's services.  (Mutant: only the template of a
\* template service is forgotten.)
TemplateOnly(offers, node) ==
  /\ mapServiceNode' = mapServiceNode \ ({o[1] : o \in {p \in offers : p[2] = NoTemplate}} \X {node})
  /\ mapTemplateServiceNode' = mapTemplateServiceNode \ TemplatesOf(offers)
delServiceNode(offers, node) ==
  /\ mapServiceNode' = mapServiceNode \ (NamesOf(offers) \X {node})
  /\ mapTemplateServiceNode' = mapTemplateServiceNode \ TemplatesOf(offers)

\* A service outside mapServiceListenRpcEvent misses the event about node.
Unheard(node) ==
  [s \in Listeners |-> IF s \in rpcListeners THEN current[s] ELSE current[s] \ {node}]

\* serviceDiscoverySetNodeInfo, up to its event: the lock is taken and the node's
\* former services are forgotten.
SetNode(node, offers, retire) ==
  /\ writer = NoWriter /\ changes < MaxChanges
  /\ IF node \in DOMAIN mapRpc THEN delServiceNode(mapRpc[node].offers, node)
     ELSE UNCHANGED <<mapServiceNode, mapTemplateServiceNode>>
  /\ writer' = [op |-> "set", node |-> node, offers |-> offers, retire |-> retire,
                todo |-> rpcListeners]
  /\ changes' = changes + 1 /\ current' = Unheard(node)
  /\ UNCHANGED <<mapRpc, bound, rpcListeners, inbox, told>>

\* A node that a master announces, with the services of it that may be discovered.
SetNodeInfo(master, node, announced, retire) ==
  LET offers == Discovered(master, node, announced) IN
  offers # {} /\ SetNode(node, offers, retire)

\* OnStart of the discovery client sets the masters of the configuration, which
\* names no services of theirs.
addDiscoveryMaster(node) ==
  node \in MasterNodes \ DOMAIN mapRpc /\ SetNode(node, {}, FALSE)

\* DelNode up to its event.  Masters are never deleted.
DelNode(node) ==
  /\ writer = NoWriter /\ changes < MaxChanges
  /\ node \notin MasterNodes /\ node \in DOMAIN mapRpc
  /\ writer' = [op |-> "del", node |-> node, offers |-> mapRpc[node].offers,
                todo |-> rpcListeners]
  /\ changes' = changes + 1 /\ current' = Unheard(node)
  /\ UNCHANGED <<tableVars, bound, rpcListeners, inbox, told>>

\* NotifyAllService and castEvent for one service: only a service with a listener
\* for discovery gets the event, and only if its channel has room.
TriggerDiscoveryEvent(s) ==
  LET ev == [isDiscovery |-> writer.op = "set", node |-> writer.node, offers |-> writer.offers]
      delivered == "discover" \in bound[s] /\ Len(inbox[s]) < EventRoom
  IN
  /\ s \in writer.todo
  /\ writer' = [writer EXCEPT !.todo = @ \ {s}]
  /\ inbox' = IF delivered THEN [inbox EXCEPT ![s] = Append(@, ev)] ELSE inbox
  /\ current' = [current EXCEPT ![s] =
       IF delivered THEN @ \cup {writer.node} ELSE @ \ {writer.node}]
  /\ UNCHANGED <<tableVars, bound, rpcListeners, told, changes>>

\* The rest of serviceDiscoverySetNodeInfo.  A node that was unknown gets a client.
SetNodeDone ==
  LET w == writer IN
  /\ w.op = "set" /\ w.todo = {}
  /\ mapServiceNode' = mapServiceNode \cup (NamesOf(w.offers) \X {w.node})
  /\ mapTemplateServiceNode' = mapTemplateServiceNode \cup TemplatesOf(w.offers)
  /\ mapRpc' = [n \in DOMAIN mapRpc \cup {w.node} |->
       IF n # w.node THEN mapRpc[n]
       ELSE [offers |-> w.offers, retire |-> w.retire,
             connected |-> n \in DOMAIN mapRpc /\ mapRpc[n].connected]]
  /\ writer' = NoWriter
  /\ UNCHANGED <<bound, rpcListeners, inbox, told, current, changes>>

\* The rest of DelNode: the node's services, its entry and its client go.
DelNodeDone ==
  LET w == writer IN
  /\ w.op = "del" /\ w.todo = {}
  /\ delServiceNode(w.offers, w.node)
  /\ mapRpc' = [n \in DOMAIN mapRpc \ {w.node} |-> mapRpc[n]]
  /\ writer' = NoWriter
  /\ UNCHANGED <<bound, rpcListeners, inbox, told, current, changes>>

\* The client of a node connects, or loses its connection.
ClientEvent(node) ==
  /\ node \in DOMAIN mapRpc \ {LocalNode}
  /\ mapRpc' = [mapRpc EXCEPT ![node].connected = ~@]
  /\ UNCHANGED <<mapServiceNode, mapTemplateServiceNode, writer, bound, rpcListeners,
                 inbox, told, current, changes>>
-----------------------------------------------------------------------------
\* rpcEventLocker: NotifyAllService holds it until every service has its event.
EventsUnlocked == writer.todo = {}

\* A service is listed once, whatever it listens to.
RegRpcEvent(s) == EventsUnlocked /\ rpcListeners' = rpcListeners \cup {s}
UnRegRpcEvent(s) == EventsUnlocked /\ rpcListeners' = rpcListeners \ {s}

\* RegDiscoverListener; RegNodeConnListener and RegNatsConnListener ("conn").
RegListener(s, what) ==
  /\ what \notin bound[s] /\ RegRpcEvent(s)
  /\ bound' = [bound EXCEPT ![s] = @ \cup {what}]
  /\ UNCHANGED <<tableVars, writer, inbox, told, current, changes>>

\* Their opposites: the service is struck out whatever else it listens to.
UnRegListener(s, what) ==
  /\ what \in bound[s] /\ UnRegRpcEvent(s)
  /\ bound' = [bound EXCEPT ![s] = @ \ {what}]
  /\ UNCHANGED <<tableVars, writer, inbox, told, current, changes>>

\* OnDiscoverServiceEvent.  Without a listener the event is passed over.
OnDiscoverServiceEvent(s) ==
  LET ev == Head(inbox[s])
      heard == "discover" \in bound[s]
  IN
  /\ inbox[s] # <<>>
  /\ inbox' = [inbox EXCEPT ![s] = Tail(@)]
  /\ told' = IF heard THEN [told EXCEPT ![s][ev.node] = IF ev.isDiscovery THEN ev.offers ELSE {}]
             ELSE told
  /\ current' = IF heard THEN current ELSE [current EXCEPT ![s] = @ \ {ev.node}]
  /\ UNCHANGED <<tableVars, writer, bound, rpcListeners, changes>>

ClusterNext ==
  \/ \E master \in MasterNodes, n \in RemoteNodes, a \in Announcements, retire \in BOOLEAN :
       SetNodeInfo(master, n, a, retire)
  \/ \E n \in MasterNodes : addDiscoveryMaster(n)
  \/ \E n \in RemoteNodes : DelNode(n)
  \/ \E s \in Listeners : TriggerDiscoveryEvent(s)
  \/ SetNodeDone \/ DelNodeDone
  \/ \E n \in RemoteNodes : ClientEvent(n)
  \/ \E s \in Listeners, what \in {"discover", "conn"} : RegListener(s, what) \/ UnRegListener(s, what)
  \/ \E s \in Listeners : OnDiscoverServiceEvent(s)

ClusterSpec == ClusterInit /\ [][ClusterNext]_clusterVars
-----------------------------------------------------------------------------
(* The questions services ask, with the lock held for reading. *)

HasService(node, name) == <<name, node>> \in mapServiceNode
GetNodeByServiceName(name) == {p[2] : p \in {q \in mapServiceNode : q[1] = name}}
ServicesOfTemplate(t) == {p[2] : p \in {q \in mapTemplateServiceNode : q[1] = t}}

\* GetServiceInfoByTemplateService, as pairs; a service without nodes is left out.
GetServiceInfoByTemplateService(t) ==
  {p \in mapServiceNode : p[1] \in ServicesOfTemplate(t)}
\* GetNodeByTemplateServiceName gives up at a service without nodes.
GetNodeByTemplateServiceName(t) ==
  IF \A s \in ServicesOfTemplate(t) : GetNodeByServiceName(s) # {}
  THEN GetServiceInfoByTemplateService(t) ELSE {}

\* The nodes of a list whose clients are used: known, connected and, on demand, not
\* retired.
Usable(nodes, filterRetire) ==
  {n \in nodes \cap DOMAIN mapRpc : mapRpc[n].connected /\ ~(filterRetire /\ mapRpc[n].retire)}
GetNodeIdByService(name, filterRetire) == Usable(GetNodeByServiceName(name), filterRetire)
\* GetRpcClient: the client of a node named by the caller is not asked whether it is
\* connected.
GetRpcClient(node, name, filterRetire) ==
  IF node = NoNode THEN GetNodeIdByService(name, filterRetire)
  ELSE {n \in {node} \cap DOMAIN mapRpc : ~(filterRetire /\ mapRpc[n].retire)}
GetNodeIdByTemplateService(t, filterRetire) ==
  Usable({p[2] : p \in GetServiceInfoByTemplateService(t)}, filterRetire)

\* Service s got the last event about node n and has handled it.
HeardOf(s, n) == n \in current[s] /\ \A i \in DOMAIN inbox[s] : inbox[s][i].node # n

(* Whenever the tables can be read, they agree with each other and with    *)
(* the events that services were sent while they changed: a service that   *)
(* has handled the last event about a node finds exactly the services the  *)
(* event named, a client of the node when there are any, and no client    *)
(* when there are none unless the node is a master of the configuration; a *)
(* lookup by name finds every usable client of a known node that offers    *)
(* the service and no other, a lookup by template finds both ways the same *)
(* nodes, and only services some known node made from it.                  *)
LookupsAgree ==
  writer = NoWriter =>
    /\ \A s \in Listeners, n \in RemoteNodes :
         HeardOf(s, n) =>
           /\ NamesOf(told[s][n]) = {name \in {p[1] : p \in mapServiceNode} : HasService(n, name)}
           /\ GetRpcClient(n, "", FALSE) = {} => told[s][n] = {}
           /\ told[s][n] = {} => GetRpcClient(n, "", FALSE) = {} \/ n \in MasterNodes
    /\ \A name \in {p[1] : p \in mapServiceNode}, f \in BOOLEAN :
         GetRpcClient(NoNode, name, f) =
           {n \in DOMAIN mapRpc : /\ name \in NamesOf(mapRpc[n].offers)
                                  /\ mapRpc[n].connected /\ (f => ~mapRpc[n].retire)}
    /\ \A t \in {p[1] : p \in mapTemplateServiceNode} :
         /\ GetNodeByTemplateServiceName(t) = GetServiceInfoByTemplateService(t)
         /\ \A s \in ServicesOfTemplate(t) :
              \E n \in DOMAIN mapRpc : <<s, t>> \in mapRpc[n].offers
         /\ GetNodeIdByTemplateService(t, FALSE) =
              {n \in DOMAIN mapRpc : /\ NamesOf(mapRpc[n].offers) \cap ServicesOfTemplate(t) # {}
                                     /\ mapRpc[n].connected}
=============================================================================
