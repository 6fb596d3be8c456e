----------------------------- MODULE Discovery -----------------------------
(***************************************************************************)
(* Origin's own service discovery over TCP: package cluster, files         *)
(* origindiscovery.go and cluster.go.                                      *)
(*                                                                         *)
(* One master node runs the services DiscoveryMaster and DiscoveryClient;  *)
(* every other node runs a DiscoveryClient.  A node connects to the master *)
(* and registers; the master then opens a connection of its own to the     *)
(* node, over which it sends what changes.  The answer to a registration   *)
(* comes back on the node's connection, so it is not ordered with the      *)
(* notifications.                                                          *)
(*                                                                         *)
(* The information on a node (address, services, retire flag) is a version *)
(* number; 0 stands for none.  No node is private and all services are     *)
(* wanted, so that mapDiscovery and the cluster's maps of a node hold the  *)
(* same nodes, and the master itself is left out of them.                  *)
(***************************************************************************)
EXTENDS Integers, Sequences, FiniteSets

CONSTANTS
  Nodes,       \* the nodes other than the master
  Plans,       \* what may happen: how often a node may register (0 if it never
               \* starts), which nodes may retire and stop, and how often the
               \* master may lose its connection to a running node
  MaxReg,      \* bound on the registrations of a node
  ReplyFirst   \* an answer arrives before any notification sent meanwhile

ASSUME PlansAssumption ==
  Plans \subseteq [regs : [Nodes -> 0..MaxReg], retire : SUBSET Nodes, stop : SUBSET Nodes,
                   losses : [Nodes -> Nat]]
ASSUME RegAssumption == MaxReg \in Nat \ {0}
ASSUME ReplyAssumption == ReplyFirst \in BOOLEAN

Versions == 1..2

VARIABLES
  may,       \* the plan, fixed
  run,       \* every node: "off", "up", "stopping" or "gone"
  link,      \* the node's connection to the master is established
  info,      \* the version of a node's own information
  known,     \* mapDiscovery of a node: the version it has of every other
  pend,      \* the registrations of a node that are not answered
  nreg,      \* the number of registrations a node has sent
  retry,     \* a node has armed tryRegServiceDiscover's timer
  toM,       \* requests on the node's connection to the master
  replies,   \* answers on the node's connection to the master
  toC,       \* notifications on the master's connection to the node
  listed,    \* nodeInfo and mapNodeInfo of the master
  client,    \* mapRpc of the master: "none", "dial" or "up"
  opened,    \* connection events DiscoveryMaster has not handled
  closed,    \* disconnection events DiscoveryMaster has not handled
  localDel,  \* deletions the master's own DiscoveryClient has not handled
  lost       \* how often the master lost its connection to a running node

nodeVars == <<run, link, info, known, pend, nreg, retry>>
netVars == <<toM, replies, toC>>
masterVars == <<listed, client, opened, closed, localDel, lost>>
vars == <<may, nodeVars, netVars, masterVars>>

Init ==
  /\ may \in Plans
  /\ run = [c \in Nodes |-> "off"]
  /\ link = [c \in Nodes |-> FALSE]
  /\ info = [c \in Nodes |-> 1]
  /\ known = [c \in Nodes |-> [d \in Nodes |-> 0]]
  /\ pend = [c \in Nodes |-> {}]
  /\ nreg = [c \in Nodes |-> 0]
  /\ retry = [c \in Nodes |-> FALSE]
  /\ toM = [c \in Nodes |-> <<>>]
  /\ replies = [c \in Nodes |-> <<>>]
  /\ toC = [c \in Nodes |-> <<>>]
  /\ listed = [c \in Nodes |-> 0]
  /\ client = [c \in Nodes |-> "none"]
  /\ opened = [c \in Nodes |-> 0]
  /\ closed = [c \in Nodes |-> 0]
  /\ localDel = [c \in Nodes |-> 0]
  /\ lost = [c \in Nodes |-> 0]

\* The three forms of SubscribeDiscoverNotify the master sends.
NoNodes == [d \in Nodes |-> 0]
Full == [full |-> TRUE, nodes |-> listed, del |-> {}]
Added(d, v) == [full |-> FALSE, nodes |-> [NoNodes EXCEPT ![d] = v], del |-> {}]
Deleted(d) == [full |-> FALSE, nodes |-> NoNodes, del |-> {d}]
-----------------------------------------------------------------------------
(* A node.                                                                 *)

Start(c) ==
  /\ run[c] = "off" /\ may.regs[c] > 0
  /\ run' = [run EXCEPT ![c] = "up"]
  /\ UNCHANGED <<may, link, info, known, pend, nreg, retry, netVars, masterVars>>

\* The calls of a node are numbered.
generateSeq(c) == nreg[c] + 1

\* regServiceDiscover: the registration is written to the connection.
regServiceDiscover(c) ==
  /\ nreg[c] < may.regs[c]
  /\ nreg' = [nreg EXCEPT ![c] = @ + 1]
  /\ pend' = [pend EXCEPT ![c] = @ \cup {generateSeq(c)}]
  /\ toM' = [toM EXCEPT ![c] =
               Append(@, [type |-> "reg", id |-> generateSeq(c), v |-> info[c]])]

\* OnNodeConnected: a node that reaches the master registers with it.
OnNodeConnected(c) ==
  /\ run[c] = "up" /\ ~link[c]
  /\ link' = [link EXCEPT ![c] = TRUE]
  /\ regServiceDiscover(c)
  /\ UNCHANGED <<may, run, info, known, retry, replies, toC, masterVars>>

\* RPC_SubServiceDiscover: a full list deletes what it does not name, then
\* the nodes named are set; a node never enters itself.
KeepAbsent(c, m) == m.del \ {c}
WillDelete(c, m) ==
  (IF m.full THEN {d \in Nodes : m.nodes[d] = 0} ELSE {}) \cup (m.del \ {c})

NodesNamed(c, m) == {d \in Nodes \ {c} : m.nodes[d] # 0}

Subscribed(c, m) ==
  [d \in Nodes |-> IF d \in NodesNamed(c, m) THEN m.nodes[d]
                   ELSE IF d \in WillDelete(c, m) THEN 0 ELSE known[c][d]]

RPC_SubServiceDiscover(c) ==
  /\ run[c] = "up"
  /\ toC[c] # <<>>
  /\ ReplyFirst => replies[c] = <<>>
  /\ known' = [known EXCEPT ![c] = Subscribed(c, Head(toC[c]))]
  /\ toC' = [toC EXCEPT ![c] = Tail(@)]
  /\ UNCHANGED <<may, run, link, info, pend, nreg, retry, toM, replies, masterVars>>

\* The answer to a registration: one that comes after the timeout is dropped.
HandleReply(c) ==
  /\ run[c] = "up"
  /\ replies[c] # <<>>
  /\ replies' = [replies EXCEPT ![c] = Tail(@)]
  /\ IF Head(replies[c]).id \in pend[c]
     THEN /\ pend' = [pend EXCEPT ![c] = @ \ {Head(replies[c]).id}]
          /\ known' = [known EXCEPT ![c] = Subscribed(c, Head(replies[c]).notify)]
     ELSE UNCHANGED <<pend, known>>
  /\ UNCHANGED <<may, run, link, info, nreg, retry, toM, toC, masterVars>>

\* The registration times out and is tried again three seconds later.
RegTimeout(c) ==
  /\ nreg[c] < may.regs[c]
  /\ run[c] = "up" /\ ~retry[c]
  /\ \E id \in pend[c] : pend' = [pend EXCEPT ![c] = @ \ {id}]
  /\ retry' = [retry EXCEPT ![c] = TRUE]
  /\ UNCHANGED <<may, run, link, info, known, nreg, netVars, masterVars>>

tryRegServiceDiscover(c) ==
  /\ run[c] = "up" /\ retry[c] /\ link[c]
  /\ retry' = [retry EXCEPT ![c] = FALSE]
  /\ regServiceDiscover(c)
  /\ UNCHANGED <<may, run, link, info, known, replies, toC, masterVars>>

\* OnRetire: the node's information changes; the request is lost unless the
\* node is connected, and later registrations carry the change.
OnRetire(c) ==
  /\ c \in may.retire
  /\ run[c] = "up" /\ info[c] = 1
  /\ info' = [info EXCEPT ![c] = 2]
  /\ toM' = IF link[c] THEN [toM EXCEPT ![c] = Append(@, [type |-> "retire", id |-> 0, v |-> 2])]
            ELSE toM
  /\ UNCHANGED <<may, run, link, known, pend, nreg, retry, replies, toC, masterVars>>

\* OnRelease: UnRegServiceDiscover is called; the service waits for its
\* answer, at most three seconds.
OnRelease(c) ==
  /\ c \in may.stop
  /\ run[c] = "up"
  /\ run' = [run EXCEPT ![c] = "stopping"]
  /\ toM' = IF link[c] THEN [toM EXCEPT ![c] = Append(@, [type |-> "unreg", id |-> 0, v |-> 0])]
            ELSE toM
  /\ UNCHANGED <<may, link, info, known, pend, nreg, retry, replies, toC, masterVars>>

\* The process ends, answered or after the three seconds of the call, and
\* with it its connections.  What it has written still arrives, all but the
\* last call within these three seconds.
Exit(c) ==
  /\ run[c] = "stopping" /\ Len(toM[c]) <= 1
  /\ run' = [run EXCEPT ![c] = "gone"]
  /\ link' = [link EXCEPT ![c] = FALSE]
  /\ replies' = [replies EXCEPT ![c] = <<>>]
  /\ toC' = [toC EXCEPT ![c] = <<>>]
  /\ pend' = [pend EXCEPT ![c] = {}]
  /\ UNCHANGED <<may, info, known, nreg, retry, toM, masterVars>>
-----------------------------------------------------------------------------
(* The master's cluster maps and its connections.                          *)

\* DelNode closes the client; only one that was connected has a running
\* agent whose OnClose notifies DiscoveryMaster.
ClosesUnopened(d) == [closed EXCEPT ![d] = @ + 1]
ClosedBy(d) == [closed EXCEPT ![d] = IF client[d] = "up" THEN @ + 1 ELSE @]

\* The master dials every node it has a client for, and again after a loss.
Connect(c) ==
  /\ client[c] = "dial" /\ run[c] \in {"up", "stopping"}
  /\ client' = [client EXCEPT ![c] = "up"]
  /\ opened' = [opened EXCEPT ![c] = @ + 1]
  /\ UNCHANGED <<may, nodeVars, netVars, listed, closed, localDel, lost>>

\* The agent's OnClose notifies DiscoveryMaster; the client dials again.
Disconnect(c) ==
  /\ client[c] = "up" /\ run[c] = "gone"
  /\ closed' = ClosedBy(c)
  /\ client' = [client EXCEPT ![c] = "dial"]
  /\ UNCHANGED <<may, nodeVars, netVars, listed, opened, localDel, lost>>

\* The same when the connection breaks and the node still runs: what it has
\* not received is gone.
LoseConnection(c) ==
  /\ lost[c] < may.losses[c]
  /\ client[c] = "up" /\ run[c] # "gone"
  /\ lost' = [lost EXCEPT ![c] = @ + 1]
  /\ closed' = ClosedBy(c)
  /\ client' = [client EXCEPT ![c] = "dial"]
  /\ \E n \in 0..Len(toC[c]) : toC' = [toC EXCEPT ![c] = SubSeq(@, 1, n)]
  /\ UNCHANGED <<may, nodeVars, toM, replies, listed, opened, localDel>>

\* The deletion that CastGo also sends to the master's own DiscoveryClient.
LocalDelete(c) ==
  /\ localDel[c] > 0
  /\ localDel' = [localDel EXCEPT ![c] = @ - 1]
  /\ closed' = ClosedBy(c)
  /\ client' = [client EXCEPT ![c] = "none"]
  /\ \E kept \in {<<>>, toC[c]} : toC' = [toC EXCEPT ![c] = kept]
  /\ UNCHANGED <<may, nodeVars, toM, replies, listed, opened, lost>>
-----------------------------------------------------------------------------
(* The service DiscoveryMaster.                                            *)

\* A notification m to the nodes cs: those that are not connected miss it.
\* What was sent to the nodes in cut may be gone with their connection.
Send(cs, m, cut) ==
  \E kept \in [cut -> BOOLEAN] :
    toC' = [c \in Nodes |->
      LET before == IF c \in cut /\ ~kept[c] THEN <<>> ELSE toC[c]
      IN  IF c \in cs /\ client[c] = "up" THEN Append(before, m) ELSE before]

RpcCastTargets == {c \in Nodes : listed[c] # 0}

\* OnNodeConnected: a node the master reaches gets the full list.
MasterNodeConnected(c) ==
  /\ opened[c] > 0
  /\ opened' = [opened EXCEPT ![c] = @ - 1]
  /\ Send({c}, Full, {})
  /\ UNCHANGED <<may, nodeVars, toM, replies, listed, client, closed, localDel, lost>>

\* OnNodeDisconnect for a node that is registered.
DropsOnlyClient(c) ==
  /\ client' = [client EXCEPT ![c] = "none"]
  /\ UNCHANGED <<may, listed, localDel, toC>>
Unlist(c) ==
  /\ listed' = [listed EXCEPT ![c] = 0]
  /\ client' = [client EXCEPT ![c] = "none"]
  /\ localDel' = [localDel EXCEPT ![c] = @ + 1]
  /\ Send(Nodes \ {c}, Deleted(c), {c})

OnNodeDisconnect(c) ==
  /\ closed[c] > 0
  /\ IF listed[c] = 0
     THEN /\ closed' = [closed EXCEPT ![c] = @ - 1]
          /\ UNCHANGED <<listed, client, localDel, toC>>
     ELSE /\ closed' = [ClosedBy(c) EXCEPT ![c] = @ - 1]
          /\ Unlist(c)
  /\ UNCHANGED <<may, nodeVars, toM, replies, opened, lost>>

\* addNodeInfo keeps the entry of a node that is already listed.
addNodeInfo(c, v) == IF listed[c] # 0 THEN listed[c] ELSE v

Request(c, t) == toM[c] # <<>> /\ Head(toM[c]).type = t
Handled(c) == toM' = [toM EXCEPT ![c] = Tail(@)]

\* RPC_RegServiceDiscover: the others are told first; then the node is
\* stored, its old client deleted and a new one created.
RPC_RegServiceDiscover(c) ==
  LET req == Head(toM[c])
      now == [listed EXCEPT ![c] = addNodeInfo(c, req.v)] IN
  /\ Request(c, "reg")
  /\ Handled(c)
  /\ Send(RpcCastTargets, Added(c, req.v), {c})
  /\ listed' = now
  /\ closed' = ClosedBy(c)
  /\ client' = [client EXCEPT ![c] = "dial"]
  /\ replies' = [replies EXCEPT ![c] = Append(@,
       [id |-> req.id, notify |-> [full |-> TRUE, nodes |-> now, del |-> {}]])]
  /\ UNCHANGED <<may, nodeVars, opened, localDel, lost>>

\* RPC_NodeRetire: the entry is updated if there is one; all are told.
updateNodeInfo(c, v) ==
  IF listed[c] = 0 THEN listed ELSE [listed EXCEPT ![c] = v]

RPC_NodeRetire(c) ==
  /\ Request(c, "retire")
  /\ Handled(c)
  /\ listed' = updateNodeInfo(c, Head(toM[c]).v)
  /\ Send(RpcCastTargets, Added(c, Head(toM[c]).v), {})
  /\ UNCHANGED <<may, nodeVars, replies, client, opened, closed, localDel, lost>>

\* RPC_UnRegServiceDiscover is OnNodeDisconnect on request.
RPC_UnRegServiceDiscover(c) ==
  /\ Request(c, "unreg")
  /\ Handled(c)
  /\ IF listed[c] = 0
     THEN UNCHANGED <<listed, client, localDel, toC, closed>>
     ELSE /\ closed' = ClosedBy(c)
          /\ Unlist(c)
  /\ UNCHANGED <<may, nodeVars, replies, opened, lost>>
-----------------------------------------------------------------------------
Next ==
  \/ \E c \in Nodes : Start(c)
  \/ \E c \in Nodes : OnNodeConnected(c)
  \/ \E c \in Nodes : RPC_SubServiceDiscover(c)
  \/ \E c \in Nodes : HandleReply(c)
  \/ \E c \in Nodes : RegTimeout(c)
  \/ \E c \in Nodes : tryRegServiceDiscover(c)
  \/ \E c \in Nodes : OnRetire(c)
  \/ \E c \in Nodes : OnRelease(c)
  \/ \E c \in Nodes : Exit(c)
  \/ \E c \in Nodes : Connect(c)
  \/ \E c \in Nodes : Disconnect(c)
  \/ \E c \in Nodes : LoseConnection(c)
  \/ \E c \in Nodes : LocalDelete(c)
  \/ \E c \in Nodes : MasterNodeConnected(c)
  \/ \E c \in Nodes : OnNodeDisconnect(c)
  \/ \E c \in Nodes : RPC_RegServiceDiscover(c)
  \/ \E c \in Nodes : RPC_NodeRetire(c)
  \/ \E c \in Nodes : RPC_UnRegServiceDiscover(c)

(* Goroutines are scheduled, dialling is repeated until it succeeds, and   *)
(* what a connection carries arrives unless it breaks; whether a node      *)
(* starts, retires or stops is up to its operator.                         *)
Fairness ==
  \A c \in Nodes :
    /\ WF_vars(OnNodeConnected(c)) /\ WF_vars(RPC_SubServiceDiscover(c))
    /\ WF_vars(HandleReply(c)) /\ WF_vars(tryRegServiceDiscover(c))
    /\ WF_vars(Exit(c)) /\ WF_vars(Connect(c))
    /\ WF_vars(Disconnect(c)) /\ WF_vars(LocalDelete(c))
    /\ WF_vars(MasterNodeConnected(c)) /\ WF_vars(OnNodeDisconnect(c))
    /\ WF_vars(RPC_RegServiceDiscover(c)) /\ WF_vars(RPC_NodeRetire(c))
    /\ WF_vars(RPC_UnRegServiceDiscover(c))
Spec == Init /\ [][Next]_vars /\ Fairness
-----------------------------------------------------------------------------
(* Properties.                                                             *)

Requests == [type : {"reg", "retire", "unreg"}, id : 0..MaxReg, v : 0..2]
Notifies == [full : BOOLEAN, nodes : [Nodes -> {0} \cup Versions], del : SUBSET Nodes]
Answers == [id : 0..MaxReg, notify : Notifies]

(* The types of the state: registrations are numbered from 1 and every     *)
(* message has the form its receiver expects.                              *)
TypeOK ==
  /\ may \in Plans
  /\ run \in [Nodes -> {"off", "up", "stopping", "gone"}]
  /\ link \in [Nodes -> BOOLEAN] /\ retry \in [Nodes -> BOOLEAN]
  /\ info \in [Nodes -> Versions]
  /\ known \in [Nodes -> [Nodes -> {0} \cup Versions]]
  /\ nreg \in [Nodes -> 0..MaxReg] /\ pend \in [Nodes -> SUBSET (1..MaxReg)]
  /\ toM \in [Nodes -> Seq(Requests)]
  /\ replies \in [Nodes -> Seq(Answers)]
  /\ toC \in [Nodes -> Seq(Notifies)]
  /\ listed \in [Nodes -> {0} \cup Versions]
  /\ client \in [Nodes -> {"none", "dial", "up"}]
  /\ opened \in [Nodes -> Nat] /\ closed \in [Nodes -> Nat] /\ localDel \in [Nodes -> Nat]
  /\ lost \in [Nodes -> Nat]

(* The master lists a node only while it keeps a client for it, or while   *)
(* the event that unlists it is on its way: a listed node hears of changes. *)
(* A third registration breaks this, or a second one after a connection    *)
(* was lost: the deletion sent meanwhile to the master's own DiscoveryClient *)
(* may come after it and take the new client (RPC_SubServiceDiscover of the *)
(* master, DelNode).                                                       *)
ListedHasClient ==
  \A c \in Nodes :
    listed[c] # 0 /\ nreg[c] + lost[c] <= 2 => client[c] # "none" \/ closed[c] > 0

\* RegTimeout let node c register a second time.
Again(c) == nreg[c] > 1

(* A node that runs is struck from the master's list for two reasons only, *)
(* its own request and its end apart: the master lost its connection to    *)
(* the node, or the node registered a second time, which closes the        *)
(* master's client; in both cases OnNodeDisconnect knows the node id only. *)
RunningStaysListed ==
  [][\A c \in Nodes :
       listed[c] # 0 /\ listed'[c] = 0 /\ ~Again(c) /\ lost[c] = 0 => run[c] # "up"]_vars

\* The master and the running nodes agree on who runs, and how.
Synchronised ==
  \A c \in Nodes :
    /\ listed[c] = IF run[c] = "up" THEN info[c] ELSE 0
    /\ run[c] = "up" =>
         \A d \in Nodes \ {c} : known[c][d] = IF run[d] = "up" THEN info[d] ELSE 0

(* The master brings all nodes to one view: in the end a running node      *)
(* knows exactly the other running nodes, with their last information, and *)
(* the master lists exactly the running ones (RPC_RegServiceDiscover,      *)
(* RPC_SubServiceDiscover, OnNodeConnected of both sides).  Not so once a  *)
(* node was struck while it runs: nothing makes it register again.         *)
EventuallySynchronised ==
  <>[](Synchronised \/ \E c \in Nodes : Again(c) \/ lost[c] > 0)
=============================================================================
