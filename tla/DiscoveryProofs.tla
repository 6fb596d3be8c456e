-------------------------- MODULE DiscoveryProofs ---------------------------
(***************************************************************************)
(* Proofs about the service discovery for every set of nodes, every plan   *)
(* and every number of registrations.                                      *)
(*                                                                         *)
(* The argument counts registrations.  They are numbered and arrive in     *)
(* order, so a lower bound on the ones that still wait at the master       *)
(* (Later) says how many it has handled: it takes one to list a node, a    *)
(* second to close the client of a running node, and a third to list the   *)
(* node again while the deletion that followed is still on its way.  A     *)
(* connection the master loses counts as a registration does.              *)
(***************************************************************************)
EXTENDS Discovery, SequenceTheorems, TLAPS

\* The registrations of node c that the master has not handled are later
\* than the first k.
Later(c, k) == \A i \in 1..Len(toM[c]) : toM[c][i].type = "reg" => toM[c][i].id > k

\* Requests arrive in the order they are sent; the last one of a node that
\* stops is unreg, and only that one may be left when the process is gone.
QueueOK(c) ==
  /\ \A i \in 1..Len(toM[c]) : toM[c][i].type = "reg" => toM[c][i].id \in 1..nreg[c]
  /\ \A i, j \in 1..Len(toM[c]) :
       toM[c][i].type = "reg" /\ toM[c][j].type = "reg" /\ i < j
         => toM[c][i].id < toM[c][j].id
  /\ ~link[c] /\ run[c] # "gone" => toM[c] = <<>>
  /\ \A i \in 1..Len(toM[c]) :
       toM[c][i].type = "unreg" <=> i = Len(toM[c]) /\ run[c] \in {"stopping", "gone"}
  /\ run[c] = "gone" => Len(toM[c]) <= 1
  /\ \A i \in 1..Len(toM[c]) : toM[c][i].type = "retire" => toM[c][i].v = 2

QueueInv == \A c \in Nodes : QueueOK(c)

\* An event that takes node c from the master's tables is on its way.
Unlisting(c) == closed[c] > 0 \/ localDel[c] > 0

CountOK(c) ==
  /\ listed[c] # 0 \/ client[c] # "none" \/ Unlisting(c) => Later(c, 1) /\ nreg[c] >= 1
  /\ Unlisting(c) => Later(c, 2) \/ lost[c] > 0
  /\ Unlisting(c) => nreg[c] >= 2 \/ run[c] \in {"stopping", "gone"} \/ lost[c] > 0
  /\ listed[c] # 0 /\ localDel[c] > 0 => nreg[c] + lost[c] >= 3
  /\ listed[c] # 0 /\ nreg[c] + lost[c] <= 2 => client[c] # "none" \/ closed[c] > 0

CountInv == \A c \in Nodes : CountOK(c)

IInv == TypeOK /\ QueueInv /\ CountInv

-----------------------------------------------------------------------------
\* What Head, Tail and Append return, in the form the steps below need.
LEMMA SeqFacts ==
  ASSUME NEW S, NEW s \in Seq(S)
  PROVE  /\ Len(s) \in Nat
         /\ \A i \in 1..Len(s) : s[i] \in S
         /\ \A e \in S : /\ Append(s, e) \in Seq(S)
                         /\ Len(Append(s, e)) = Len(s) + 1
                         /\ \A i \in 1..(Len(s) + 1) :
                              Append(s, e)[i] = IF i <= Len(s) THEN s[i] ELSE e
         /\ s # <<>> => /\ Head(s) \in S /\ Head(s) = s[1] /\ Len(s) > 0
                        /\ Tail(s) \in Seq(S) /\ Len(Tail(s)) = Len(s) - 1
                        /\ \A i \in 1..Len(Tail(s)) : Tail(s)[i] = s[i + 1]
<1>1. \A e \in S : /\ Append(s, e) \in Seq(S)
                   /\ Len(Append(s, e)) = Len(s) + 1
                   /\ \A i \in 1..(Len(s) + 1) :
                        Append(s, e)[i] = IF i <= Len(s) THEN s[i] ELSE e
  BY AppendProperties
<1>2. s # <<>> => /\ Head(s) \in S /\ Head(s) = s[1] /\ Len(s) > 0
                  /\ Tail(s) \in Seq(S) /\ Len(Tail(s)) = Len(s) - 1
                  /\ \A i \in 1..Len(Tail(s)) : Tail(s)[i] = s[i + 1]
  BY HeadTailProperties
<1> QED  BY <1>1, <1>2, ElementOfSeq

\* A notification of the right form keeps the connections well-typed.
LEMMA SendType ==
  ASSUME TypeOK, NEW cs, NEW m \in Notifies, NEW cut, Send(cs, m, cut)
  PROVE  toC' \in [Nodes -> Seq(Notifies)]
<1>1. PICK kept \in [cut -> BOOLEAN] :
        toC' = [c \in Nodes |->
          LET before == IF c \in cut /\ ~kept[c] THEN <<>> ELSE toC[c]
          IN  IF c \in cs /\ client[c] = "up" THEN Append(before, m) ELSE before]
  BY DEF Send
<1>2. ASSUME NEW c \in Nodes  PROVE toC'[c] \in Seq(Notifies)
  <2> DEFINE before == IF c \in cut /\ ~kept[c] THEN <<>> ELSE toC[c]
  <2>1. before \in Seq(Notifies)
    BY DEF TypeOK
  <2>2. Append(before, m) \in Seq(Notifies)
    BY <2>1
  <2>3. toC'[c] = IF c \in cs /\ client[c] = "up" THEN Append(before, m) ELSE before
    BY <1>1
  <2> QED  BY <2>1, <2>2, <2>3
<1> QED  BY <1>1, <1>2

LEMMA NotifyTypes ==
  ASSUME TypeOK
  PROVE  /\ Full \in Notifies
         /\ \A c \in Nodes, v \in 0..2 : Added(c, v) \in Notifies
         /\ \A c \in Nodes : Deleted(c) \in Notifies
         /\ \A l \in [Nodes -> {0} \cup Versions] :
              [full |-> TRUE, nodes |-> l, del |-> {}] \in Notifies
  BY DEF TypeOK, Full, Added, Deleted, NoNodes, Notifies, Versions

\* What a node keeps of a notification.
LEMMA SubscribedType ==
  ASSUME TypeOK, NEW c \in Nodes, NEW m \in Notifies
  PROVE  Subscribed(c, m) \in [Nodes -> {0} \cup Versions]
  BY DEF TypeOK, Notifies, Subscribed, NodesNamed

\* Counters of events that are waiting.
LEMMA OneLess ==
  ASSUME NEW f \in [Nodes -> Nat], NEW c \in Nodes, f[c] > 0
  PROVE  [f EXCEPT ![c] = @ - 1] \in [Nodes -> Nat]
<1>1. f[c] - 1 \in Nat
  OBVIOUS
<1> QED  BY <1>1

LEMMA ClosedByType ==
  ASSUME TypeOK, NEW c \in Nodes
  PROVE  ClosedBy(c) \in [Nodes -> Nat]
  BY DEF TypeOK, ClosedBy

\* The first request of a node's connection.
LEMMA RequestType ==
  ASSUME TypeOK, NEW c \in Nodes, toM[c] # <<>>
  PROVE  /\ Head(toM[c]) \in Requests /\ Head(toM[c]).v \in 0..2 /\ Head(toM[c]).id \in 0..MaxReg
         /\ Handled(c) => toM' \in [Nodes -> Seq(Requests)]
<1>1. toM[c] \in Seq(Requests)
  BY DEF TypeOK
<1>2. Head(toM[c]) \in Requests /\ Tail(toM[c]) \in Seq(Requests)
  BY <1>1, SeqFacts
<1>3. Handled(c) => toM' \in [Nodes -> Seq(Requests)]
  BY <1>2 DEF TypeOK, Handled
<1> QED  BY <1>2, <1>3 DEF Requests

LEMMA RegType ==
  ASSUME TypeOK, NEW c \in Nodes, regServiceDiscover(c)
  PROVE  /\ nreg' \in [Nodes -> 0..MaxReg] /\ pend' \in [Nodes -> SUBSET (1..MaxReg)]
         /\ toM' \in [Nodes -> Seq(Requests)]
<1>1. nreg[c] + 1 \in 1..MaxReg
  BY PlansAssumption, RegAssumption DEF TypeOK, regServiceDiscover
<1> DEFINE req == [type |-> "reg", id |-> generateSeq(c), v |-> info[c]]
<1>2. req \in Requests
  BY <1>1 DEF TypeOK, Requests, Versions, generateSeq
<1>3. toM[c] \in Seq(Requests) /\ Append(toM[c], req) \in Seq(Requests)
  BY <1>2 DEF TypeOK
<1>4. toM' = [toM EXCEPT ![c] = Append(toM[c], req)]
  BY DEF regServiceDiscover
<1> HIDE DEF req
<1>5. toM' \in [Nodes -> Seq(Requests)]
  BY <1>3, <1>4 DEF TypeOK
<1> QED  BY <1>1, <1>5 DEF TypeOK, regServiceDiscover, generateSeq

LEMMA UnlistType ==
  ASSUME TypeOK, NEW c \in Nodes, Unlist(c)
  PROVE  /\ listed' \in [Nodes -> {0} \cup Versions]
         /\ client' \in [Nodes -> {"none", "dial", "up"}]
         /\ localDel' \in [Nodes -> Nat]
         /\ toC' \in [Nodes -> Seq(Notifies)]
<1>1. toC' \in [Nodes -> Seq(Notifies)]
  BY SendType, NotifyTypes DEF Unlist
<1>2. localDel' \in [Nodes -> Nat]
  <2>1. localDel[c] + 1 \in Nat
    BY DEF TypeOK
  <2> QED  BY <2>1 DEF TypeOK, Unlist
<1> QED  BY <1>1, <1>2 DEF TypeOK, Unlist

LEMMA InitTypeOK == Init => TypeOK
  BY PlansAssumption, RegAssumption DEF Init, TypeOK, Versions

LEMMA NextTypeOK == TypeOK /\ [Next]_vars => TypeOK'
<1> SUFFICES ASSUME TypeOK, [Next]_vars PROVE TypeOK'
  OBVIOUS
<1> USE DEF nodeVars, netVars, masterVars
<1>1. ASSUME NEW c \in Nodes, Start(c) PROVE TypeOK'
  BY <1>1 DEF TypeOK, Start
<1>2. ASSUME NEW c \in Nodes, OnNodeConnected(c) PROVE TypeOK'
  BY <1>2, RegType DEF TypeOK, OnNodeConnected
<1>3. ASSUME NEW c \in Nodes, RPC_SubServiceDiscover(c) PROVE TypeOK'
  <2>1. toC[c] \in Seq(Notifies) /\ toC[c] # <<>>
    BY <1>3 DEF TypeOK, RPC_SubServiceDiscover
  <2>2. Head(toC[c]) \in Notifies /\ Tail(toC[c]) \in Seq(Notifies)
    BY <2>1, SeqFacts
  <2>3. Subscribed(c, Head(toC[c])) \in [Nodes -> {0} \cup Versions]
    BY <2>2, SubscribedType
  <2>4. /\ known' \in [Nodes -> [Nodes -> {0} \cup Versions]]
        /\ toC' \in [Nodes -> Seq(Notifies)]
    BY <1>3, <2>2, <2>3 DEF TypeOK, RPC_SubServiceDiscover
  <2> QED  BY <1>3, <2>4 DEF TypeOK, RPC_SubServiceDiscover
<1>4. ASSUME NEW c \in Nodes, HandleReply(c) PROVE TypeOK'
  <2>1. replies[c] \in Seq(Answers) /\ replies[c] # <<>>
    BY <1>4 DEF TypeOK, HandleReply
  <2>2. Head(replies[c]) \in Answers /\ Tail(replies[c]) \in Seq(Answers)
    BY <2>1, SeqFacts
  <2>3. Subscribed(c, Head(replies[c]).notify) \in [Nodes -> {0} \cup Versions]
    BY <2>2, SubscribedType DEF Answers
  <2>4. /\ known' \in [Nodes -> [Nodes -> {0} \cup Versions]]
        /\ replies' \in [Nodes -> Seq(Answers)]
        /\ pend' \in [Nodes -> SUBSET (1..MaxReg)]
    <3>1. CASE Head(replies[c]).id \in pend[c]
      <4>1. /\ pend' = [pend EXCEPT ![c] = @ \ {Head(replies[c]).id}]
            /\ known' = [known EXCEPT ![c] = Subscribed(c, Head(replies[c]).notify)]
            /\ replies' = [replies EXCEPT ![c] = Tail(@)]
        BY <1>4, <3>1 DEF HandleReply
      <4> QED  BY <2>2, <2>3, <4>1 DEF TypeOK
    <3>2. CASE Head(replies[c]).id \notin pend[c]
      BY <1>4, <2>2, <3>2 DEF TypeOK, HandleReply
    <3> QED  BY <3>1, <3>2
  <2> QED  BY <1>4, <2>4 DEF TypeOK, HandleReply
<1>5. ASSUME NEW c \in Nodes, RegTimeout(c) PROVE TypeOK'
  BY <1>5 DEF TypeOK, RegTimeout
<1>6. ASSUME NEW c \in Nodes, tryRegServiceDiscover(c) PROVE TypeOK'
  BY <1>6, RegType DEF TypeOK, tryRegServiceDiscover
<1>7. ASSUME NEW c \in Nodes, OnRetire(c) PROVE TypeOK'
  <2>1. [type |-> "retire", id |-> 0, v |-> 2] \in Requests
    BY RegAssumption DEF Requests
  <2>2. toM' \in [Nodes -> Seq(Requests)]
    BY <1>7, <2>1 DEF TypeOK, OnRetire
  <2> QED  BY <1>7, <2>2 DEF TypeOK, OnRetire, Versions
<1>8. ASSUME NEW c \in Nodes, OnRelease(c) PROVE TypeOK'
  <2>1. [type |-> "unreg", id |-> 0, v |-> 0] \in Requests
    BY RegAssumption DEF Requests
  <2>2. toM' \in [Nodes -> Seq(Requests)]
    BY <1>8, <2>1 DEF TypeOK, OnRelease
  <2> QED  BY <1>8, <2>2 DEF TypeOK, OnRelease
<1>9. ASSUME NEW c \in Nodes, Exit(c) PROVE TypeOK'
  <2>1. toC' \in [Nodes -> Seq(Notifies)] /\ replies' \in [Nodes -> Seq(Answers)]
    BY <1>9 DEF TypeOK, Exit
  <2> QED  BY <1>9, <2>1 DEF TypeOK, Exit
<1>10. ASSUME NEW c \in Nodes, Connect(c) PROVE TypeOK'
  BY <1>10 DEF TypeOK, Connect
<1>11. ASSUME NEW c \in Nodes, Disconnect(c) PROVE TypeOK'
  BY <1>11, ClosedByType DEF TypeOK, Disconnect
<1>19. ASSUME NEW c \in Nodes, LoseConnection(c) PROVE TypeOK'
  <2>1. PICK n \in 0..Len(toC[c]) : toC' = [toC EXCEPT ![c] = SubSeq(@, 1, n)]
    BY <1>19 DEF LoseConnection
  <2>2. toC[c] \in Seq(Notifies)
    BY DEF TypeOK
  <2>3. SubSeq(toC[c], 1, n) \in Seq(Notifies)
    <3>1. Len(toC[c]) \in Nat /\ \A i \in 1..n : i \in 1..Len(toC[c])
      BY <2>2
    <3>2. \A i \in 1..n : toC[c][i] \in Notifies
      BY <2>2, <3>1, SeqFacts
    <3> QED  BY <3>2, SubSeqProperties, <2>2
  <2>4. toC' \in [Nodes -> Seq(Notifies)]
    BY <2>1, <2>3 DEF TypeOK
  <2>5. lost' \in [Nodes -> Nat]
    <3>1. lost[c] + 1 \in Nat
      BY DEF TypeOK
    <3> QED  BY <1>19, <3>1 DEF TypeOK, LoseConnection
  <2> QED  BY <1>19, <2>4, <2>5, ClosedByType DEF TypeOK, LoseConnection
<1>12. ASSUME NEW c \in Nodes, LocalDelete(c) PROVE TypeOK'
  <2>1. toC' \in [Nodes -> Seq(Notifies)]
    <3>1. PICK kept \in {<<>>, toC[c]} : toC' = [toC EXCEPT ![c] = kept]
      BY <1>12 DEF LocalDelete
    <3>2. kept = <<>> \/ kept = toC[c]
      BY <3>1
    <3>3. <<>> \in Seq(Notifies) /\ toC[c] \in Seq(Notifies)
      BY EmptySeq DEF TypeOK
    <3>4. kept \in Seq(Notifies)
      BY <3>2, <3>3, Zenon
    <3> QED  BY <3>1, <3>4 DEF TypeOK
  <2>2. localDel' \in [Nodes -> Nat]
    BY <1>12, OneLess DEF TypeOK, LocalDelete
  <2> QED  BY <1>12, <2>1, <2>2, ClosedByType DEF TypeOK, LocalDelete
<1>13. ASSUME NEW c \in Nodes, MasterNodeConnected(c) PROVE TypeOK'
  <2>1. toC' \in [Nodes -> Seq(Notifies)]
    BY <1>13, SendType, NotifyTypes DEF MasterNodeConnected
  <2>2. opened' \in [Nodes -> Nat]
    BY <1>13, OneLess DEF TypeOK, MasterNodeConnected
  <2> QED  BY <1>13, <2>1, <2>2 DEF TypeOK, MasterNodeConnected
<1>14. ASSUME NEW c \in Nodes, OnNodeDisconnect(c) PROVE TypeOK'
  <2>1. CASE listed[c] = 0
    <3>1. closed[c] > 0 /\ closed' = [closed EXCEPT ![c] = @ - 1]
      BY <1>14, <2>1 DEF OnNodeDisconnect
    <3>2. closed' \in [Nodes -> Nat]
      BY <3>1, OneLess DEF TypeOK
    <3> QED  BY <1>14, <2>1, <3>2 DEF TypeOK, OnNodeDisconnect
  <2>2. CASE listed[c] # 0
    <3>1. Unlist(c) /\ closed' = [ClosedBy(c) EXCEPT ![c] = @ - 1]
      BY <1>14, <2>2 DEF OnNodeDisconnect
    <3>2. closed' \in [Nodes -> Nat]
      BY <1>14, <3>1 DEF TypeOK, OnNodeDisconnect, ClosedBy
    <3> QED  BY <1>14, <3>1, <3>2, UnlistType DEF TypeOK, OnNodeDisconnect
  <2> QED  BY <2>1, <2>2
<1>15. ASSUME NEW c \in Nodes, RPC_RegServiceDiscover(c) PROVE TypeOK'
  <2> DEFINE req == Head(toM[c])
             now == [listed EXCEPT ![c] = addNodeInfo(c, req.v)]
             ans == [id |-> req.id, notify |-> [full |-> TRUE, nodes |-> now, del |-> {}]]
  <2>1. toM[c] # <<>> /\ Handled(c) /\ Send(RpcCastTargets, Added(c, req.v), {c})
    BY <1>15 DEF RPC_RegServiceDiscover, Request
  <2>2. req.v \in 0..2 /\ req.id \in 0..MaxReg /\ toM' \in [Nodes -> Seq(Requests)]
    BY <2>1, RequestType
  <2>3. now \in [Nodes -> {0} \cup Versions]
    BY <2>2 DEF TypeOK, Versions, addNodeInfo
  <2>4. ans \in Answers
    BY <2>2, <2>3, NotifyTypes DEF Answers
  <2>5. toC' \in [Nodes -> Seq(Notifies)]
    BY <2>1, <2>2, SendType, NotifyTypes
  <2>6. Append(replies[c], ans) \in Seq(Answers)
    BY <2>4 DEF TypeOK
  <2>7. replies' = [replies EXCEPT ![c] = Append(replies[c], ans)] /\ listed' = now
    BY <1>15 DEF RPC_RegServiceDiscover
  <2> HIDE DEF ans, now, req
  <2>8. replies' \in [Nodes -> Seq(Answers)] /\ listed' \in [Nodes -> {0} \cup Versions]
    BY <2>3, <2>6, <2>7 DEF TypeOK
  <2> QED  BY <1>15, <2>2, <2>5, <2>8, ClosedByType DEF TypeOK, RPC_RegServiceDiscover
<1>16. ASSUME NEW c \in Nodes, RPC_NodeRetire(c) PROVE TypeOK'
  <2>1. toM[c] # <<>> /\ Handled(c) /\ Send(RpcCastTargets, Added(c, Head(toM[c]).v), {})
    BY <1>16 DEF RPC_NodeRetire, Request
  <2>2. Head(toM[c]).v \in 0..2 /\ toM' \in [Nodes -> Seq(Requests)]
    BY <2>1, RequestType
  <2>3. toC' \in [Nodes -> Seq(Notifies)]
    BY <2>1, <2>2, SendType, NotifyTypes
  <2>4. listed' \in [Nodes -> {0} \cup Versions]
    BY <1>16, <2>2 DEF TypeOK, RPC_NodeRetire, updateNodeInfo, Versions
  <2> QED  BY <1>16, <2>2, <2>3, <2>4 DEF TypeOK, RPC_NodeRetire
<1>17. ASSUME NEW c \in Nodes, RPC_UnRegServiceDiscover(c) PROVE TypeOK'
  <2>1. toM[c] # <<>> /\ Handled(c)
    BY <1>17 DEF RPC_UnRegServiceDiscover, Request
  <2>2. toM' \in [Nodes -> Seq(Requests)]
    BY <2>1, RequestType
  <2>3. CASE listed[c] = 0
    BY <1>17, <2>2, <2>3 DEF TypeOK, RPC_UnRegServiceDiscover
  <2>4. CASE listed[c] # 0
    BY <1>17, <2>2, <2>4, UnlistType, ClosedByType DEF TypeOK, RPC_UnRegServiceDiscover
  <2> QED  BY <2>3, <2>4
<1>18. CASE UNCHANGED vars
  BY <1>18 DEF TypeOK, vars
<1> QED
  BY <1>1, <1>2, <1>3, <1>4, <1>5, <1>6, <1>7, <1>8, <1>9, <1>10, <1>11, <1>12, <1>13,
     <1>14, <1>15, <1>16, <1>17, <1>18, <1>19 DEF Next
-----------------------------------------------------------------------------
(* How steps change the requests on a connection.                          *)

LEMMA HandledFacts ==
  ASSUME TypeOK, NEW c \in Nodes, toM[c] # <<>>, Handled(c)
  PROVE  /\ Len(toM[c]) \in Nat /\ Len(toM[c]) > 0 /\ Head(toM[c]) = toM[c][1]
         /\ Len(toM'[c]) = Len(toM[c]) - 1
         /\ \A i \in 1..Len(toM'[c]) : toM'[c][i] = toM[c][i + 1]
         /\ \A d \in Nodes \ {c} : toM'[d] = toM[d]
<1>1. toM[c] \in Seq(Requests)
  BY DEF TypeOK
<1>2. toM'[c] = Tail(toM[c]) /\ \A d \in Nodes \ {c} : toM'[d] = toM[d]
  BY DEF TypeOK, Handled
<1> QED  BY <1>1, <1>2, SeqFacts

LEMMA AppendFacts ==
  ASSUME TypeOK, NEW c \in Nodes, NEW req \in Requests,
         toM' = [toM EXCEPT ![c] = Append(@, req)]
  PROVE  /\ Len(toM[c]) \in Nat /\ Len(toM'[c]) = Len(toM[c]) + 1
         /\ \A i \in 1..Len(toM[c]) : toM'[c][i] = toM[c][i]
         /\ toM'[c][Len(toM[c]) + 1] = req
         /\ \A d \in Nodes \ {c} : toM'[d] = toM[d]
<1>1. toM[c] \in Seq(Requests)
  BY DEF TypeOK
<1>2. toM'[c] = Append(toM[c], req) /\ \A d \in Nodes \ {c} : toM'[d] = toM[d]
  BY DEF TypeOK
<1> QED  BY <1>1, <1>2, SeqFacts

\* What QueueOK of a node depends on.
SameRequests(d) ==
  toM'[d] = toM[d] /\ nreg'[d] = nreg[d] /\ link'[d] = link[d] /\ run'[d] = run[d]

LEMMA SameQueue ==
  ASSUME NEW d \in Nodes, QueueOK(d), SameRequests(d)
  PROVE  QueueOK(d)'
  BY DEF SameRequests, QueueOK

\* A registration is appended with the next number.
LEMMA RegFacts ==
  ASSUME TypeOK, NEW c \in Nodes, regServiceDiscover(c)
  PROVE  LET req == [type |-> "reg", id |-> nreg[c] + 1, v |-> info[c]] IN
         /\ req \in Requests
         /\ toM' = [toM EXCEPT ![c] = Append(@, req)]
         /\ nreg[c] \in Nat /\ nreg'[c] = nreg[c] + 1
         /\ \A d \in Nodes \ {c} : nreg'[d] = nreg[d]
<1>1. nreg[c] \in Nat /\ nreg[c] + 1 \in 0..MaxReg
  BY PlansAssumption, RegAssumption DEF TypeOK, regServiceDiscover
<1> QED  BY <1>1 DEF TypeOK, regServiceDiscover, generateSeq, Requests, Versions

LEMMA RegQueue ==
  ASSUME TypeOK, QueueInv, NEW c \in Nodes, regServiceDiscover(c),
         run[c] = "up", link'[c] = TRUE, UNCHANGED run,
         \A d \in Nodes \ {c} : link'[d] = link[d]
  PROVE  QueueInv'
<1> DEFINE req == [type |-> "reg", id |-> nreg[c] + 1, v |-> info[c]]
<1>1. /\ req \in Requests /\ toM' = [toM EXCEPT ![c] = Append(@, req)]
      /\ nreg[c] \in Nat /\ nreg'[c] = nreg[c] + 1
      /\ \A d \in Nodes \ {c} : nreg'[d] = nreg[d]
  BY RegFacts
<1>2. req.type = "reg" /\ req.id = nreg[c] + 1
  OBVIOUS
<1> HIDE DEF req
<1>3. /\ Len(toM[c]) \in Nat /\ Len(toM'[c]) = Len(toM[c]) + 1
      /\ \A i \in 1..Len(toM[c]) : toM'[c][i] = toM[c][i]
      /\ toM'[c][Len(toM[c]) + 1] = req
      /\ \A d \in Nodes \ {c} : toM'[d] = toM[d]
  BY <1>1, AppendFacts
<1>4. \A d \in Nodes \ {c} : QueueOK(d)'
  BY <1>1, <1>3, SameQueue DEF QueueInv, SameRequests
<1>5. QueueOK(c)
  BY DEF QueueInv
<1>6. \A i \in 1..Len(toM[c]) : toM[c][i].type = "reg" => toM[c][i].id \in 1..nreg[c]
  BY <1>5 DEF QueueOK
<1>7. \A i \in 1..Len(toM'[c]) :
        \/ i \in 1..Len(toM[c]) /\ toM'[c][i] = toM[c][i]
        \/ i = Len(toM[c]) + 1 /\ toM'[c][i] = req
  BY <1>3
<1>8. \A i \in 1..Len(toM'[c]) : toM'[c][i].type = "reg" => toM'[c][i].id \in 1..nreg'[c]
  BY <1>1, <1>2, <1>6, <1>7
<1>9. ASSUME NEW i \in 1..Len(toM'[c]), NEW j \in 1..Len(toM'[c]), i < j,
             toM'[c][i].type = "reg", toM'[c][j].type = "reg"
      PROVE  toM'[c][i].id < toM'[c][j].id
  <2>1. i \in 1..Len(toM[c]) /\ toM'[c][i] = toM[c][i] /\ toM[c][i].id \in 1..nreg[c]
    BY <1>3, <1>6, <1>7, <1>9
  <2>2. CASE j \in 1..Len(toM[c]) /\ toM'[c][j] = toM[c][j]
    BY <1>5, <1>9, <2>1, <2>2 DEF QueueOK
  <2>3. CASE toM'[c][j] = req
    BY <1>1, <1>2, <2>1, <2>3
  <2> QED  BY <1>7, <2>2, <2>3
<1>10. \A i \in 1..Len(toM'[c]) : toM'[c][i].type # "unreg"
  BY <1>2, <1>5, <1>7 DEF QueueOK
<1>11. \A i \in 1..Len(toM'[c]) : toM'[c][i].type = "retire" => toM'[c][i].v = 2
  BY <1>2, <1>5, <1>7 DEF QueueOK
<1>12. QueueOK(c)'
  BY <1>8, <1>9, <1>10, <1>11 DEF QueueOK
<1> QED  BY <1>4, <1>12 DEF QueueInv

LEMMA HandledQueue ==
  ASSUME TypeOK, QueueInv, NEW c \in Nodes, toM[c] # <<>>, Handled(c),
         UNCHANGED <<run, link, nreg>>
  PROVE  QueueInv'
<1>1. /\ Len(toM[c]) \in Nat /\ Len(toM[c]) > 0
      /\ Len(toM'[c]) = Len(toM[c]) - 1
      /\ \A i \in 1..Len(toM'[c]) : toM'[c][i] = toM[c][i + 1]
      /\ \A d \in Nodes \ {c} : toM'[d] = toM[d]
  BY HandledFacts
<1>2. \A d \in Nodes \ {c} : QueueOK(d)'
  <2>1. run' = run /\ link' = link /\ nreg' = nreg
    OBVIOUS
  <2> QED  BY <1>1, <2>1, SameQueue DEF QueueInv, SameRequests
<1>3. QueueOK(c)
  BY DEF QueueInv
<1>4. \A i \in 1..Len(toM'[c]) : i + 1 \in 1..Len(toM[c]) /\ toM'[c][i] = toM[c][i + 1]
  BY <1>1
<1>5. \A i \in 1..Len(toM'[c]) : toM'[c][i].type = "reg" => toM'[c][i].id \in 1..nreg'[c]
  BY <1>3, <1>4 DEF QueueOK
<1>6. ASSUME NEW i \in 1..Len(toM'[c]), NEW j \in 1..Len(toM'[c]), i < j,
             toM'[c][i].type = "reg", toM'[c][j].type = "reg"
      PROVE  toM'[c][i].id < toM'[c][j].id
  <2>1. i + 1 \in 1..Len(toM[c]) /\ j + 1 \in 1..Len(toM[c]) /\ i + 1 < j + 1
    BY <1>4, <1>6
  <2>2. toM'[c][i] = toM[c][i + 1] /\ toM'[c][j] = toM[c][j + 1]
    BY <1>4
  <2> QED  BY <1>3, <1>6, <2>1, <2>2 DEF QueueOK
<1>7. ~link'[c] /\ run'[c] # "gone" => FALSE
  BY <1>3 DEF QueueOK
<1>8. \A i \in 1..Len(toM'[c]) :
        toM'[c][i].type = "unreg" <=> i = Len(toM'[c]) /\ run'[c] \in {"stopping", "gone"}
  BY <1>1, <1>3, <1>4 DEF QueueOK
<1>9. run'[c] = "gone" => Len(toM'[c]) <= 1
  BY <1>1, <1>3 DEF QueueOK
<1>10. \A i \in 1..Len(toM'[c]) : toM'[c][i].type = "retire" => toM'[c][i].v = 2
  BY <1>3, <1>4 DEF QueueOK
<1>11. QueueOK(c)'
  BY <1>5, <1>6, <1>7, <1>8, <1>9, <1>10 DEF QueueOK
<1> QED  BY <1>2, <1>11 DEF QueueInv

LEMMA NextQueue == TypeOK /\ QueueInv /\ [Next]_vars => QueueInv'
<1> SUFFICES ASSUME TypeOK, QueueInv, [Next]_vars PROVE QueueInv'
  OBVIOUS
<1> USE DEF nodeVars, netVars, masterVars
<1>1. ASSUME UNCHANGED <<run, link, nreg, toM>> PROVE QueueInv'
  BY <1>1 DEF QueueInv, QueueOK
<1>2. ASSUME NEW c \in Nodes, Start(c) PROVE QueueInv'
  BY <1>2 DEF TypeOK, QueueInv, QueueOK, Start
<1>3. ASSUME NEW c \in Nodes, OnNodeConnected(c) PROVE QueueInv'
  BY <1>3, RegQueue DEF TypeOK, OnNodeConnected
<1>4. ASSUME NEW c \in Nodes, tryRegServiceDiscover(c) PROVE QueueInv'
  BY <1>4, RegQueue DEF TypeOK, tryRegServiceDiscover
<1>5. ASSUME NEW c \in Nodes, OnRetire(c) PROVE QueueInv'
  <2>1. CASE ~link[c]
    BY <1>1, <1>5, <2>1 DEF OnRetire
  <2>2. CASE link[c]
    <3> DEFINE req == [type |-> "retire", id |-> 0, v |-> 2]
    <3>1. req \in Requests /\ req.type = "retire" /\ req.v = 2
      BY RegAssumption DEF Requests
    <3>2. toM' = [toM EXCEPT ![c] = Append(@, req)]
      BY <1>5, <2>2 DEF OnRetire
    <3>3. run[c] = "up" /\ run' = run /\ link' = link /\ nreg' = nreg
      BY <1>5 DEF OnRetire
    <3> HIDE DEF req
    <3>4. /\ Len(toM[c]) \in Nat /\ Len(toM'[c]) = Len(toM[c]) + 1
          /\ \A i \in 1..Len(toM[c]) : toM'[c][i] = toM[c][i]
          /\ toM'[c][Len(toM[c]) + 1] = req
          /\ \A d \in Nodes \ {c} : toM'[d] = toM[d]
      BY <3>1, <3>2, AppendFacts
    <3>5. \A d \in Nodes \ {c} : QueueOK(d)'
      BY <3>3, <3>4, SameQueue DEF QueueInv, SameRequests
    <3>6. QueueOK(c)
      BY DEF QueueInv
    <3>7. \A i \in 1..Len(toM'[c]) :
            \/ i \in 1..Len(toM[c]) /\ toM'[c][i] = toM[c][i]
            \/ i = Len(toM[c]) + 1 /\ toM'[c][i] = req
      BY <3>4
    <3>8. QueueOK(c)'
      BY <2>2, <3>1, <3>3, <3>6, <3>7 DEF QueueOK
    <3> QED  BY <3>5, <3>8 DEF QueueInv
  <2> QED  BY <2>1, <2>2
<1>6. ASSUME NEW c \in Nodes, OnRelease(c) PROVE QueueInv'
  <2>1. /\ run[c] = "up" /\ run'[c] = "stopping" /\ link' = link /\ nreg' = nreg
        /\ \A d \in Nodes \ {c} : run'[d] = run[d]
    BY <1>6 DEF TypeOK, OnRelease
  <2>2. QueueOK(c)
    BY DEF QueueInv
  <2>3. CASE ~link[c]
    <3>1. toM' = toM /\ toM[c] = <<>>
      BY <1>6, <2>1, <2>2, <2>3 DEF OnRelease, QueueOK
    <3>2. \A d \in Nodes \ {c} : QueueOK(d)'
      BY <2>1, <3>1, SameQueue DEF QueueInv, SameRequests
    <3>3. QueueOK(c)'
      BY <2>1, <3>1 DEF QueueOK
    <3> QED  BY <3>2, <3>3 DEF QueueInv
  <2>4. CASE link[c]
    <3> DEFINE req == [type |-> "unreg", id |-> 0, v |-> 0]
    <3>1. req \in Requests /\ req.type = "unreg"
      BY RegAssumption DEF Requests
    <3>2. toM' = [toM EXCEPT ![c] = Append(@, req)]
      BY <1>6, <2>4 DEF OnRelease
    <3> HIDE DEF req
    <3>4. /\ Len(toM[c]) \in Nat /\ Len(toM'[c]) = Len(toM[c]) + 1
          /\ \A i \in 1..Len(toM[c]) : toM'[c][i] = toM[c][i]
          /\ toM'[c][Len(toM[c]) + 1] = req
          /\ \A d \in Nodes \ {c} : toM'[d] = toM[d]
      BY <3>1, <3>2, AppendFacts
    <3>5. \A d \in Nodes \ {c} : QueueOK(d)'
      BY <2>1, <3>4, SameQueue DEF QueueInv, SameRequests
    <3>7. \A i \in 1..Len(toM'[c]) :
            \/ i \in 1..Len(toM[c]) /\ i # Len(toM'[c]) /\ toM'[c][i] = toM[c][i]
            \/ i = Len(toM'[c]) /\ toM'[c][i] = req
      BY <3>4
    <3>8. \A i \in 1..Len(toM[c]) : toM[c][i].type # "unreg"
      BY <2>1, <2>2 DEF QueueOK
    <3>9. QueueOK(c)'
      BY <2>1, <2>2, <2>4, <3>1, <3>7, <3>8 DEF QueueOK
    <3> QED  BY <3>5, <3>9 DEF QueueInv
  <2> QED  BY <2>3, <2>4
<1>7. ASSUME NEW c \in Nodes, Exit(c) PROVE QueueInv'
  <2>1. /\ run[c] = "stopping" /\ Len(toM[c]) <= 1 /\ toM' = toM /\ nreg' = nreg
        /\ run'[c] = "gone" /\ link'[c] = FALSE
        /\ \A d \in Nodes \ {c} : run'[d] = run[d] /\ link'[d] = link[d]
    BY <1>7 DEF TypeOK, Exit
  <2>2. \A d \in Nodes \ {c} : QueueOK(d)'
    BY <2>1, SameQueue DEF QueueInv, SameRequests
  <2>3. QueueOK(c)'
    BY <2>1 DEF QueueInv, QueueOK
  <2> QED  BY <2>2, <2>3 DEF QueueInv
<1>8. ASSUME NEW c \in Nodes, RPC_RegServiceDiscover(c) PROVE QueueInv'
  BY <1>8, HandledQueue DEF RPC_RegServiceDiscover, Request
<1>9. ASSUME NEW c \in Nodes, RPC_NodeRetire(c) PROVE QueueInv'
  BY <1>9, HandledQueue DEF RPC_NodeRetire, Request
<1>10. ASSUME NEW c \in Nodes, RPC_UnRegServiceDiscover(c) PROVE QueueInv'
  BY <1>10, HandledQueue DEF RPC_UnRegServiceDiscover, Request
<1>11. ASSUME NEW c \in Nodes,
              \/ RPC_SubServiceDiscover(c) \/ HandleReply(c) \/ RegTimeout(c) \/ Connect(c)
              \/ Disconnect(c) \/ LoseConnection(c) \/ LocalDelete(c) \/ MasterNodeConnected(c)
              \/ OnNodeDisconnect(c)
       PROVE  QueueInv'
  BY <1>1, <1>11 DEF RPC_SubServiceDiscover, HandleReply, RegTimeout, Connect, Disconnect,
                     LoseConnection, LocalDelete, MasterNodeConnected, OnNodeDisconnect
<1>12. CASE UNCHANGED vars
  BY <1>1, <1>12 DEF vars
<1> QED
  BY <1>2, <1>3, <1>4, <1>5, <1>6, <1>7, <1>8, <1>9, <1>10, <1>11, <1>12 DEF Next
-----------------------------------------------------------------------------
(* The count of registrations.                                             *)

\* What CountOK of a node depends on.
Same(d) ==
  /\ toM'[d] = toM[d] /\ nreg'[d] = nreg[d] /\ run'[d] = run[d]
  /\ listed'[d] = listed[d] /\ client'[d] = client[d]
  /\ closed'[d] = closed[d] /\ localDel'[d] = localDel[d] /\ lost'[d] = lost[d]

LEMMA SameCount ==
  ASSUME NEW d \in Nodes, CountOK(d), Same(d)
  PROVE  CountOK(d)'
  BY DEF Same, CountOK, Unlisting, Later

\* ClosedBy counts the client of c when it is connected.
LEMMA ClosedByFacts ==
  ASSUME TypeOK, NEW c \in Nodes
  PROVE  /\ closed[c] \in Nat /\ ClosedBy(c)[c] \in Nat
         /\ ClosedBy(c)[c] = IF client[c] = "up" THEN closed[c] + 1 ELSE closed[c]
         /\ \A d \in Nodes \ {c} : ClosedBy(c)[d] = closed[d]
  BY DEF TypeOK, ClosedBy

\* A new registration is later than those counted before it.
LEMMA RegCount ==
  ASSUME TypeOK, CountInv, NEW c \in Nodes, regServiceDiscover(c), run[c] = "up",
         UNCHANGED <<run, listed, client, closed, localDel, lost>>
  PROVE  CountInv'
<1> DEFINE req == [type |-> "reg", id |-> nreg[c] + 1, v |-> info[c]]
<1>1. /\ req \in Requests /\ toM' = [toM EXCEPT ![c] = Append(@, req)]
      /\ nreg[c] \in Nat /\ nreg'[c] = nreg[c] + 1
      /\ \A d \in Nodes \ {c} : nreg'[d] = nreg[d]
  BY RegFacts
<1>2. req.type = "reg" /\ req.id = nreg[c] + 1
  OBVIOUS
<1> HIDE DEF req
<1>3. /\ Len(toM[c]) \in Nat /\ Len(toM'[c]) = Len(toM[c]) + 1
      /\ \A i \in 1..Len(toM[c]) : toM'[c][i] = toM[c][i]
      /\ toM'[c][Len(toM[c]) + 1] = req
      /\ \A d \in Nodes \ {c} : toM'[d] = toM[d]
  BY <1>1, AppendFacts
<1>4. /\ run' = run /\ listed' = listed /\ client' = client /\ closed' = closed
      /\ localDel' = localDel /\ lost' = lost /\ lost[c] \in Nat
  BY DEF TypeOK
<1>5. \A d \in Nodes \ {c} : CountOK(d)'
  BY <1>1, <1>3, <1>4, SameCount DEF CountInv, Same
<1>6. \A k \in 1..2 : Later(c, k) /\ nreg[c] >= k => Later(c, k)'
  BY <1>1, <1>2, <1>3 DEF Later
<1>7. CountOK(c)'
  BY <1>1, <1>4, <1>6 DEF CountInv, CountOK, Unlisting
<1> QED  BY <1>5, <1>7 DEF CountInv

\* A request that is no registration leaves the count alone.
LEMMA OtherRequest ==
  ASSUME TypeOK, CountInv, NEW c \in Nodes, NEW req \in Requests, req.type # "reg",
         toM' = [toM EXCEPT ![c] = Append(@, req)],
         run'[c] = run[c] \/ run'[c] = "stopping",
         \A d \in Nodes \ {c} : run'[d] = run[d],
         UNCHANGED <<nreg, listed, client, closed, localDel, lost>>
  PROVE  CountInv'
<1>1. /\ Len(toM[c]) \in Nat /\ Len(toM'[c]) = Len(toM[c]) + 1
      /\ \A i \in 1..Len(toM[c]) : toM'[c][i] = toM[c][i]
      /\ toM'[c][Len(toM[c]) + 1] = req
      /\ \A d \in Nodes \ {c} : toM'[d] = toM[d]
  BY AppendFacts
<1>2. /\ nreg' = nreg /\ listed' = listed /\ client' = client /\ closed' = closed
      /\ localDel' = localDel /\ lost' = lost
  OBVIOUS
<1>3. \A d \in Nodes \ {c} : CountOK(d)'
  BY <1>1, <1>2, SameCount DEF CountInv, Same
<1>4. \A k \in 1..2 : Later(c, k) => Later(c, k)'
  BY <1>1 DEF Later
<1>5. CountOK(c)'
  BY <1>2, <1>4 DEF CountInv, CountOK, Unlisting
<1> QED  BY <1>3, <1>5 DEF CountInv

\* What handling the first request does to the count.
LEMMA HandledLater ==
  ASSUME TypeOK, QueueInv, NEW c \in Nodes, toM[c] # <<>>, Handled(c)
  PROVE  /\ \A k \in 1..2 : Later(c, k) => Later(c, k)'
         /\ Head(toM[c]).type = "reg" =>
              /\ Head(toM[c]).id \in 1..nreg[c]
              /\ \A k \in 1..2 : Head(toM[c]).id >= k => Later(c, k)'
              /\ \A k \in 1..2 : Later(c, k) => Head(toM[c]).id > k
         /\ Head(toM[c]).type = "unreg" =>
              run[c] \in {"stopping", "gone"} /\ \A k \in 1..2 : Later(c, k)'
         /\ \A d \in Nodes \ {c} : toM'[d] = toM[d]
<1>1. /\ Len(toM[c]) \in Nat /\ Len(toM[c]) > 0 /\ Head(toM[c]) = toM[c][1]
      /\ Len(toM'[c]) = Len(toM[c]) - 1
      /\ \A i \in 1..Len(toM'[c]) : toM'[c][i] = toM[c][i + 1]
      /\ \A d \in Nodes \ {c} : toM'[d] = toM[d]
  BY HandledFacts
<1>2. 1 \in 1..Len(toM[c]) /\ QueueOK(c)
  BY <1>1 DEF QueueInv
<1>3. \A i \in 1..Len(toM'[c]) :
        i + 1 \in 1..Len(toM[c]) /\ 1 < i + 1 /\ toM'[c][i] = toM[c][i + 1]
  BY <1>1
<1>4. \A k \in 1..2 : Later(c, k) => Later(c, k)'
  BY <1>3 DEF Later
<1>5. ASSUME Head(toM[c]).type = "reg"
      PROVE  /\ Head(toM[c]).id \in 1..nreg[c]
             /\ \A k \in 1..2 : Head(toM[c]).id >= k => Later(c, k)'
             /\ \A k \in 1..2 : Later(c, k) => Head(toM[c]).id > k
  <2>1. Head(toM[c]).id \in 1..nreg[c]
    BY <1>1, <1>2, <1>5 DEF QueueOK
  <2>2. \A k \in 1..2 : Later(c, k) => Head(toM[c]).id > k
    BY <1>1, <1>2, <1>5 DEF Later
  <2>3. ASSUME NEW i \in 1..Len(toM'[c]), toM'[c][i].type = "reg"
        PROVE  toM'[c][i].id \in 1..nreg[c] /\ Head(toM[c]).id < toM'[c][i].id
    BY <1>1, <1>2, <1>3, <1>5, <2>3 DEF QueueOK
  <2>4. nreg[c] \in Nat
    BY DEF TypeOK
  <2>5. \A k \in 1..2 : Head(toM[c]).id >= k => Later(c, k)'
    BY <2>1, <2>3, <2>4 DEF Later
  <2> QED  BY <2>1, <2>2, <2>5
<1>6. ASSUME Head(toM[c]).type = "unreg"
      PROVE  run[c] \in {"stopping", "gone"} /\ \A k \in 1..2 : Later(c, k)'
  <2>1. Len(toM[c]) = 1 /\ run[c] \in {"stopping", "gone"}
    BY <1>1, <1>2, <1>6 DEF QueueOK
  <2>2. Len(toM'[c]) = 0
    BY <1>1, <2>1
  <2> QED  BY <2>1, <2>2 DEF Later
<1> QED  BY <1>1, <1>4, <1>5, <1>6

LEMMA UnlistFacts ==
  ASSUME TypeOK, NEW c \in Nodes, Unlist(c)
  PROVE  /\ listed'[c] = 0 /\ client'[c] = "none"
         /\ localDel[c] \in Nat /\ localDel'[c] = localDel[c] + 1
         /\ \A d \in Nodes \ {c} :
              listed'[d] = listed[d] /\ client'[d] = client[d] /\ localDel'[d] = localDel[d]
  BY DEF TypeOK, Unlist

LEMMA NextCount == TypeOK /\ QueueInv /\ CountInv /\ [Next]_vars => CountInv'
<1> SUFFICES ASSUME TypeOK, QueueInv, CountInv, [Next]_vars PROVE CountInv'
  OBVIOUS
<1> USE DEF nodeVars, netVars, masterVars
<1>1. ASSUME UNCHANGED <<toM, nreg, run, masterVars>> PROVE CountInv'
  BY <1>1, SameCount DEF CountInv, Same
<1>2. ASSUME NEW c \in Nodes, Start(c) PROVE CountInv'
  <2>1. \A d \in Nodes \ {c} : Same(d)
    BY <1>2 DEF TypeOK, Start, Same
  <2>2. CountOK(c)'
    BY <1>2 DEF TypeOK, Start, CountInv, CountOK, Unlisting, Later
  <2> QED  BY <2>1, <2>2, SameCount DEF CountInv
<1>3. ASSUME NEW c \in Nodes, OnNodeConnected(c) PROVE CountInv'
  BY <1>3, RegCount DEF OnNodeConnected
<1>4. ASSUME NEW c \in Nodes, tryRegServiceDiscover(c) PROVE CountInv'
  BY <1>4, RegCount DEF tryRegServiceDiscover
<1>5. ASSUME NEW c \in Nodes, OnRetire(c) PROVE CountInv'
  <2> DEFINE req == [type |-> "retire", id |-> 0, v |-> 2]
  <2>1. req \in Requests /\ req.type # "reg"
    BY RegAssumption DEF Requests
  <2>2. run' = run /\ UNCHANGED <<nreg, listed, client, closed, localDel, lost>>
    BY <1>5 DEF OnRetire
  <2>3. CASE link[c]
    <3>1. toM' = [toM EXCEPT ![c] = Append(@, req)]
      BY <1>5, <2>3 DEF OnRetire
    <3> HIDE DEF req
    <3> QED  BY <2>1, <2>2, <3>1, OtherRequest
  <2>4. CASE ~link[c]
    BY <1>1, <1>5, <2>4 DEF OnRetire
  <2> QED  BY <2>3, <2>4
<1>6. ASSUME NEW c \in Nodes, OnRelease(c) PROVE CountInv'
  <2> DEFINE req == [type |-> "unreg", id |-> 0, v |-> 0]
  <2>1. req \in Requests /\ req.type # "reg"
    BY RegAssumption DEF Requests
  <2>2. /\ run'[c] = "stopping" /\ \A d \in Nodes \ {c} : run'[d] = run[d]
        /\ UNCHANGED <<nreg, listed, client, closed, localDel, lost>>
    BY <1>6 DEF TypeOK, OnRelease
  <2>3. CASE link[c]
    <3>1. toM' = [toM EXCEPT ![c] = Append(@, req)]
      BY <1>6, <2>3 DEF OnRelease
    <3> HIDE DEF req
    <3> QED  BY <2>1, <2>2, <3>1, OtherRequest
  <2>4. CASE ~link[c]
    <3>1. toM' = toM
      BY <1>6, <2>4 DEF OnRelease
    <3>2. \A d \in Nodes \ {c} : Same(d)
      BY <2>2, <3>1 DEF Same
    <3>3. CountOK(c)'
      BY <2>2, <3>1 DEF CountInv, CountOK, Unlisting, Later
    <3> QED  BY <3>2, <3>3, SameCount DEF CountInv
  <2> QED  BY <2>3, <2>4
<1>7. ASSUME NEW c \in Nodes, Exit(c) PROVE CountInv'
  <2>1. \A d \in Nodes \ {c} : Same(d)
    BY <1>7 DEF TypeOK, Exit, Same
  <2>2. CountOK(c)'
    BY <1>7 DEF TypeOK, Exit, CountInv, CountOK, Unlisting, Later
  <2> QED  BY <2>1, <2>2, SameCount DEF CountInv
<1>8. ASSUME NEW c \in Nodes, Connect(c) PROVE CountInv'
  <2>1. \A d \in Nodes \ {c} : Same(d)
    BY <1>8 DEF TypeOK, Connect, Same
  <2>2. CountOK(c)'
    BY <1>8 DEF TypeOK, Connect, CountInv, CountOK, Unlisting, Later
  <2> QED  BY <2>1, <2>2, SameCount DEF CountInv
<1>9. ASSUME NEW c \in Nodes, Disconnect(c) PROVE CountInv'
  \* The process is gone, so that no registration is left.
  <2>1. \A d \in Nodes \ {c} : Same(d)
    BY <1>9, ClosedByFacts DEF TypeOK, Disconnect, Same
  <2>2. run[c] = "gone" /\ QueueOK(c) /\ Len(toM[c]) \in Nat
    BY <1>9, SeqFacts DEF TypeOK, Disconnect, QueueInv
  <2>3. \A i \in 1..Len(toM[c]) : toM[c][i].type # "reg"
    BY <2>2 DEF QueueOK
  <2>4. Later(c, 1)' /\ Later(c, 2)'
    BY <1>9, <2>3 DEF Disconnect, Later
  <2>5. /\ listed' = listed /\ lost' = lost /\ nreg' = nreg /\ run' = run /\ localDel' = localDel
        /\ client[c] = "up" /\ client'[c] = "dial"
    BY <1>9 DEF TypeOK, Disconnect
  <2>6. CountOK(c)'
    BY <2>2, <2>4, <2>5 DEF CountInv, CountOK, Unlisting
  <2> QED  BY <2>1, <2>6, SameCount DEF CountInv
<1>18. ASSUME NEW c \in Nodes, LoseConnection(c) PROVE CountInv'
  <2>1. \A d \in Nodes \ {c} : Same(d)
    BY <1>18, ClosedByFacts DEF TypeOK, LoseConnection, Same
  <2>2. /\ listed' = listed /\ nreg' = nreg /\ run' = run /\ localDel' = localDel /\ toM' = toM
        /\ client[c] = "up" /\ client'[c] = "dial" /\ lost'[c] = lost[c] + 1
    BY <1>18 DEF TypeOK, LoseConnection
  <2>3. CountOK(c) /\ lost[c] \in Nat /\ nreg[c] \in Nat
    BY DEF TypeOK, CountInv
  <2>4. Later(c, 1)' <=> Later(c, 1)
    BY <2>2 DEF Later
  <2>5. CountOK(c)'
    BY <2>2, <2>3, <2>4 DEF CountOK, Unlisting
  <2> QED  BY <2>1, <2>5, SameCount DEF CountInv
<1>10. ASSUME NEW c \in Nodes, LocalDelete(c) PROVE CountInv'
  <2>1. \A d \in Nodes \ {c} : Same(d)
    BY <1>10, ClosedByFacts DEF TypeOK, LocalDelete, Same
  <2>2. /\ localDel[c] > 0 /\ localDel'[c] = localDel[c] - 1 /\ client'[c] = "none"
        /\ toM' = toM /\ nreg' = nreg /\ run' = run /\ listed' = listed /\ lost' = lost
    BY <1>10 DEF TypeOK, LocalDelete
  <2>3. CountOK(c) /\ localDel[c] \in Nat /\ nreg[c] \in Nat /\ lost[c] \in Nat
    BY DEF TypeOK, CountInv
  <2>4. CountOK(c)'
    BY <2>2, <2>3 DEF CountOK, Unlisting, Later
  <2> QED  BY <2>1, <2>4, SameCount DEF CountInv
<1>11. ASSUME NEW c \in Nodes, OnNodeDisconnect(c) PROVE CountInv'
  <2>1. /\ closed[c] \in Nat /\ closed[c] > 0 /\ CountOK(c)
        /\ toM' = toM /\ nreg' = nreg /\ run' = run /\ lost' = lost
    BY <1>11 DEF TypeOK, OnNodeDisconnect, CountInv
  <2>2. CASE listed[c] = 0
    <3>1. /\ closed'[c] = closed[c] - 1 /\ listed' = listed /\ client' = client /\ localDel' = localDel
          /\ \A d \in Nodes \ {c} : closed'[d] = closed[d]
      BY <1>11, <2>2 DEF TypeOK, OnNodeDisconnect
    <3>2. \A d \in Nodes \ {c} : Same(d)
      BY <2>1, <3>1 DEF Same
    <3>3. CountOK(c)'
      BY <2>1, <2>2, <3>1 DEF CountOK, Unlisting, Later
    <3> QED  BY <3>2, <3>3, SameCount DEF CountInv
  <2>3. CASE listed[c] # 0
    <3>1. Unlist(c) /\ closed' = [ClosedBy(c) EXCEPT ![c] = @ - 1]
      BY <1>11, <2>3 DEF OnNodeDisconnect
    <3>2. \A d \in Nodes \ {c} : closed'[d] = closed[d]
      BY <3>1, ClosedByFacts, ClosedByType
    <3>3. \A d \in Nodes \ {c} : Same(d)
      BY <2>1, <3>1, <3>2, UnlistFacts DEF Same
    <3>4. CountOK(c)'
      BY <2>1, <3>1, UnlistFacts DEF CountOK, Unlisting, Later
    <3> QED  BY <3>3, <3>4, SameCount DEF CountInv
  <2> QED  BY <2>2, <2>3
<1>12. ASSUME NEW c \in Nodes, RPC_RegServiceDiscover(c) PROVE CountInv'
  <2>1. /\ toM[c] # <<>> /\ Handled(c) /\ Head(toM[c]).type = "reg"
        /\ lost' = lost /\ nreg' = nreg /\ run' = run /\ localDel' = localDel
        /\ closed' = ClosedBy(c) /\ client' = [client EXCEPT ![c] = "dial"]
        /\ listed' = [listed EXCEPT ![c] = addNodeInfo(c, Head(toM[c]).v)]
    BY <1>12 DEF RPC_RegServiceDiscover, Request
  <2>2. \A d \in Nodes \ {c} : Same(d)
    BY <2>1, HandledLater, ClosedByFacts DEF TypeOK, Same
  <2>3. /\ \A k \in 1..2 : Later(c, k) => Later(c, k)'
        /\ Head(toM[c]).id \in 1..nreg[c]
        /\ \A k \in 1..2 : Head(toM[c]).id >= k => Later(c, k)'
        /\ \A k \in 1..2 : Later(c, k) => Head(toM[c]).id > k
    BY <2>1, HandledLater
  <2>4. CountOK(c) /\ nreg[c] \in Nat /\ lost[c] \in Nat /\ client'[c] = "dial"
    BY <2>1 DEF CountInv, TypeOK
  <2>5. Later(c, 1)' /\ nreg[c] >= 1
    BY <2>3, <2>4
  <2>6. closed'[c] > 0 => Unlisting(c) \/ client[c] = "up"
    BY <2>1, ClosedByFacts DEF Unlisting
  <2>7. Unlisting(c)' => Later(c, 1)
    BY <2>1, <2>4, <2>6 DEF CountOK, Unlisting
  <2>8. Unlisting(c)' => Later(c, 2)' /\ nreg[c] >= 2
    BY <2>3, <2>4, <2>7
  <2>9. localDel[c] > 0 => nreg[c] + lost[c] >= 3
    BY <2>3, <2>4 DEF CountOK, Unlisting
  <2>10. CountOK(c)'
    BY <2>1, <2>4, <2>5, <2>8, <2>9 DEF CountOK
  <2> QED  BY <2>2, <2>10, SameCount DEF CountInv
<1>13. ASSUME NEW c \in Nodes, RPC_NodeRetire(c) PROVE CountInv'
  <2>1. /\ toM[c] # <<>> /\ Handled(c)
        /\ lost' = lost /\ nreg' = nreg /\ run' = run /\ localDel' = localDel /\ closed' = closed /\ client' = client
        /\ listed' = updateNodeInfo(c, Head(toM[c]).v)
    BY <1>13 DEF RPC_NodeRetire, Request
  <2>2. \A d \in Nodes \ {c} : Same(d)
    BY <2>1, HandledLater DEF TypeOK, Same, updateNodeInfo
  <2>3. listed[c] = 0 => listed'[c] = 0
    BY <2>1 DEF updateNodeInfo
  <2>4. Later(c, 1) => Later(c, 1)'
    BY <2>1, HandledLater
  <2>5. Later(c, 2) => Later(c, 2)'
    BY <2>1, HandledLater
  <2>6. CountOK(c)'
    BY <2>1, <2>3, <2>4, <2>5 DEF CountInv, CountOK, Unlisting
  <2> QED  BY <2>2, <2>6, SameCount DEF CountInv
<1>14. ASSUME NEW c \in Nodes, RPC_UnRegServiceDiscover(c) PROVE CountInv'
  <2>1. /\ toM[c] # <<>> /\ Handled(c) /\ Head(toM[c]).type = "unreg"
        /\ nreg' = nreg /\ run' = run /\ lost' = lost
    BY <1>14 DEF RPC_UnRegServiceDiscover, Request
  <2>2. Later(c, 1)' /\ Later(c, 2)' /\ run[c] \in {"stopping", "gone"}
    BY <2>1, HandledLater
  <2>3. CASE listed[c] = 0
    <3>1. listed' = listed /\ client' = client /\ localDel' = localDel /\ closed' = closed
      BY <1>14, <2>3 DEF RPC_UnRegServiceDiscover
    <3>2. \A d \in Nodes \ {c} : Same(d)
      BY <2>1, <3>1, HandledLater DEF Same
    <3>3. CountOK(c)'
      BY <2>1, <2>2, <2>3, <3>1 DEF CountInv, CountOK, Unlisting
    <3> QED  BY <3>2, <3>3, SameCount DEF CountInv
  <2>4. CASE listed[c] # 0
    <3>1. Unlist(c) /\ closed' = ClosedBy(c)
      BY <1>14, <2>4 DEF RPC_UnRegServiceDiscover
    <3>2. \A d \in Nodes \ {c} : Same(d)
      BY <2>1, <3>1, HandledLater, ClosedByFacts, UnlistFacts DEF Same
    <3>3. CountOK(c)'
      BY <2>1, <2>2, <2>4, <3>1, UnlistFacts DEF CountInv, CountOK
    <3> QED  BY <3>2, <3>3, SameCount DEF CountInv
  <2> QED  BY <2>3, <2>4
<1>15. ASSUME NEW c \in Nodes,
              \/ RPC_SubServiceDiscover(c) \/ HandleReply(c) \/ RegTimeout(c)
       PROVE  CountInv'
  BY <1>1, <1>15 DEF RPC_SubServiceDiscover, HandleReply, RegTimeout
<1>16. ASSUME NEW c \in Nodes, MasterNodeConnected(c) PROVE CountInv'
  BY <1>16, SameCount DEF MasterNodeConnected, CountInv, Same
<1>17. CASE UNCHANGED vars
  BY <1>1, <1>17 DEF vars
<1> QED
  BY <1>2, <1>3, <1>4, <1>5, <1>6, <1>7, <1>8, <1>9, <1>10, <1>11, <1>12, <1>13, <1>14,
     <1>15, <1>16, <1>17, <1>18 DEF Next
-----------------------------------------------------------------------------
\* The inductive invariant holds in every reachable state.
LEMMA IInvHolds == Spec => []IInv
<1>1. Init => IInv
  <2>1. Init => QueueInv /\ CountInv
    BY DEF Init, QueueInv, QueueOK, CountInv, CountOK, Unlisting
  <2> QED  BY <2>1, InitTypeOK DEF IInv
<1>2. IInv /\ [Next]_vars => IInv'
  BY NextTypeOK, NextQueue, NextCount DEF IInv
<1> QED  BY <1>1, <1>2, PTL DEF Spec

(* In every reachable state every message on a connection has the form its *)
(* receiver expects, and the tables of nodes and master are well-formed    *)
(* (origindiscovery.go).                                                   *)
THEOREM DiscoveryTypeCorrect == Spec => []TypeOK
  BY IInvHolds, PTL DEF IInv

(* RPC_RegServiceDiscover, OnNodeDisconnect and the master's own deletions *)
(* never leave a node in the master's list without a client, unless the    *)
(* event that unlists it is on its way, as long as its registrations and   *)
(* the connections lost to it are two at most together.                    *)
THEOREM ListedNodesHaveClients == Spec => []ListedHasClient
<1>1. IInv => ListedHasClient
  BY DEF IInv, CountInv, CountOK, ListedHasClient
<1> QED  BY <1>1, IInvHolds, PTL

(* OnNodeDisconnect and RPC_UnRegServiceDiscover strike no running node    *)
(* that registered once and to which the master never lost its connection: *)
(* the disconnection that would do it needs a second registration, a lost  *)
(* connection or the end of the process, and unreg is sent by a process    *)
(* that stops.                                                             *)
THEOREM RunningNodesStayListed == Spec => RunningStaysListed
<1>1. ASSUME IInv, [Next]_vars, NEW c \in Nodes,
             listed[c] # 0, listed'[c] = 0, ~Again(c), lost[c] = 0
      PROVE  run[c] # "up"
  <2> USE DEF nodeVars, netVars, masterVars
  <2>1. TypeOK /\ QueueInv /\ CountOK(c) /\ nreg[c] \in Nat /\ nreg[c] < 2
    BY <1>1 DEF IInv, CountInv, Again, TypeOK
  <2>2. ASSUME NEW d \in Nodes, OnNodeDisconnect(d) PROVE run[c] # "up"
    <3>1. d = c
      BY <1>1, <2>1, <2>2 DEF OnNodeDisconnect, Unlist, TypeOK
    <3>2. Unlisting(c)
      BY <2>2, <3>1 DEF OnNodeDisconnect, Unlisting
    <3> QED  BY <1>1, <2>1, <3>2 DEF CountOK
  <2>3. ASSUME NEW d \in Nodes, RPC_UnRegServiceDiscover(d) PROVE run[c] # "up"
    <3>1. d = c
      BY <1>1, <2>1, <2>3 DEF RPC_UnRegServiceDiscover, Unlist, TypeOK
    <3>2. toM[c] # <<>> /\ Handled(c) /\ Head(toM[c]).type = "unreg"
      BY <2>3, <3>1 DEF RPC_UnRegServiceDiscover, Request
    <3> QED  BY <2>1, <3>2, HandledLater
  <2>4. ASSUME NEW d \in Nodes, RPC_RegServiceDiscover(d) PROVE FALSE
    BY <1>1, <2>1, <2>4 DEF RPC_RegServiceDiscover, addNodeInfo, TypeOK
  <2>5. ASSUME NEW d \in Nodes, RPC_NodeRetire(d) PROVE run[c] # "up"
    <3>1. /\ toM[d] # <<>> /\ Handled(d) /\ Head(toM[d]).type = "retire"
          /\ listed' = updateNodeInfo(d, Head(toM[d]).v)
      BY <2>5 DEF RPC_NodeRetire, Request
    <3>2. Len(toM[d]) \in Nat /\ Len(toM[d]) > 0 /\ Head(toM[d]) = toM[d][1]
      BY <2>1, <3>1, HandledFacts
    <3>3. Head(toM[d]).v = 2
      BY <2>1, <3>1, <3>2 DEF QueueInv, QueueOK
    <3> QED  BY <1>1, <2>1, <3>1, <3>3 DEF updateNodeInfo, TypeOK
  <2>6. ASSUME listed' = listed PROVE FALSE
    BY <1>1, <2>6
  <2> QED
    BY <1>1, <2>2, <2>3, <2>4, <2>5, <2>6
    DEF Next, vars, Start, OnNodeConnected, RPC_SubServiceDiscover, HandleReply, RegTimeout,
        tryRegServiceDiscover, OnRetire, OnRelease, Exit, Connect, Disconnect, LoseConnection, LocalDelete,
        MasterNodeConnected
<1>2. IInv /\ [Next]_vars =>
        [\A c \in Nodes :
           listed[c] # 0 /\ listed'[c] = 0 /\ ~Again(c) /\ lost[c] = 0 => run[c] # "up"]_vars
  BY <1>1
<1> QED  BY <1>2, IInvHolds, PTL DEF Spec, RunningStaysListed
=============================================================================
