------------------------------ MODULE RpcCall ------------------------------
(***************************************************************************)
(* The caller's side of an RPC: package rpc.                               *)
(*                                                                         *)
(* All clients of a node share one CallSet: the map of pending calls, the  *)
(* heap of their timeouts and pendingLock.  A call is an object of a pool  *)
(* of reusable Call objects.  These goroutines meet in the CallSet:        *)
(*   - callers of callRpc, which block until done strobes (Callers);       *)
(*   - the goroutine of the calling service, which issues asynchronous     *)
(*     calls and later runs their callbacks from its event channel (Svc);  *)
(*   - one reader per client (RClient.Run), which completes a call when    *)
(*     its response arrives; for the local node that is the goroutine of   *)
(*     the called service, in requestHandle;                               *)
(*   - checkRpcCallTimeout, and the goroutine that deletes a node and      *)
(*     closes its client (RClient.Close, cleanPending).                    *)
(*                                                                         *)
(* A call is identified by its sequence number.  Marshalling, compression  *)
(* and the contents of requests and replies are left out, as is the time:  *)
(* a timeout may expire whenever its call is pending, and since every call *)
(* chooses its own timeout the heap may surface any of its members.        *)
(***************************************************************************)
EXTENDS Integers, Sequences, FiniteSets

CONSTANTS
  Callers,        \* goroutines that make synchronous calls
  Nodes,          \* target nodes
  Local,          \* the target node that is the calling node itself
  Plans,          \* what may happen together: a set of records with
                  \*   drop, close   nodes whose connection may break, or that may be deleted
                  \*   long          nodes to which a request may be too long to be sent
                  \*   async, sync   targets of asynchronous and of synchronous calls
                  \*   events        maxServiceEventChannelNum, the length of the event channel
                  \*   outlasts      no timeout expires while its call is being written
  Objs,           \* the Call objects of rpcCallPool
  MaxCalls,       \* bound on the number of calls
  MaxOther,       \* bound on the events that are not responses
  MaxDrops        \* bound on the number of broken connections

ASSUME NodesAssumption ==
  \A p \in Plans : /\ p.drop \cup p.close \cup p.long \subseteq Nodes \ {Local}
                   /\ p.async \cup p.sync \subseteq Nodes
                   /\ p.events \in Nat \ {0} /\ p.outlasts \in BOOLEAN
ASSUME LimitsAssumption ==
  /\ MaxCalls \in Nat /\ MaxOther \in Nat /\ MaxDrops \in Nat

Svc == "svc"            \* the goroutine of the calling service
Timeout == "timeout"    \* checkRpcCallTimeout
Closer == "close"       \* the goroutine in Cluster.DelNode
ASSUME ActorsAssumption ==
  /\ Svc \notin Callers
  /\ {Timeout, Closer} \cap Nodes = {}

NoCall == "nocall"
NoNode == "nonode"
ASSUME ObjsAssumption == NoCall \notin Objs /\ NoNode \notin Nodes

Seqs == 1..MaxCalls
Issuers == Callers \cup {Svc}
Deliverers == Nodes \cup {Timeout, Closer}
\* An event that is not a response.
OtherEvent == <<0, NoCall>>

VARIABLES
  plan,       \* what may happen in this behaviour
  startSeq,   \* the last sequence number generated
  pending,    \* CallSet.pending: seq -> Call object
  timers,     \* the sequence numbers in callTimerHeap
  lock,       \* who keeps pendingLock over several steps, or "free"
  obj,        \* the fields of every Call object
  w,          \* what every issuer is doing, and with which call
  d,          \* what every deliverer is doing, and with which call
  chanEvent,  \* the event channel of the calling service
  conn,       \* the connection to every node
  closed,     \* nodes whose client was closed
  requests,   \* calls whose request is on its way or being handled
  responses,  \* calls whose response is on its way
  node,       \* the target of every call
  asyncs,     \* the asynchronous calls
  ran,        \* how often the callback of every call ran
  cancelled,  \* asynchronous calls that were cancelled
  others,     \* events pushed that are not responses
  drops       \* broken connections

callSetVars == <<pending, timers, lock>>
netVars == <<plan, conn, closed, requests, responses, drops>>
ghostVars == <<node, asyncs, ran, cancelled>>
vars == <<startSeq, callSetVars, obj, w, d, chanEvent, netVars, ghostVars, others>>

Fresh == [ref |-> FALSE, seq |-> 0, cb |-> 0, done |-> 0]
Idle == [pc |-> "idle", seq |-> 0, o |-> NoCall]

Init ==
  /\ plan \in Plans
  /\ startSeq = 0
  /\ pending = [s \in Seqs |-> NoCall]
  /\ timers = {}
  /\ lock = "free"
  /\ obj = [o \in Objs |-> Fresh]
  /\ w = [i \in Issuers |-> Idle]
  /\ d = [p \in Deliverers |-> Idle]
  /\ chanEvent = <<>>
  /\ conn = [n \in Nodes |-> "up"]
  /\ closed = {}
  /\ requests = {}
  /\ responses = {}
  /\ node = [s \in Seqs |-> NoNode]
  /\ asyncs = {}
  /\ ran = [s \in Seqs |-> 0]
  /\ cancelled = {}
  /\ others = 0
  /\ drops = 0
-----------------------------------------------------------------------------
(* The CallSet and the pool.                                               *)

\* generateSeq: atomic.AddUint64.
generateSeq == startSeq + 1

\* PoolEx.Get: an object that is not in use, pooled or new.
MakeCall(o) == ~obj[o].ref

\* PoolEx.Put: Reset clears every field; an object already free panics
\* before anything is changed.
ReleaseCall(o) == IF obj[o].ref THEN Fresh ELSE obj[o]

\* AddPending, under pendingLock.
AddWithoutTimer(s, o) ==
  lock = "free" /\ pending' = [pending EXCEPT ![s] = o] /\ UNCHANGED timers
AddPending(s, o) ==
  /\ lock = "free"
  /\ pending' = [pending EXCEPT ![s] = o]
  /\ timers' = timers \cup {s}

\* Forget the call s in the map, and in the heap.
KeepPending(s) == pending
Unpend(s) == [pending EXCEPT ![s] = NoCall]
CancelTimer(s) == timers \ {s}

\* RemovePending, under pendingLock; nothing is done for the number 0 or a
\* call that is not pending.
RemovePending(s) ==
  IF s # 0 /\ pending[s] # NoCall
  THEN /\ lock = "free"
       /\ pending' = Unpend(s)
       /\ timers' = CancelTimer(s)
  ELSE /\ s # 0 => lock = "free"
       /\ UNCHANGED <<pending, timers>>

\* An issuer takes back a call whose request it could not write.
LeavePending(s) == UNCHANGED <<pending, timers>>
Withdraw(s) == RemovePending(s)
-----------------------------------------------------------------------------
(* Synchronous calls: callRpc, rawGo and selfNodeRpcHandlerGo.             *)

Connected(n) == conn[n] # "down"

\* A call is made; the connection is tested before the call is pending.  A
\* refused call fails at once: Seq = 0 and DoError.
Go(c, n, o) ==
  /\ w[c].pc = "idle"
  /\ startSeq < MaxCalls
  /\ MakeCall(o)
  /\ startSeq' = generateSeq
  /\ node' = [node EXCEPT ![startSeq'] = n]
  /\ IF Connected(n)
     THEN /\ w' = [w EXCEPT ![c] = [pc |-> "add", seq |-> startSeq', o |-> o]]
          /\ obj' = [obj EXCEPT ![o] = [Fresh EXCEPT !.ref = TRUE, !.seq = startSeq']]
     ELSE /\ w' = [w EXCEPT ![c] = [pc |-> "wait", seq |-> startSeq', o |-> o]]
          /\ obj' = [obj EXCEPT ![o] = [Fresh EXCEPT !.ref = TRUE, !.done = startSeq']]
  /\ UNCHANGED <<callSetVars, d, chanEvent, netVars, others, asyncs, ran,
                 cancelled>>

\* goRpc: the call is released as soon as its request is written and is
\* never pending, whether the write fails or not.
GoRpc(c, n) ==
  /\ w[c].pc = "idle"
  /\ startSeq < MaxCalls
  /\ startSeq' = generateSeq
  /\ node' = [node EXCEPT ![startSeq'] = n]
  /\ UNCHANGED <<callSetVars, obj, w, d, chanEvent, netVars, others, asyncs,
                 ran, cancelled>>

CallAdd(c) ==
  /\ c \in Callers /\ w[c].pc = "add"
  /\ AddPending(w[c].seq, w[c].o)
  /\ w' = [w EXCEPT ![c].pc = "write"]
  /\ UNCHANGED <<startSeq, lock, obj, d, chanEvent, netVars, ghostVars, others>>

\* Can a request be handed to the node n?  The local service may refuse it
\* because its event channel is full, a connection because it is closed or because
\* the message is too long for it.
WriteSucceeds(n) == conn[n] # "down"
WriteFails(n) == n = Local \/ conn[n] = "down" \/ n \in plan.long

\* A request handed to a connection that is already broken is lost.
Sent(s) == IF conn[node[s]] = "up" THEN requests \cup {s} ELSE requests

CallWrite(c) ==
  /\ c \in Callers /\ w[c].pc = "write"
  /\ WriteSucceeds(node[w[c].seq])
  /\ requests' = Sent(w[c].seq)
  /\ w' = [w EXCEPT ![c].pc = "wait"]
  /\ UNCHANGED <<startSeq, callSetVars, obj, d, chanEvent, plan, conn, closed,
                 responses, drops, ghostVars, others>>

\* The write failed.  rawGo removes the call and resets its number before
\* DoError; selfNodeRpcHandlerGo calls DoError and leaves the call pending.
CallWriteFails(c) ==
  /\ c \in Callers /\ w[c].pc = "write"
  /\ WriteFails(node[w[c].seq])
  /\ w' = [w EXCEPT ![c].pc = "fail"]
  /\ IF node[w[c].seq] = Local
     THEN UNCHANGED <<pending, timers, obj>>
     ELSE /\ Withdraw(obj[w[c].o].seq)
          /\ obj' = [obj EXCEPT ![w[c].o].seq = 0]
  /\ UNCHANGED <<startSeq, lock, d, chanEvent, netVars, ghostVars, others>>

\* DoError sends to done, whose capacity is one.
DoError(c) ==
  /\ c \in Callers /\ w[c].pc = "fail"
  /\ obj[w[c].o].done = 0
  /\ obj' = [obj EXCEPT ![w[c].o].done = w[c].seq]
  /\ w' = [w EXCEPT ![c].pc = "wait"]
  /\ UNCHANGED <<startSeq, callSetVars, d, chanEvent, netVars, ghostVars, others>>

\* Done strobes.
Done(c) ==
  /\ c \in Callers /\ w[c].pc = "wait"
  /\ obj[w[c].o].done # 0
  /\ obj' = [obj EXCEPT ![w[c].o].done = 0]
  /\ w' = [w EXCEPT ![c].pc = "clean"]
  /\ UNCHANGED <<startSeq, callSetVars, d, chanEvent, netVars, ghostVars, others>>

\* RemovePending and ReleaseCall, and callRpc returns.
CallReturn(c) ==
  /\ c \in Callers /\ w[c].pc = "clean"
  /\ RemovePending(obj[w[c].o].seq)
  /\ obj' = [obj EXCEPT ![w[c].o] = ReleaseCall(w[c].o)]
  /\ w' = [w EXCEPT ![c] = Idle]
  /\ UNCHANGED <<startSeq, lock, d, chanEvent, netVars, ghostVars, others>>
-----------------------------------------------------------------------------
(* Asynchronous calls: asyncCall and selfNodeRpcHandlerAsyncGo.            *)

\* A callback runs.  The count stops at two: the properties ask for one.
RunOnce(s) == [ran EXCEPT ![s] = IF @ < 2 THEN @ + 1 ELSE @]

\* The connection is tested; AsyncCall runs the callback of a refused call.
AsyncCall(n) ==
  /\ w[Svc].pc = "idle"
  /\ startSeq < MaxCalls
  /\ startSeq' = generateSeq
  /\ node' = [node EXCEPT ![startSeq'] = n]
  /\ asyncs' = asyncs \cup {startSeq'}
  /\ IF Connected(n)
     THEN /\ w' = [w EXCEPT ![Svc] = [pc |-> "add", seq |-> startSeq', o |-> NoCall]]
          /\ UNCHANGED ran
     ELSE /\ ran' = RunOnce(startSeq')
          /\ UNCHANGED w
  /\ UNCHANGED <<callSetVars, obj, d, chanEvent, netVars, cancelled, others>>

\* A Call object is filled and becomes pending.
AsyncAdd(o) ==
  LET s == w[Svc].seq IN
  /\ w[Svc].pc = "add"
  /\ MakeCall(o)
  /\ AddPending(s, o)
  /\ obj' = [obj EXCEPT ![o] = [Fresh EXCEPT !.ref = TRUE, !.seq = s, !.cb = s]]
  /\ w' = [w EXCEPT ![Svc] = [pc |-> "write", seq |-> s, o |-> o]]
  /\ UNCHANGED <<startSeq, lock, d, chanEvent, netVars, ghostVars, others>>

AsyncWrite ==
  /\ w[Svc].pc = "write"
  /\ WriteSucceeds(node[w[Svc].seq])
  /\ requests' = Sent(w[Svc].seq)
  /\ w' = [w EXCEPT ![Svc] = Idle]
  /\ UNCHANGED <<startSeq, callSetVars, obj, d, chanEvent, plan, conn, closed,
                 responses, drops, ghostVars, others>>

\* The write failed: the call is removed by its number, and AsyncCall runs
\* the callback with the error.  asyncCall also releases the object, while
\* selfNodeRpcHandlerAsyncGo leaves it to the garbage collector.
AsyncWriteFails ==
  LET s == w[Svc].seq
      o == w[Svc].o IN
  /\ w[Svc].pc = "write"
  /\ WriteFails(node[s])
  /\ IF node[s] = Local
     THEN Withdraw(s) /\ UNCHANGED obj
     ELSE /\ Withdraw(obj[o].seq)
          /\ obj' = [obj EXCEPT ![o] = ReleaseCall(o)]
  /\ ran' = RunOnce(s)
  /\ w' = [w EXCEPT ![Svc] = Idle]
  /\ UNCHANGED <<startSeq, lock, d, chanEvent, netVars, node, asyncs, cancelled, others>>

\* The user calls the CancelRpc function of a call it made.  The object of
\* a call removed here is not returned to the pool.
CancelRpc(s) ==
  /\ w[Svc].pc = "idle"
  /\ s \in asyncs /\ pending[s] # NoCall
  /\ RemovePending(s)
  /\ cancelled' = cancelled \cup {s}
  /\ UNCHANGED <<startSeq, lock, obj, w, d, chanEvent, netVars, node, asyncs, ran, others>>

\* The service takes an event.  HandlerRpcResponseCB runs the callback the
\* object holds and releases the object; without a callback it panics, is
\* recovered, and the object is not released.
HandleEvent ==
  LET o == Head(chanEvent)[2] IN
  /\ w[Svc].pc = "idle"
  /\ chanEvent # <<>>
  /\ chanEvent' = Tail(chanEvent)
  /\ IF o # NoCall /\ obj[o].cb # 0
     THEN /\ ran' = RunOnce(obj[o].cb)
          /\ obj' = [obj EXCEPT ![o] = ReleaseCall(o)]
     ELSE UNCHANGED <<ran, obj>>
  /\ UNCHANGED <<startSeq, callSetVars, w, d, netVars, node, asyncs, cancelled, others>>

\* Any other event of the service, a timer or a request for instance.
PushOther ==
  /\ others < MaxOther
  /\ Len(chanEvent) < plan.events
  /\ others' = others + 1
  /\ chanEvent' = Append(chanEvent, OtherEvent)
  /\ UNCHANGED <<startSeq, callSetVars, obj, w, d, netVars, ghostVars>>
-----------------------------------------------------------------------------
(* Completing a call.                                                      *)

\* The called service answers, or never does.
Reply(s) ==
  /\ s \in requests
  /\ requests' = requests \ {s}
  /\ responses' = responses \cup {s}
  /\ UNCHANGED <<startSeq, callSetVars, obj, w, d, chanEvent, plan, conn, closed,
                 drops, ghostVars, others>>

\* The reader of node n (for the local node, the called service) removes
\* the call a response is for; a response nobody waits for is discarded.
Receive(n, s) ==
  /\ d[n].pc = "idle"
  /\ s \in responses /\ node[s] = n
  /\ responses' = responses \ {s}
  /\ RemovePending(s)
  /\ d' = IF pending[s] = NoCall THEN d
          ELSE [d EXCEPT ![n] = [pc |-> "deliver", seq |-> s, o |-> pending[s]]]
  /\ UNCHANGED <<startSeq, lock, obj, w, chanEvent, plan, conn, closed, requests,
                 drops, ghostVars, others>>

\* The call s is pending and its issuer has not yet sent its request, or
\* dealt with the failure to do so.
BeingWritten(s) == \E i \in Issuers : w[i].seq = s /\ w[i].pc \in {"write", "fail"}

\* checkRpcCallTimeout pops an expired timer; it keeps pendingLock until
\* makeCallFail has completed the call.
Expire(s) ==
  /\ d[Timeout].pc = "idle"
  /\ lock = "free"
  /\ s \in timers
  /\ plan.outlasts => ~BeingWritten(s)
  /\ timers' = CancelTimer(s)
  /\ IF pending[s] = NoCall
     THEN UNCHANGED <<pending, lock, d>>
     ELSE /\ pending' = Unpend(s)
          /\ lock' = Timeout
          /\ d' = [d EXCEPT ![Timeout] =
                     [pc |-> "deliver", seq |-> s, o |-> pending[s]]]
  /\ UNCHANGED <<startSeq, obj, w, chanEvent, netVars, ghostVars, others>>

\* What a deliverer does when the call is completed: a reader is done,
\* checkRpcCallTimeout unlocks, cleanPending goes on.
StaysLocked(p) ==
  /\ d' = [d EXCEPT ![p] = IF p = Closer THEN [Idle EXCEPT !.pc = "clean"] ELSE Idle]
  /\ UNCHANGED lock
Delivered(p) ==
  /\ d' = [d EXCEPT ![p] = IF p = Closer THEN [Idle EXCEPT !.pc = "clean"] ELSE Idle]
  /\ lock' = IF p = Timeout THEN "free" ELSE lock

\* A synchronous call is completed by sending it to its own channel done.
DeliverDone(p) ==
  /\ d[p].pc = "deliver"
  /\ obj[d[p].o].cb = 0
  /\ obj[d[p].o].done = 0
  /\ obj' = [obj EXCEPT ![d[p].o].done = d[p].seq]
  /\ Delivered(p)
  /\ UNCHANGED <<startSeq, pending, timers, w, chanEvent, netVars, ghostVars, others>>

\* An asynchronous call is completed by pushEvent: a full channel is
\* reported to a caller that ignores it ...
PushCheck(p) ==
  /\ d[p].pc = "deliver"
  /\ obj[d[p].o].cb # 0
  /\ IF Len(chanEvent) >= plan.events
     THEN Delivered(p)
     ELSE /\ d' = [d EXCEPT ![p].pc = "send"]
          /\ UNCHANGED lock
  /\ UNCHANGED <<startSeq, pending, timers, obj, w, chanEvent, netVars, ghostVars, others>>

\* ... otherwise the event is sent, and the send blocks while it is full.
PushSend(p) ==
  /\ d[p].pc = "send"
  /\ Len(chanEvent) < plan.events
  /\ chanEvent' = Append(chanEvent, <<d[p].seq, d[p].o>>)
  /\ Delivered(p)
  /\ UNCHANGED <<startSeq, pending, timers, obj, w, netVars, ghostVars, others>>
-----------------------------------------------------------------------------
(* Connections.                                                            *)

\* The connection breaks: closeFlag is still 0 and writes are accepted.
Drop(n) ==
  /\ n \in plan.drop /\ drops < MaxDrops
  /\ conn[n] = "up"
  /\ conn' = [conn EXCEPT ![n] = "dying"]
  /\ drops' = drops + 1
  /\ UNCHANGED <<plan, startSeq, callSetVars, obj, w, d, chanEvent, closed, requests,
                 responses, ghostVars, others>>

\* The reader's ReadMsg fails; NetConn.Close sets closeFlag.
NoticeDrop(n) ==
  /\ conn[n] = "dying"
  /\ d[n].pc = "idle"
  /\ conn' = [conn EXCEPT ![n] = "down"]
  /\ requests' = {s \in requests : node[s] # n}
  /\ responses' = {s \in responses : node[s] # n}
  /\ UNCHANGED <<plan, startSeq, callSetVars, obj, w, d, chanEvent, closed, drops, ghostVars,
                 others>>

\* TCPClient.connect dials again, unless the client was closed.
Reconnect(n) ==
  /\ n \notin closed
  /\ conn[n] = "down"
  /\ conn' = [conn EXCEPT ![n] = "up"]
  /\ UNCHANGED <<plan, startSeq, callSetVars, obj, w, d, chanEvent, closed, requests,
                 responses, drops, ghostVars, others>>

\* RClient.Close: the connection is closed without waiting for the reader,
\* then cleanPending takes pendingLock.
Close(n) ==
  /\ n \in plan.close \ closed
  /\ d[Closer].pc = "idle"
  /\ closed' = closed \cup {n}
  /\ conn' = [conn EXCEPT ![n] = IF @ = "up" THEN "dying" ELSE @]
  /\ d' = [d EXCEPT ![Closer].pc = "lock"]
  /\ UNCHANGED <<plan, startSeq, callSetVars, obj, w, chanEvent, requests, responses,
                 drops, ghostVars, others>>

CleanLock ==
  /\ d[Closer].pc = "lock"
  /\ lock = "free"
  /\ lock' = Closer
  /\ d' = [d EXCEPT ![Closer].pc = "clean"]
  /\ UNCHANGED <<startSeq, pending, timers, obj, w, chanEvent, netVars, ghostVars, others>>

\* One round of cleanPending: any call of the set, whatever its node.
CleanNext(s) ==
  /\ d[Closer].pc = "clean"
  /\ s \in timers
  /\ timers' = CancelTimer(s)
  /\ IF pending[s] = NoCall
     THEN UNCHANGED <<pending, d>>
     ELSE /\ pending' = Unpend(s)
          /\ d' = [d EXCEPT ![Closer] =
                     [pc |-> "deliver", seq |-> s, o |-> pending[s]]]
  /\ UNCHANGED <<startSeq, lock, obj, w, chanEvent, netVars, ghostVars,
                 others>>

CleanEnd ==
  /\ d[Closer].pc = "clean"
  /\ timers = {}
  /\ lock' = "free"
  /\ d' = [d EXCEPT ![Closer] = Idle]
  /\ UNCHANGED <<startSeq, pending, timers, obj, w, chanEvent, netVars, ghostVars, others>>
-----------------------------------------------------------------------------
CallStep(c) == CallAdd(c) \/ CallWrite(c) \/ CallWriteFails(c) \/ DoError(c)
               \/ Done(c) \/ CallReturn(c)
SvcStep == (\E o \in Objs : AsyncAdd(o)) \/ AsyncWrite \/ AsyncWriteFails \/ HandleEvent
Deliver(p) == DeliverDone(p) \/ PushCheck(p) \/ PushSend(p)
CleanStep == CleanLock \/ (\E s \in Seqs : CleanNext(s)) \/ CleanEnd

Next ==
  \/ \E c \in Callers, n \in plan.sync : (\E o \in Objs : Go(c, n, o)) \/ GoRpc(c, n)
  \/ \E c \in Callers : CallStep(c)
  \/ \E n \in plan.async : AsyncCall(n)
  \/ SvcStep
  \/ \E s \in Seqs : CancelRpc(s) \/ Reply(s) \/ Expire(s)
  \/ \E n \in Nodes, s \in Seqs : Receive(n, s)
  \/ \E p \in Deliverers : Deliver(p)
  \/ \E n \in Nodes : Drop(n) \/ NoticeDrop(n) \/ Reconnect(n) \/ Close(n)
  \/ CleanStep
  \/ PushOther

Safety == Init /\ [][Next]_vars

(* Goroutines are scheduled fairly and timers expire; nothing makes a user *)
(* call, a called service answer or a connection break.                    *)
Fairness ==
  /\ \A c \in Callers : WF_vars(CallStep(c))
  /\ WF_vars(SvcStep)
  /\ WF_vars(\E s \in Seqs : Expire(s))
  /\ \A n \in Nodes : WF_vars(\E s \in Seqs : Receive(n, s)) /\ WF_vars(NoticeDrop(n))
  /\ \A p \in Deliverers : WF_vars(Deliver(p))
  /\ WF_vars(CleanStep)

Spec == Safety /\ Fairness
-----------------------------------------------------------------------------
(* Properties.                                                             *)

Fields == [ref : BOOLEAN, seq : 0..MaxCalls, cb : 0..MaxCalls, done : 0..MaxCalls]
Issuing == [pc : {"idle", "add", "write", "fail", "wait", "clean"},
            seq : 0..MaxCalls, o : Objs \cup {NoCall}]
Completing == [pc : {"idle", "deliver", "send", "lock", "clean"},
               seq : 0..MaxCalls, o : Objs \cup {NoCall}]

CallSetOK ==
  /\ startSeq \in 0..MaxCalls
  /\ pending \in [Seqs -> Objs \cup {NoCall}]
  /\ timers \subseteq Seqs
  /\ lock \in {"free", Timeout, Closer}
ActorsOK ==
  /\ obj \in [Objs -> Fields]
  /\ w \in [Issuers -> Issuing]
  /\ d \in [Deliverers -> Completing]
ChannelOK ==
  /\ chanEvent \in Seq((0..MaxCalls) \X (Objs \cup {NoCall}))
  /\ Len(chanEvent) <= plan.events
  /\ others \in 0..MaxOther
NetOK ==
  /\ conn \in [Nodes -> {"up", "dying", "down"}]
  /\ closed \subseteq Nodes
  /\ requests \subseteq Seqs /\ responses \subseteq Seqs
  /\ drops \in 0..MaxDrops
CallsOK ==
  /\ node \in [Seqs -> Nodes \cup {NoNode}]
  /\ asyncs \subseteq Seqs
  /\ ran \in [Seqs -> 0..2]
  /\ cancelled \subseteq Seqs

(* The types of the state of package rpc: sequence numbers in range, at    *)
(* most one completion per done channel, the event channel within bounds.  *)
TypeOK == CallSetOK /\ ActorsOK /\ ChannelOK /\ NetOK /\ CallsOK

(* Where a reference to the object o is kept. *)
Reachable(o) ==
  \/ \E s \in Seqs : pending[s] = o
  \/ \E i \in 1..Len(chanEvent) : chanEvent[i][2] = o
  \/ \E p \in Deliverers : d[p].o = o
  \/ \E i \in Issuers : w[i].o = o

(* An object that is back in rpcCallPool is referenced by nobody: not by   *)
(* the map, a queued response event, a goroutine completing a call or the  *)
(* goroutine that made it.  Otherwise the next call would share it.        *)
FreedUnreachable == \A o \in Objs : ~obj[o].ref => ~Reachable(o)

(* Completions reach the call they are meant for: an object on its way to  *)
(* a caller or a callback still is the call it was when its number left    *)
(* the CallSet.                                                            *)
CompletesItsOwnCall ==
  /\ \A s \in Seqs : pending[s] # NoCall => obj[pending[s]].seq = s
  /\ \A c \in Callers : w[c].pc = "wait" => obj[w[c].o].done \in {0, w[c].seq}
  /\ \A i \in 1..Len(chanEvent) :
       chanEvent[i] # OtherEvent => obj[chanEvent[i][2]].cb = chanEvent[i][1]

(* The callback of an asynchronous call runs at most once, and never after *)
(* the call was cancelled while it was pending: response, timeout, write   *)
(* error and cancellation exclude each other.                              *)
CallbackAtMostOnce ==
  \A s \in Seqs : ran[s] <= 1 /\ (s \in cancelled => ran[s] = 0)

(* The event channel never fills.  If it can, a completion is dropped, or  *)
(* a goroutine that tested its length blocks in the send and keeps         *)
(* pendingLock, for which the service may be waiting itself.               *)
Roomy == plan.events >= MaxCalls + MaxOther

(* A synchronous call returns, by its response, its timeout or an error.   *)
CallReturns == \A c \in Callers : (Roomy /\ w[c].pc # "idle") ~> (w[c].pc = "idle")

(* The callback of an asynchronous call runs unless the call is cancelled. *)
CallbackRuns == \A s \in Seqs : (Roomy /\ s \in asyncs) ~> (ran[s] > 0 \/ s \in cancelled)
=============================================================================
