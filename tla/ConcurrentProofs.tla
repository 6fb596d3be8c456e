-------------------------- MODULE ConcurrentProofs --------------------------
(***************************************************************************)
(* Proofs about the coroutine pool for every number of workers, tasks and  *)
(* queues and every channel capacity.                                      *)
(*                                                                         *)
(* The heart is the token of a queue: while its session is not empty, the  *)
(* right to run its front task is in exactly one place: with a worker      *)
(* (Holds), with the dispatcher (DispHolds) or, as a finish event, in      *)
(* queueIdChannel.                                                         *)
(***************************************************************************)
EXTENDS Concurrent, SequenceTheorems, TLAPS

Busy(w) == wpc[w] \in {"run", "pushCb", "pushQueue"}
Holds(w, q) == Busy(w) /\ info[wtask[w]].queue = q
Handing == dpc \in {"exec", "send"}
DispHolds(q) == Handing /\ info[cur].queue = q
Finished(q) == \E i \in 1..Len(queueIdChannel) : queueIdChannel[i] = q

\* Task ids in use were submitted before, with a fold of their raw queue id.
IdsInv ==
  /\ \A i \in 1..Len(tasks) : tasks[i] < next
  /\ \A q \in QueueIds : \A i \in 1..Len(session[q]) :
       session[q][i] < next /\ info[session[q][i]].queue = q
  /\ Handing => cur \in TaskIds /\ cur < next
  /\ \A w \in Workers : Busy(w) => wtask[w] \in TaskIds /\ wtask[w] < next
  /\ \A w \in Workers : wpc[w] = "pushQueue" => info[wtask[w]].queue # 0
  /\ \A t \in TaskIds : info[t].queue = QueueOf(info[t].raw)

\* At most one place holds the token of a queue, and then its session is not
\* empty, except while its first task is being handed to a worker.
TokenInv ==
  /\ \A q \in QueueIds : \A v, w \in Workers :
       Holds(v, q) /\ Holds(w, q) => v = w
  /\ \A q \in QueueIds : \A w \in Workers :
       Holds(w, q) => session[q] # <<>> /\ ~DispHolds(q) /\ ~Finished(q)
  /\ \A q \in QueueIds :
       Finished(q) => session[q] # <<>> /\ ~DispHolds(q)
  /\ \A i, j \in 1..Len(queueIdChannel) :
       queueIdChannel[i] = queueIdChannel[j] => i = j

\* A worker that can still receive.
Ready(w) == wpc[w] \in {"loop", "recv"}

\* When the dispatcher is past the outer select, a full queueIdChannel means
\* that a worker has pushed to it since and is free again.
RoomInv ==
  /\ dpc = "inner" => queueIdChannel = <<>> \/ \E w \in Workers : Ready(w)
  /\ Handing => Len(queueIdChannel) < Cap \/ \E w \in Workers : Ready(w)

IInv == TypeOK /\ IdsInv /\ TokenInv /\ RoomInv

-----------------------------------------------------------------------------
\* What Head, Tail and Append return, in the form the steps below need.
LEMMA TailFacts ==
  ASSUME NEW S, NEW s \in Seq(S), s # <<>>
  PROVE  /\ Head(s) \in S /\ Head(s) = s[1]
         /\ Tail(s) \in Seq(S)
         /\ Len(s) \in Nat /\ Len(s) > 0 /\ Len(Tail(s)) = Len(s) - 1
         /\ \A i \in 1..Len(Tail(s)) : Tail(s)[i] = s[i + 1]
  BY HeadTailProperties

\* What Append returns, element by element.
LEMMA AppendFacts ==
  ASSUME NEW S, NEW s \in Seq(S), NEW e \in S
  PROVE  /\ Append(s, e) \in Seq(S)
         /\ Len(s) \in Nat /\ Len(Append(s, e)) = Len(s) + 1
         /\ \A i \in 1..Len(s) : Append(s, e)[i] = s[i]
         /\ Append(s, e)[Len(s) + 1] = e
  BY AppendProperties

\* The fold of a queue id is a session id or 0.
LEMMA QueueOfType ==
  ASSUME NEW raw \in RawQueueIds
  PROVE  QueueOf(raw) \in QueueIds \cup {0}
  BY DEF QueueIds

\* The queue ids passed to AsyncDoByQueue are integers.
LEMMA RawType == RawQueueIds \subseteq Int
  BY CallsAssumption DEF RawQueueIds

\* Session ids are integers other than 0.
LEMMA QueueIdsInt == QueueIds \subseteq Int /\ 0 \notin QueueIds
<1>1. ASSUME NEW raw \in RawQueueIds PROVE QueueOf(raw) \in Int
  <2>1. raw \in Int BY RawType
  <2>2. MaxTaskQueueSessionId \in Nat \ {0} BY LimitsAssumption
  <2>3. GoRem(raw, MaxTaskQueueSessionId) \in Int
    BY <2>1, <2>2 DEF GoRem
  <2> QED BY <2>3 DEF QueueOf
<1> QED BY <1>1 DEF QueueIds

\* The initial state of open satisfies the invariant.
LEMMA InitIInv == Init => IInv
<1> SUFFICES ASSUME Init PROVE IInv
  OBVIOUS
<1>1. TypeOK
  <2>1. ChannelsOK
    BY LimitsAssumption DEF Init, ChannelsOK
  <2>2. DispatcherOK
    BY LimitsAssumption DEF Init, DispatcherOK, DispatcherPcs
  <2>3. WorkersOK
    BY DEF Init, WorkersOK, WorkerPcs
  <2>4. TasksOK
    BY LimitsAssumption DEF Init, TasksOK, ServicePcs, NoInfo, TaskInfo,
       Statuses
  <2>5. FlagsOK
    BY DEF Init, FlagsOK
  <2> QED BY <2>1, <2>2, <2>3, <2>4, <2>5 DEF TypeOK
<1>2. IdsInv
  BY DEF Init, IdsInv, Busy, Handing, TaskIds, NoInfo, QueueOf
<1>3. TokenInv
  BY DEF Init, TokenInv, Busy, Holds, Handing, DispHolds, Finished
<1>4. RoomInv
  BY DEF Init, RoomInv, Handing
<1> QED BY <1>1, <1>2, <1>3, <1>4 DEF IInv

-----------------------------------------------------------------------------
\* Every step of the pool preserves its type invariant.
LEMMA TypeStep == IInv /\ [Next]_vars => TypeOK'
<1> SUFFICES ASSUME IInv, [Next]_vars PROVE TypeOK'
  OBVIOUS
<1>0. /\ ChannelsOK /\ DispatcherOK /\ FlagsOK /\ WorkersOK /\ TasksOK
      /\ IdsInv /\ TokenInv
  BY DEF IInv, TypeOK
<1>a. UNCHANGED chanVars \/ UNCHANGED <<tasks, queueIdChannel, cbChannel>>
      => ChannelsOK'
  BY <1>0 DEF chanVars, ChannelsOK
<1>b. UNCHANGED <<dispVars, minNum>> => DispatcherOK' /\ FlagsOK'
  BY <1>0 DEF dispVars, DispatcherOK, FlagsOK
<1>c. UNCHANGED workVars => WorkersOK'
  BY <1>0 DEF workVars, WorkersOK
<1>d. UNCHANGED <<svc, taskVars>> => TasksOK'
  BY <1>0 DEF taskVars, TasksOK
<1>1. ASSUME NEW c \in Calls, AsyncDoByQueue(c[1], c[2], c[3])
      PROVE  TypeOK'
  <2> DEFINE item(e) == [id |-> next, err |-> e]
  <2>1. next \in TaskIds /\ c[1] \in RawQueueIds /\ c[3] \in BOOLEAN
    BY <1>1, CallsAssumption DEF AsyncDoByQueue, RawQueueIds
  <2>2. item("nil") \in CbItems /\ item("full") \in CbItems
    BY <2>1 DEF CbItems, CbErrors
  <2>4. /\ Append(tasks, next) \in Seq(TaskIds)
        /\ Len(Append(tasks, next)) = Len(tasks) + 1 /\ Len(tasks) \in Nat
    BY <1>0, <2>1, AppendFacts DEF ChannelsOK
  <2>5. ChannelsOK'
    <3>1. \/ cbChannel' = cbChannel
          \/ \E e \in CbItems : /\ Len(cbChannel) < Cap
                                /\ cbChannel' = Append(cbChannel, e)
      BY <1>1, <2>2 DEF AsyncDoByQueue, PushFromService
    <3>2. \/ tasks' = tasks
          \/ Len(tasks) < Cap /\ tasks' = Append(tasks, next)
      BY <1>1 DEF AsyncDoByQueue
    <3>3. UNCHANGED queueIdChannel
      BY <1>1 DEF AsyncDoByQueue
    <3>4. tasks' \in Seq(TaskIds) /\ Len(tasks') <= Cap
      BY <1>0, <2>4, <3>2, LimitsAssumption DEF ChannelsOK
    <3>5. cbChannel' \in Seq(CbItems) /\ Len(cbChannel') <= Cap
      <4>1. CASE cbChannel' = cbChannel
        BY <1>0, <4>1 DEF ChannelsOK
      <4>2. ASSUME NEW e \in CbItems, Len(cbChannel) < Cap,
                   cbChannel' = Append(cbChannel, e)
            PROVE  cbChannel' \in Seq(CbItems) /\ Len(cbChannel') <= Cap
        <5>1. /\ Append(cbChannel, e) \in Seq(CbItems)
              /\ Len(Append(cbChannel, e)) = Len(cbChannel) + 1
              /\ Len(cbChannel) \in Nat
          BY <1>0, AppendFacts DEF ChannelsOK
        <5> QED BY <4>2, <5>1, LimitsAssumption
      <4> QED BY <3>1, <4>1, <4>2
    <3> QED BY <1>0, <3>3, <3>4, <3>5 DEF ChannelsOK
  <2>6. [raw |-> c[1], queue |-> QueueOf(c[1]), cb |-> c[3]] \in TaskInfo
    BY <2>1, QueueOfType DEF TaskInfo
  <2>7. info' \in [TaskIds -> TaskInfo]
    BY <1>0, <1>1, <2>6 DEF AsyncDoByQueue, TasksOK
  <2>8. status' \in [TaskIds -> Statuses] /\ svc' \in ServicePcs
    BY <1>0, <1>1 DEF AsyncDoByQueue, PushFromService, TasksOK, Statuses, ServicePcs
  <2>9. next' \in 1..(MaxTasks + 1) /\ called' \in [TaskIds -> Nat]
    BY <1>0, <1>1, <2>1, LimitsAssumption DEF AsyncDoByQueue, TasksOK, TaskIds
  <2>10. TasksOK'
    BY <2>7, <2>8, <2>9 DEF TasksOK
  <2>11. DispatcherOK' /\ FlagsOK' /\ WorkersOK'
    BY <1>b, <1>c, <1>1 DEF AsyncDoByQueue
  <2> QED BY <2>5, <2>10, <2>11 DEF TypeOK
<1>2. CASE DoCallback
  <2>1. /\ Head(cbChannel) \in CbItems /\ Tail(cbChannel) \in Seq(CbItems)
        /\ Len(Tail(cbChannel)) = Len(cbChannel) - 1 /\ Len(cbChannel) \in Nat
    BY <1>0, <1>2, TailFacts DEF DoCallback, ChannelsOK
  <2>2. ChannelsOK'
    BY <1>0, <1>2, <2>1, LimitsAssumption DEF DoCallback, ChannelsOK
  <2>3. called' \in [TaskIds -> Nat]
    <3>1. ASSUME NEW i PROVE [called EXCEPT ![i] = @ + 1] \in [TaskIds -> Nat]
      <4>1. called \in [TaskIds -> Nat] BY <1>0 DEF TasksOK
      <4>2. CASE i \in TaskIds
        <5>1. called[i] + 1 \in Nat BY <4>1, <4>2
        <5> QED BY <4>1, <4>2, <5>1
      <4>3. CASE i \notin TaskIds
        BY <4>1, <4>3
      <4> QED BY <4>2, <4>3
    <3>2. \/ called' = called
          \/ called' = [called EXCEPT ![Head(cbChannel).id] = @ + 1]
      BY <1>2 DEF DoCallback, Called
    <3> QED BY <1>0, <3>1, <3>2 DEF TasksOK
  <2>4. TasksOK'
    BY <1>0, <1>2, <2>3 DEF DoCallback, TasksOK, ServicePcs
  <2>5. DispatcherOK' /\ FlagsOK' /\ WorkersOK'
    BY <1>b, <1>c, <1>2 DEF DoCallback
  <2> QED BY <2>2, <2>4, <2>5 DEF TypeOK
<1>3. CASE Close
  <2>1. DispatcherOK' /\ FlagsOK'
    BY <1>0, <1>3 DEF Close, DispatcherOK, FlagsOK, dispVars
  <2>2. TasksOK'
    BY <1>0, <1>3 DEF Close, TasksOK, ServicePcs, taskVars
  <2>3. ChannelsOK' /\ WorkersOK'
    BY <1>a, <1>c, <1>3 DEF Close
  <2> QED BY <2>1, <2>2, <2>3 DEF TypeOK
<1>4. CASE DrainCallback
  <2>1. /\ Head(cbChannel) \in CbItems /\ Tail(cbChannel) \in Seq(CbItems)
        /\ Len(Tail(cbChannel)) = Len(cbChannel) - 1 /\ Len(cbChannel) \in Nat
    BY <1>0, <1>4, TailFacts DEF DrainCallback, ChannelsOK
  <2>2. ChannelsOK'
    BY <1>0, <1>4, <2>1, LimitsAssumption DEF DrainCallback, ChannelsOK
  <2>3. called' \in [TaskIds -> Nat]
    <3>1. ASSUME NEW i PROVE [called EXCEPT ![i] = @ + 1] \in [TaskIds -> Nat]
      <4>1. called \in [TaskIds -> Nat] BY <1>0 DEF TasksOK
      <4>2. CASE i \in TaskIds
        <5>1. called[i] + 1 \in Nat BY <4>1, <4>2
        <5> QED BY <4>1, <4>2, <5>1
      <4>3. CASE i \notin TaskIds
        BY <4>1, <4>3
      <4> QED BY <4>2, <4>3
    <3>2. \/ called' = called
          \/ called' = [called EXCEPT ![Head(cbChannel).id] = @ + 1]
      BY <1>4 DEF DrainCallback, Called
    <3> QED BY <1>0, <3>1, <3>2 DEF TasksOK
  <2>4. TasksOK'
    BY <1>0, <1>4, <2>3 DEF DrainCallback, TasksOK, ServicePcs
  <2>5. DispatcherOK' /\ FlagsOK' /\ WorkersOK'
    BY <1>b, <1>c, <1>4 DEF DrainCallback
  <2> QED BY <2>2, <2>4, <2>5 DEF TypeOK
<1>5. CASE DrainReturn
  <2>1. TasksOK'
    BY <1>0, <1>5 DEF DrainReturn, TasksOK, ServicePcs, taskVars
  <2>2. ChannelsOK' /\ DispatcherOK' /\ FlagsOK' /\ WorkersOK'
    BY <1>a, <1>b, <1>c, <1>5 DEF DrainReturn
  <2> QED BY <2>1, <2>2 DEF TypeOK
<1>6. CASE CloseDone
  <2>1. TasksOK'
    BY <1>0, <1>6 DEF CloseDone, TasksOK, ServicePcs, taskVars
  <2>2. ChannelsOK' /\ DispatcherOK' /\ FlagsOK' /\ WorkersOK'
    BY <1>a, <1>b, <1>c, <1>6 DEF CloseDone
  <2> QED BY <2>1, <2>2 DEF TypeOK
<1>7. CASE QueueEvent
  <2> DEFINE q == Head(queueIdChannel)
  <2>1. /\ q \in QueueIds /\ q = queueIdChannel[1]
        /\ Tail(queueIdChannel) \in Seq(QueueIds)
        /\ Len(Tail(queueIdChannel)) = Len(queueIdChannel) - 1
        /\ Len(queueIdChannel) \in Nat /\ Len(queueIdChannel) > 0
    BY <1>0, <1>7, TailFacts DEF QueueEvent, ChannelsOK
  <2>2. ChannelsOK'
    BY <1>0, <1>7, <2>1, LimitsAssumption DEF QueueEvent, ChannelsOK
  <2>3. session[q] \in Seq(TaskIds) /\ session[q] # <<>>
    <3>1. Finished(q)
      BY <2>1 DEF Finished
    <3> QED BY <1>0, <3>1, <2>1 DEF TokenInv, DispatcherOK
  <2>4. Tail(session[q]) \in Seq(TaskIds) /\ Len(session[q]) \in Nat
    BY <2>3, TailFacts
  <2>5. Len(session[q]) > 1 => session[q][2] \in TaskIds
    BY <2>3, <2>4, ElementOfSeq
  <2>6. session' \in [QueueIds -> Seq(TaskIds)]
    BY <1>0, <1>7, <2>1, <2>4 DEF QueueEvent, ProcessQueueEvent, DispatcherOK
  <2>7. DispatcherOK'
    BY <1>0, <1>7, <2>4, <2>5, <2>6 DEF QueueEvent, ProcessQueueEvent,
       NextInSession, LoopEnd, DispatcherOK, DispatcherPcs
  <2>8. FlagsOK'
    BY <1>0, <1>7 DEF QueueEvent, ProcessQueueEvent, FlagsOK
  <2>9. WorkersOK' /\ TasksOK'
    BY <1>c, <1>d, <1>7 DEF QueueEvent
  <2> QED BY <2>2, <2>7, <2>8, <2>9 DEF TypeOK
<1>8. CASE OuterDefault
  <2>1. DispatcherOK' /\ FlagsOK'
    BY <1>0, <1>8 DEF OuterDefault, DispatcherOK, DispatcherPcs, FlagsOK
  <2>2. ChannelsOK' /\ WorkersOK' /\ TasksOK'
    BY <1>a, <1>c, <1>d, <1>8 DEF OuterDefault
  <2> QED BY <2>1, <2>2 DEF TypeOK
<1>9. CASE ExecuteBlocks
  <2>1. DispatcherOK' /\ FlagsOK'
    BY <1>0, <1>9 DEF ExecuteBlocks, DispatcherOK, DispatcherPcs, FlagsOK
  <2>2. ChannelsOK' /\ WorkersOK' /\ TasksOK'
    BY <1>a, <1>c, <1>d, <1>9 DEF ExecuteBlocks
  <2> QED BY <2>1, <2>2 DEF TypeOK
<1>10. CASE InnerTask
  <2> DEFINE t == Head(tasks)
  <2> DEFINE q == info[t].queue
  <2>1. /\ t \in TaskIds /\ Tail(tasks) \in Seq(TaskIds)
        /\ Len(Tail(tasks)) = Len(tasks) - 1 /\ Len(tasks) \in Nat
    BY <1>0, <1>10, TailFacts DEF InnerTask, ChannelsOK
  <2>2. ChannelsOK'
    BY <1>0, <1>10, <2>1, LimitsAssumption DEF InnerTask, ChannelsOK
  <2>3. q \in QueueIds \cup {0}
    BY <1>0, <2>1 DEF TasksOK, TaskInfo
  <2>4. q \in QueueIds => Append(session[q], t) \in Seq(TaskIds)
    BY <1>0, <2>1, AppendFacts DEF DispatcherOK
  <2>5. session' \in [QueueIds -> Seq(TaskIds)]
    BY <1>0, <1>10, <2>3, <2>4 DEF InnerTask, MustWait, DispatcherOK
  <2>6. DispatcherOK'
    BY <1>0, <1>10, <2>1, <2>5 DEF InnerTask, LoopEnd, DispatcherOK, DispatcherPcs
  <2>7. FlagsOK'
    BY <1>0, <1>10 DEF InnerTask, FlagsOK
  <2>8. WorkersOK' /\ TasksOK'
    BY <1>c, <1>d, <1>10 DEF InnerTask
  <2> QED BY <2>2, <2>6, <2>7, <2>8 DEF TypeOK
<1>11. CASE InnerTimer
  <2>1. WorkersOK' /\ workerNum' \in Int
    BY <1>0, <1>11 DEF InnerTimer, ProcessIdle, Parked, WorkersOK, WorkerPcs,
       DispatcherOK
  <2>2. DispatcherOK'
    BY <1>0, <1>11, <2>1 DEF InnerTimer, LoopEnd, DispatcherOK, DispatcherPcs
  <2>3. FlagsOK'
    BY <1>0, <1>11 DEF InnerTimer, FlagsOK
  <2>4. ChannelsOK' /\ TasksOK'
    BY <1>a, <1>d, <1>11 DEF InnerTimer
  <2> QED BY <2>1, <2>2, <2>3, <2>4 DEF TypeOK
<1>12. CASE InnerCancel
  <2>1. DispatcherOK'
    BY <1>0, <1>12 DEF InnerCancel, DispatcherOK, DispatcherPcs
  <2>2. FlagsOK'
    BY <1>0, <1>12 DEF InnerCancel, FlagsOK
  <2>3. ChannelsOK' /\ WorkersOK' /\ TasksOK'
    BY <1>a, <1>c, <1>d, <1>12 DEF InnerCancel
  <2> QED BY <2>1, <2>2, <2>3 DEF TypeOK
<1>13. CASE CancelIdle
  <2>1. WorkersOK' /\ workerNum' \in Int
    BY <1>0, <1>13 DEF CancelIdle, ProcessIdle, Parked, WorkersOK, WorkerPcs,
       DispatcherOK
  <2>2. DispatcherOK' /\ FlagsOK'
    BY <1>0, <1>13, <2>1 DEF CancelIdle, LoopEnd, DispatcherOK, DispatcherPcs, FlagsOK
  <2>3. ChannelsOK' /\ TasksOK'
    BY <1>a, <1>d, <1>13 DEF CancelIdle
  <2> QED BY <2>1, <2>2, <2>3 DEF TypeOK
<1>14. ASSUME NEW w \in Workers, HandToWorker(w)
      PROVE  TypeOK'
  <2>1. cur \in TaskIds
    BY <1>0, <1>14 DEF HandToWorker, IdsInv, Handing
  <2>2. WorkersOK' /\ workerNum' \in Int
    BY <1>0, <1>14, <2>1 DEF HandToWorker, WorkersOK, WorkerPcs, DispatcherOK
  <2>3. info[cur].queue \in QueueIds \cup {0}
    BY <1>0, <2>1 DEF TasksOK, TaskInfo
  <2>4. session' \in [QueueIds -> Seq(TaskIds)]
    BY <1>0, <1>14, <2>1, <2>3 DEF HandToWorker, Handed, DispatcherOK
  <2>5. DispatcherOK' /\ FlagsOK'
    BY <1>0, <1>14, <2>2, <2>4 DEF HandToWorker, Handed, LoopEnd, DispatcherOK,
       DispatcherPcs, FlagsOK
  <2>6. TasksOK'
    BY <1>0, <1>14 DEF HandToWorker, Handed, TasksOK, Statuses
  <2>7. ChannelsOK'
    BY <1>a, <1>14 DEF HandToWorker
  <2> QED BY <2>2, <2>5, <2>6, <2>7 DEF TypeOK
<1>15. ASSUME NEW w \in Workers, StartWorker(w)
      PROVE  TypeOK'
  <2>1. cur \in TaskIds
    BY <1>0, <1>15 DEF StartWorker, IdsInv, Handing
  <2>2. WorkersOK' /\ workerNum' \in Int
    BY <1>0, <1>15, <2>1 DEF StartWorker, WorkersOK, WorkerPcs, DispatcherOK
  <2>3. info[cur].queue \in QueueIds \cup {0}
    BY <1>0, <2>1 DEF TasksOK, TaskInfo
  <2>4. session' \in [QueueIds -> Seq(TaskIds)]
    BY <1>0, <1>15, <2>1, <2>3 DEF StartWorker, Handed, DispatcherOK
  <2>5. DispatcherOK' /\ FlagsOK'
    BY <1>0, <1>15, <2>2, <2>4 DEF StartWorker, Handed, LoopEnd, DispatcherOK,
       DispatcherPcs, FlagsOK
  <2>6. TasksOK'
    BY <1>0, <1>15 DEF StartWorker, Handed, TasksOK, Statuses
  <2>7. ChannelsOK'
    BY <1>a, <1>15 DEF StartWorker
  <2> QED BY <2>2, <2>5, <2>6, <2>7 DEF TypeOK
<1>16. CASE DispatchExit
  <2>1. NilCb \in CbItems
    BY DEF NilCb, CbItems, CbErrors
  <2>2. /\ Append(cbChannel, NilCb) \in Seq(CbItems)
        /\ Len(Append(cbChannel, NilCb)) = Len(cbChannel) + 1
        /\ Len(cbChannel) \in Nat
    BY <1>0, <2>1, AppendFacts DEF ChannelsOK
  <2>3. ChannelsOK'
    BY <1>0, <1>16, <2>2, LimitsAssumption DEF DispatchExit, ChannelsOK
  <2>4. DispatcherOK' /\ FlagsOK'
    BY <1>0, <1>16 DEF DispatchExit, DispatcherOK, DispatcherPcs, FlagsOK
  <2>5. WorkersOK' /\ TasksOK'
    BY <1>c, <1>d, <1>16 DEF DispatchExit
  <2> QED BY <2>3, <2>4, <2>5 DEF TypeOK
<1>17. ASSUME NEW w \in Workers, NEW res \in Results, ExecTask(w, res)
      PROVE  TypeOK'
  <2>1. WorkersOK'
    BY <1>0, <1>17 DEF ExecTask, AfterCallback, WorkersOK, WorkerPcs
  <2>2. res \in Statuses
    BY ResultsAssumption DEF Statuses
  <2>3. TasksOK'
    BY <1>0, <1>17, <2>2 DEF ExecTask, TasksOK
  <2>4. ChannelsOK' /\ DispatcherOK' /\ FlagsOK'
    BY <1>a, <1>b, <1>17 DEF ExecTask
  <2> QED BY <2>1, <2>3, <2>4 DEF TypeOK
<1>18. ASSUME NEW w \in Workers, PushCallback(w)
      PROVE  TypeOK'
  <2>1. wtask[w] \in TaskIds
    BY <1>0, <1>18 DEF PushCallback, IdsInv, Busy
  <2> DEFINE item == [id |-> wtask[w], err |-> IF status[wtask[w]] = "true" THEN "nil"
                                 ELSE IF info[wtask[w]].cb THEN "panic"
                                 ELSE "panicNil"]
  <2>2. item \in CbItems
    BY <2>1 DEF CbItems, CbErrors
  <2>3. cbChannel' = Append(cbChannel, item)
    BY <1>18 DEF PushCallback
  <2>4. /\ Append(cbChannel, item) \in Seq(CbItems)
        /\ Len(Append(cbChannel, item)) = Len(cbChannel) + 1
        /\ Len(cbChannel) \in Nat
    BY <1>0, <2>2, AppendFacts DEF ChannelsOK
  <2> HIDE DEF item
  <2>5. ChannelsOK'
    BY <1>0, <1>18, <2>3, <2>4, LimitsAssumption DEF PushCallback, ChannelsOK
  <2>6. WorkersOK'
    BY <1>0, <1>18 DEF PushCallback, AfterCallback, WorkersOK, WorkerPcs
  <2>7. DispatcherOK' /\ FlagsOK' /\ TasksOK'
    BY <1>b, <1>d, <1>18 DEF PushCallback
  <2> QED BY <2>5, <2>6, <2>7 DEF TypeOK
<1>19. ASSUME NEW w \in Workers, PushQueueId(w)
      PROVE  TypeOK'
  <2> DEFINE q == info[wtask[w]].queue
  <2>1. q \in QueueIds
    BY <1>0, <1>19 DEF PushQueueId, IdsInv, Busy, TasksOK, TaskInfo
  <2>2. /\ Append(queueIdChannel, q) \in Seq(QueueIds)
        /\ Len(Append(queueIdChannel, q)) = Len(queueIdChannel) + 1
        /\ Len(queueIdChannel) \in Nat
    BY <1>0, <2>1, AppendFacts DEF ChannelsOK
  <2>3. ChannelsOK'
    BY <1>0, <1>19, <2>2, LimitsAssumption DEF PushQueueId, RoomForQueueId, ChannelsOK
  <2>4. WorkersOK'
    BY <1>0, <1>19 DEF PushQueueId, WorkersOK, WorkerPcs
  <2>5. DispatcherOK' /\ FlagsOK' /\ TasksOK'
    BY <1>b, <1>d, <1>19 DEF PushQueueId
  <2> QED BY <2>3, <2>4, <2>5 DEF TypeOK
<1>20. ASSUME NEW w \in Workers, Park(w)
      PROVE  TypeOK'
  <2>1. WorkersOK'
    BY <1>0, <1>20 DEF Park, WorkersOK, WorkerPcs
  <2>2. ChannelsOK' /\ DispatcherOK' /\ FlagsOK' /\ TasksOK'
    BY <1>a, <1>b, <1>d, <1>20 DEF Park
  <2> QED BY <2>1, <2>2 DEF TypeOK
<1>21. CASE WorkerReturn
  <2>1. WorkersOK'
    BY <1>0, <1>21 DEF WorkerReturn, WorkersOK
  <2>2. ChannelsOK' /\ DispatcherOK' /\ FlagsOK' /\ TasksOK'
    BY <1>a, <1>b, <1>d, <1>21 DEF WorkerReturn
  <2> QED BY <2>1, <2>2 DEF TypeOK
<1>22. CASE UNCHANGED vars
  BY <1>a, <1>b, <1>c, <1>d, <1>22 DEF vars, TypeOK
<1> QED
  BY <1>1, <1>2, <1>3, <1>4, <1>5, <1>6, <1>7, <1>8, <1>9, <1>10, <1>11,
     <1>12, <1>13, <1>14, <1>15, <1>16, <1>17, <1>18, <1>19, <1>20, <1>21, <1>22
  DEF Next, ServiceStep, DispatchStep, WorkerStep

\* Ids in use stay below next and keep their arguments.
LEMMA IdsInvStep == IInv /\ TypeOK' /\ [Next]_vars => IdsInv'
<1> SUFFICES ASSUME IInv, TypeOK', [Next]_vars PROVE IdsInv'
  OBVIOUS
<1>0. /\ ChannelsOK /\ DispatcherOK /\ WorkersOK /\ TasksOK
      /\ IdsInv /\ TokenInv /\ RoomInv
      /\ ChannelsOK' /\ DispatcherOK' /\ WorkersOK' /\ TasksOK'
  BY DEF IInv, TypeOK
<1>1. ASSUME NEW c \in Calls, AsyncDoByQueue(c[1], c[2], c[3])
      PROVE  IdsInv'
  <2>1. next \in TaskIds /\ next' = next + 1 /\ next \in Nat
    BY <1>1 DEF AsyncDoByQueue, TaskIds
  <2>2. UNCHANGED <<dpc, cur, session, wpc, wtask>>
    BY <1>1 DEF AsyncDoByQueue, dispVars, workVars
  <2>3. \A t \in TaskIds : t # next => info'[t] = info[t]
    BY <1>0, <1>1 DEF AsyncDoByQueue, TasksOK
  <2>4. info'[next] = [raw |-> c[1], queue |-> QueueOf(c[1]), cb |-> c[3]]
    BY <1>0, <1>1, <2>1 DEF AsyncDoByQueue, TasksOK
  <2>5. \A t \in TaskIds : info'[t].queue = QueueOf(info'[t].raw)
    BY <1>0, <2>3, <2>4 DEF IdsInv
  <2>6. \A i \in 1..Len(tasks') : tasks'[i] < next'
    <3>1. CASE tasks' = tasks
      <4>1. \A i \in 1..Len(tasks) : tasks[i] \in TaskIds
        BY <1>0, ElementOfSeq DEF ChannelsOK
      <4> QED BY <1>0, <2>1, <3>1, <4>1 DEF IdsInv, TaskIds
    <3>2. CASE tasks' = Append(tasks, next)
      <4>1. /\ Len(tasks) \in Nat /\ Len(Append(tasks, next)) = Len(tasks) + 1
            /\ \A i \in 1..Len(tasks) : Append(tasks, next)[i] = tasks[i]
            /\ Append(tasks, next)[Len(tasks) + 1] = next
        BY <1>0, <2>1, AppendFacts DEF ChannelsOK
      <4>2. \A i \in 1..Len(tasks) : tasks[i] \in TaskIds
        BY <1>0, ElementOfSeq DEF ChannelsOK
      <4> QED BY <1>0, <2>1, <3>2, <4>1, <4>2 DEF IdsInv, TaskIds
    <3> QED BY <1>1, <3>1, <3>2 DEF AsyncDoByQueue
  <2>7. \A q \in QueueIds : \A i \in 1..Len(session'[q]) :
          session'[q][i] < next' /\ info'[session'[q][i]].queue = q
    <3> SUFFICES ASSUME NEW q \in QueueIds, NEW i \in 1..Len(session[q])
                 PROVE  session[q][i] < next + 1 /\ info'[session[q][i]].queue = q
      BY <2>1, <2>2
    <3>1. session[q][i] \in TaskIds
      BY <1>0, ElementOfSeq DEF DispatcherOK
    <3>2. session[q][i] < next /\ info[session[q][i]].queue = q
      BY <1>0 DEF IdsInv
    <3> QED BY <2>1, <2>3, <3>1, <3>2 DEF TaskIds
  <2>8. Handing' => cur' \in TaskIds /\ cur' < next'
    BY <1>0, <2>1, <2>2 DEF IdsInv, Handing, TaskIds
  <2>9. \A w \in Workers : Busy(w)' => wtask'[w] \in TaskIds /\ wtask'[w] < next'
    BY <1>0, <2>1, <2>2 DEF IdsInv, Busy, TaskIds
  <2>10. ASSUME NEW w \in Workers, wpc'[w] = "pushQueue"
         PROVE  info'[wtask'[w]].queue # 0
    <3>1. wtask[w] \in TaskIds /\ wtask[w] # next /\ info[wtask[w]].queue # 0
      BY <1>0, <2>1, <2>2, <2>10 DEF IdsInv, Busy, TaskIds
    <3> QED BY <2>2, <2>3, <3>1
  <2> QED BY <2>5, <2>6, <2>7, <2>8, <2>9, <2>10 DEF IdsInv
<1>2. CASE DoCallback
  BY <1>0, <1>2 DEF DoCallback, IdsInv, Busy, Handing,
     chanVars, dispVars, workVars, taskVars, ChannelsOK, DispatcherOK, WorkersOK, TasksOK
<1>3. CASE Close
  BY <1>0, <1>3 DEF Close, IdsInv, Busy, Handing,
     chanVars, dispVars, workVars, taskVars, ChannelsOK, DispatcherOK, WorkersOK, TasksOK
<1>4. CASE DrainCallback
  BY <1>0, <1>4 DEF DrainCallback, IdsInv, Busy, Handing,
     chanVars, dispVars, workVars, taskVars, ChannelsOK, DispatcherOK, WorkersOK, TasksOK
<1>5. CASE DrainReturn
  BY <1>0, <1>5 DEF DrainReturn, IdsInv, Busy, Handing,
     chanVars, dispVars, workVars, taskVars, ChannelsOK, DispatcherOK, WorkersOK, TasksOK
<1>6. CASE CloseDone
  BY <1>0, <1>6 DEF CloseDone, IdsInv, Busy, Handing,
     chanVars, dispVars, workVars, taskVars, ChannelsOK, DispatcherOK, WorkersOK, TasksOK
<1>7. CASE QueueEvent
  <2> DEFINE p == Head(queueIdChannel)
  <2>1. /\ p \in QueueIds /\ p = queueIdChannel[1]
        /\ Len(queueIdChannel) \in Nat /\ Len(queueIdChannel) > 0
    BY <1>0, <1>7, TailFacts DEF QueueEvent, ChannelsOK
  <2>2. session[p] \in Seq(TaskIds) /\ session[p] # <<>>
    BY <1>0, <2>1 DEF Finished, TokenInv, DispatcherOK
  <2>3. /\ Len(session[p]) \in Nat /\ Len(session[p]) > 0
        /\ Len(Tail(session[p])) = Len(session[p]) - 1
        /\ \A i \in 1..Len(Tail(session[p])) : Tail(session[p])[i] = session[p][i + 1]
    BY <2>2, TailFacts
  <2>4. /\ session'[p] = Tail(session[p])
        /\ \A r \in QueueIds : r # p => session'[r] = session[r]
    BY <1>0, <1>7, <2>1 DEF QueueEvent, ProcessQueueEvent, DispatcherOK
  <2>5. UNCHANGED <<tasks, wpc, wtask, info, next>>
    BY <1>7 DEF QueueEvent, workVars, taskVars
  <2>6. \A i \in 1..Len(session[p]) : /\ session[p][i] \in TaskIds
                                      /\ session[p][i] < next
                                      /\ info[session[p][i]].queue = p
    BY <1>0, <2>1, <2>2, ElementOfSeq DEF IdsInv
  <2>7. Handing' => cur' \in TaskIds /\ cur' < next
    <3>1. CASE Len(session[p]) <= 1
      BY <1>7, <3>1 DEF QueueEvent, ProcessQueueEvent, LoopEnd, Handing
    <3>2. CASE ~(Len(session[p]) <= 1)
      <4>1. 2 \in 1..Len(session[p])
        BY <2>3, <3>2
      <4> QED BY <1>7, <2>6, <3>2, <4>1
          DEF QueueEvent, ProcessQueueEvent, NextInSession
    <3> QED BY <3>1, <3>2
  <2> HIDE DEF p
  <2>8. \A r \in QueueIds : \A i \in 1..Len(session'[r]) :
          session'[r][i] < next /\ info[session'[r][i]].queue = r
    <3> SUFFICES ASSUME NEW r \in QueueIds, NEW i \in 1..Len(session'[r])
                 PROVE  session'[r][i] < next /\ info[session'[r][i]].queue = r
      OBVIOUS
    <3>1. CASE r # p
      BY <1>0, <2>4, <3>1 DEF IdsInv
    <3>2. CASE r = p
      <4>0. session'[r] = Tail(session[p])
        BY <2>4, <3>2
      <4>1. i \in 1..Len(Tail(session[p]))
        BY <4>0
      <4>2. i + 1 \in 1..Len(session[p])
        BY <2>3, <4>1
      <4>3. session'[r][i] = session[p][i + 1]
        BY <2>3, <4>0, <4>1
      <4> QED BY <2>6, <3>2, <4>2, <4>3
    <3> QED BY <3>1, <3>2
  <2>9. \A w \in Workers : Busy(w)' => wtask'[w] \in TaskIds /\ wtask'[w] < next
    BY <1>0, <2>5 DEF IdsInv, Busy
  <2> QED BY <1>0, <2>5, <2>7, <2>8, <2>9 DEF IdsInv
<1>8. CASE OuterDefault
  BY <1>0, <1>8 DEF OuterDefault, IdsInv, Busy, Handing,
     chanVars, dispVars, workVars, taskVars, ChannelsOK, DispatcherOK, WorkersOK, TasksOK
<1>9. CASE InnerTask
  <2> DEFINE t == Head(tasks)
  <2> DEFINE q == info[t].queue
  <2>1. /\ t \in TaskIds /\ t < next
        /\ \A i \in 1..Len(tasks') : tasks'[i] < next
    <3>1. /\ t \in TaskIds /\ t = tasks[1] /\ Len(tasks) \in Nat /\ Len(tasks) > 0
          /\ Len(Tail(tasks)) = Len(tasks) - 1
          /\ \A i \in 1..Len(Tail(tasks)) : Tail(tasks)[i] = tasks[i + 1]
      BY <1>0, <1>9, TailFacts DEF InnerTask, ChannelsOK
    <3> QED BY <1>0, <1>9, <3>1 DEF InnerTask, IdsInv
  <2>2. UNCHANGED <<wpc, wtask, info, next>>
    BY <1>9 DEF InnerTask, workVars, taskVars
  <2>3. \A p \in QueueIds : \A i \in 1..Len(session'[p]) :
          session'[p][i] < next /\ info[session'[p][i]].queue = p
    <3>1. CASE session' = session
      BY <1>0, <3>1 DEF IdsInv
    <3>2. CASE q \in QueueIds /\ session' = [session EXCEPT ![q] = Append(@, t)]
      <4>1. /\ Len(session[q]) \in Nat
            /\ Len(Append(session[q], t)) = Len(session[q]) + 1
            /\ \A i \in 1..Len(session[q]) : Append(session[q], t)[i] = session[q][i]
            /\ Append(session[q], t)[Len(session[q]) + 1] = t
        BY <1>0, <2>1, <3>2, AppendFacts DEF DispatcherOK
      <4>2. session'[q] = Append(session[q], t)
        BY <1>0, <3>2 DEF DispatcherOK
      <4>3. \A p \in QueueIds : p # q => session'[p] = session[p]
        BY <1>0, <3>2 DEF DispatcherOK
      <4>4. q = info[t].queue
        OBVIOUS
      <4> HIDE DEF q, t
      <4> SUFFICES ASSUME NEW r \in QueueIds, NEW i \in 1..Len(session'[r])
                   PROVE  session'[r][i] < next /\ info[session'[r][i]].queue = r
        OBVIOUS
      <4>5. CASE r # q
        BY <1>0, <4>3, <4>5 DEF IdsInv
      <4>6. CASE r = q /\ i = Len(session[q]) + 1
        BY <2>1, <4>1, <4>2, <4>4, <4>6
      <4>7. CASE r = q /\ i # Len(session[q]) + 1
        <5>1. i \in 1..Len(session[q])
          BY <4>1, <4>2, <4>7
        <5> QED BY <1>0, <4>1, <4>2, <4>7, <5>1 DEF IdsInv
      <4> QED BY <4>5, <4>6, <4>7
    <3>3. q \in QueueIds \cup {0}
      BY <1>0, <2>1 DEF TasksOK, TaskInfo
    <3> QED BY <1>9, <3>1, <3>2, <3>3 DEF InnerTask, MustWait
  <2>4. Handing' => cur' = t
    BY <1>9 DEF InnerTask, Handing, LoopEnd
  <2>5. \A w \in Workers : Busy(w)' => wtask'[w] \in TaskIds /\ wtask'[w] < next
    BY <1>0, <2>2 DEF IdsInv, Busy
  <2> QED BY <1>0, <2>1, <2>2, <2>3, <2>4, <2>5 DEF IdsInv
<1>10. CASE InnerTimer
  BY <1>0, <1>10 DEF InnerTimer, ProcessIdle, LoopEnd, Parked, IdsInv, Busy, Handing,
     chanVars, dispVars, workVars, taskVars, ChannelsOK, DispatcherOK, WorkersOK, TasksOK
<1>11. CASE InnerCancel
  BY <1>0, <1>11 DEF InnerCancel, IdsInv, Busy, Handing,
     chanVars, dispVars, workVars, taskVars, ChannelsOK, DispatcherOK, WorkersOK, TasksOK
<1>12. CASE CancelIdle
  BY <1>0, <1>12 DEF CancelIdle, ProcessIdle, LoopEnd, Parked, MoreToVisit, IdsInv, Busy, Handing,
     chanVars, dispVars, workVars, taskVars, ChannelsOK, DispatcherOK, WorkersOK, TasksOK
<1>13. ASSUME NEW w \in Workers, HandToWorker(w)
      PROVE  IdsInv'
  BY <1>0, <1>13 DEF HandToWorker, Handed, LoopEnd, Parked, IdsInv, Busy, Handing,
     chanVars, dispVars, workVars, taskVars, ChannelsOK, DispatcherOK, WorkersOK, TasksOK
<1>14. ASSUME NEW w \in Workers, StartWorker(w)
      PROVE  IdsInv'
  BY <1>0, <1>14 DEF StartWorker, Handed, LoopEnd, IdsInv, Busy, Handing,
     chanVars, dispVars, workVars, taskVars, ChannelsOK, DispatcherOK, WorkersOK, TasksOK
<1>15. CASE ExecuteBlocks
  BY <1>0, <1>15 DEF ExecuteBlocks, IdsInv, Busy, Handing,
     chanVars, dispVars, workVars, taskVars, ChannelsOK, DispatcherOK, WorkersOK, TasksOK
<1>16. CASE DispatchExit
  BY <1>0, <1>16 DEF DispatchExit, IdsInv, Busy, Handing,
     chanVars, dispVars, workVars, taskVars, ChannelsOK, DispatcherOK, WorkersOK, TasksOK
<1>17. ASSUME NEW w \in Workers, NEW res \in Results, ExecTask(w, res)
      PROVE  IdsInv'
  BY <1>0, <1>17 DEF ExecTask, OwesCallback, AfterCallback, IdsInv, Busy, Handing,
     chanVars, dispVars, workVars, taskVars, ChannelsOK, DispatcherOK, WorkersOK, TasksOK
<1>18. ASSUME NEW w \in Workers, PushCallback(w)
      PROVE  IdsInv'
  BY <1>0, <1>18 DEF PushCallback, AfterCallback, IdsInv, Busy, Handing,
     chanVars, dispVars, workVars, taskVars, ChannelsOK, DispatcherOK, WorkersOK, TasksOK
<1>19. ASSUME NEW w \in Workers, PushQueueId(w)
      PROVE  IdsInv'
  BY <1>0, <1>19 DEF PushQueueId, RoomForQueueId, IdsInv, Busy, Handing,
     chanVars, dispVars, workVars, taskVars, ChannelsOK, DispatcherOK, WorkersOK, TasksOK
<1>20. ASSUME NEW w \in Workers, Park(w)
      PROVE  IdsInv'
  BY <1>0, <1>20 DEF Park, IdsInv, Busy, Handing,
     chanVars, dispVars, workVars, taskVars, ChannelsOK, DispatcherOK, WorkersOK, TasksOK
<1>21. CASE WorkerReturn
  BY <1>0, <1>21 DEF WorkerReturn, IdsInv, Busy, Handing,
     chanVars, dispVars, workVars, taskVars, ChannelsOK, DispatcherOK, WorkersOK, TasksOK
<1>22. CASE UNCHANGED vars
  BY <1>0, <1>22 DEF vars, IdsInv, Busy, Handing,
     chanVars, dispVars, workVars, taskVars
<1> QED
  BY <1>1, <1>2, <1>3, <1>4, <1>5, <1>6, <1>7, <1>8, <1>9, <1>10, <1>11,
     <1>12, <1>13, <1>14, <1>15, <1>16, <1>17, <1>18, <1>19, <1>20, <1>21, <1>22
  DEF Next, ServiceStep, DispatchStep, WorkerStep

\* The token of a queue stays in one place.
LEMMA TokenInvStep == IInv /\ TypeOK' /\ [Next]_vars => TokenInv'
<1> SUFFICES ASSUME IInv, TypeOK', [Next]_vars PROVE TokenInv'
  OBVIOUS
<1>0. /\ ChannelsOK /\ DispatcherOK /\ WorkersOK /\ TasksOK
      /\ IdsInv /\ TokenInv /\ RoomInv
      /\ ChannelsOK' /\ DispatcherOK' /\ WorkersOK' /\ TasksOK'
  BY DEF IInv, TypeOK
<1>f. ASSUME UNCHANGED <<queueIdChannel, session>>,
             \A q \in QueueIds : DispHolds(q)' => DispHolds(q),
             \A q \in QueueIds, w \in Workers : Holds(w, q)' => Holds(w, q)
      PROVE  TokenInv'
  <2>1. \A q : Finished(q)' <=> Finished(q)
    BY <1>f DEF Finished
  <2> QED BY <1>0, <1>f, <2>1 DEF TokenInv
<1>1. ASSUME NEW c \in Calls, AsyncDoByQueue(c[1], c[2], c[3])
      PROVE  TokenInv'
  <2>1. UNCHANGED <<queueIdChannel, session, dpc, cur, wpc, wtask>>
    BY <1>1 DEF AsyncDoByQueue, dispVars, workVars
  <2>2. \A t \in TaskIds : t < next => info'[t] = info[t]
    BY <1>0, <1>1 DEF AsyncDoByQueue, TasksOK, TaskIds
  <2>3. \A q \in QueueIds : DispHolds(q)' => DispHolds(q)
    BY <1>0, <2>1, <2>2 DEF DispHolds, Handing, IdsInv
  <2>4. \A q \in QueueIds, w \in Workers : Holds(w, q)' => Holds(w, q)
    BY <1>0, <2>1, <2>2 DEF Holds, Busy, IdsInv
  <2> QED BY <1>f, <2>1, <2>3, <2>4
<1>2. CASE DoCallback
  BY <1>0, <1>2 DEF DoCallback, TokenInv, Busy, Handing, Holds, DispHolds, Finished,
     chanVars, dispVars, workVars, taskVars, ChannelsOK, DispatcherOK, WorkersOK, TasksOK
<1>3. CASE Close
  BY <1>0, <1>3 DEF Close, TokenInv, Busy, Handing, Holds, DispHolds, Finished,
     chanVars, dispVars, workVars, taskVars, ChannelsOK, DispatcherOK, WorkersOK, TasksOK
<1>4. CASE DrainCallback
  BY <1>0, <1>4 DEF DrainCallback, TokenInv, Busy, Handing, Holds, DispHolds, Finished,
     chanVars, dispVars, workVars, taskVars, ChannelsOK, DispatcherOK, WorkersOK, TasksOK
<1>5. CASE DrainReturn
  BY <1>0, <1>5 DEF DrainReturn, TokenInv, Busy, Handing, Holds, DispHolds, Finished,
     chanVars, dispVars, workVars, taskVars, ChannelsOK, DispatcherOK, WorkersOK, TasksOK
<1>6. CASE CloseDone
  BY <1>0, <1>6 DEF CloseDone, TokenInv, Busy, Handing, Holds, DispHolds, Finished,
     chanVars, dispVars, workVars, taskVars, ChannelsOK, DispatcherOK, WorkersOK, TasksOK
<1>7. CASE QueueEvent
  <2> DEFINE p == Head(queueIdChannel)
  <2>1. /\ p \in QueueIds /\ p = queueIdChannel[1]
        /\ queueIdChannel' = Tail(queueIdChannel)
        /\ Len(queueIdChannel) \in Nat /\ Len(queueIdChannel) > 0
        /\ Len(queueIdChannel') = Len(queueIdChannel) - 1
        /\ \A i \in 1..Len(queueIdChannel') :
             queueIdChannel'[i] = queueIdChannel[i + 1]
    BY <1>0, <1>7, TailFacts DEF QueueEvent, ChannelsOK
  <2>2. Finished(p) /\ session[p] # <<>>
    BY <1>0, <2>1 DEF Finished, TokenInv
  <2>3. \A q : Finished(q)' => Finished(q) /\ q # p
    <3> SUFFICES ASSUME NEW i \in 1..Len(queueIdChannel')
                 PROVE  /\ i + 1 \in 1..Len(queueIdChannel)
                        /\ queueIdChannel'[i] = queueIdChannel[i + 1]
                        /\ queueIdChannel'[i] # p
      BY DEF Finished
    <3>1. i + 1 \in 1..Len(queueIdChannel) /\ 1 \in 1..Len(queueIdChannel)
          /\ i + 1 # 1
      BY <2>1
    <3> QED BY <1>0, <2>1, <3>1 DEF TokenInv
  <2>4. UNCHANGED <<wpc, wtask, info>>
    BY <1>7 DEF QueueEvent, workVars, taskVars
  <2>5. \A w \in Workers, q \in QueueIds : Holds(w, q)' => Holds(w, q) /\ q # p
    BY <1>0, <2>2, <2>4 DEF Holds, Busy, TokenInv
  <2>6. \A q \in QueueIds : q # p => session'[q] = session[q]
    BY <1>0, <1>7, <2>1 DEF QueueEvent, ProcessQueueEvent, DispatcherOK
  <2>7. \A q \in QueueIds : DispHolds(q)' => q = p
    <3>1. CASE Len(session[p]) <= 1
      BY <1>7, <3>1 DEF QueueEvent, ProcessQueueEvent, LoopEnd, DispHolds, Handing
    <3>2. CASE ~(Len(session[p]) <= 1)
      <4>1. Len(session[p]) \in Nat /\ session[p] \in Seq(TaskIds)
        BY <1>0, <2>1, LenProperties DEF DispatcherOK
      <4>2. 2 \in 1..Len(session[p])
        BY <3>2, <4>1
      <4>3. info[session[p][2]].queue = p
        BY <1>0, <2>1, <4>2 DEF IdsInv
      <4>4. cur' = session[p][2]
        BY <1>7, <3>2 DEF QueueEvent, ProcessQueueEvent, NextInSession
      <4> QED BY <2>4, <4>3, <4>4 DEF DispHolds
    <3> QED BY <3>1, <3>2
  <2>8. \A i, j \in 1..Len(queueIdChannel') :
          queueIdChannel'[i] = queueIdChannel'[j] => i = j
    <3> SUFFICES ASSUME NEW i \in 1..Len(queueIdChannel'),
                        NEW j \in 1..Len(queueIdChannel'),
                        queueIdChannel'[i] = queueIdChannel'[j]
                 PROVE  i = j
      OBVIOUS
    <3>1. i + 1 \in 1..Len(queueIdChannel) /\ j + 1 \in 1..Len(queueIdChannel)
      BY <2>1
    <3>2. i + 1 = j + 1
      BY <1>0, <2>1, <3>1 DEF TokenInv
    <3> QED BY <3>2, <2>1
  <2> HIDE DEF p
  <2>9. \A q \in QueueIds : \A w \in Workers :
          Holds(w, q)' => session'[q] # <<>> /\ ~DispHolds(q)' /\ ~Finished(q)'
    BY <1>0, <2>3, <2>5, <2>6, <2>7 DEF TokenInv
  <2>10. \A q \in QueueIds :
          Finished(q)' => session'[q] # <<>> /\ ~DispHolds(q)'
    BY <1>0, <2>3, <2>6, <2>7 DEF TokenInv
  <2>11. \A q \in QueueIds : \A v, w \in Workers :
          Holds(v, q)' /\ Holds(w, q)' => v = w
    BY <1>0, <2>5 DEF TokenInv
  <2> QED BY <2>8, <2>9, <2>10, <2>11 DEF TokenInv
<1>8. CASE OuterDefault
  BY <1>0, <1>8 DEF OuterDefault, TokenInv, Busy, Handing, Holds, DispHolds, Finished,
     chanVars, dispVars, workVars, taskVars, ChannelsOK, DispatcherOK, WorkersOK, TasksOK
<1>9. CASE InnerTask
  <2> DEFINE t == Head(tasks)
  <2> DEFINE p == info[t].queue
  <2>1. UNCHANGED <<queueIdChannel, wpc, wtask, info>>
    BY <1>9 DEF InnerTask, workVars, taskVars
  <2>2. t \in TaskIds /\ p \in QueueIds \cup {0}
    BY <1>0, <1>9, TailFacts DEF InnerTask, ChannelsOK, TasksOK, TaskInfo
  <2>3. (\A q : Finished(q)' <=> Finished(q)) /\
        (\A w \in Workers, q \in QueueIds : Holds(w, q)' <=> Holds(w, q))
    BY <2>1 DEF Finished, Holds, Busy
  <2>4. \A q \in QueueIds : session[q] # <<>> => session'[q] # <<>>
    <3>1. p \in QueueIds => /\ session[p] \in Seq(TaskIds)
                            /\ Append(session[p], t) # <<>>
      <4> SUFFICES ASSUME p \in QueueIds
                   PROVE  /\ session[p] \in Seq(TaskIds)
                          /\ Append(session[p], t) # <<>>
        OBVIOUS
      <4>1. session[p] \in Seq(TaskIds)
        BY <1>0 DEF DispatcherOK
      <4>2. Len(Append(session[p], t)) = Len(session[p]) + 1 /\ Len(session[p]) \in Nat
        BY <2>2, <4>1, AppendFacts
      <4>3. Append(session[p], t) \in Seq(TaskIds)
        BY <2>2, <4>1, AppendFacts
      <4> QED BY <4>1, <4>2, <4>3, EmptySeq
    <3> QED BY <1>0, <1>9, <2>2, <3>1 DEF InnerTask, MustWait, DispatcherOK
  <2>5. \A q \in QueueIds : DispHolds(q)' => session[q] = <<>>
    BY <1>9, <2>1, QueueIdsInt DEF InnerTask, MustWait, LoopEnd, DispHolds, Handing
  <2> QED BY <1>0, <2>1, <2>3, <2>4, <2>5 DEF TokenInv
<1>10. CASE InnerTimer
  <2>1. UNCHANGED <<queueIdChannel, session, cur, wtask, info>> /\ ~Handing'
    BY <1>10 DEF InnerTimer, chanVars, taskVars, LoopEnd, Handing
  <2>2. \A w \in Workers : wpc'[w] = wpc[w] \/ wpc'[w] = "none"
    BY <1>0, <1>10 DEF InnerTimer, ProcessIdle, Parked, WorkersOK
  <2>3. \A q \in QueueIds, w \in Workers : Holds(w, q)' => Holds(w, q)
    BY <2>1, <2>2 DEF Holds, Busy
  <2> QED BY <1>f, <2>1, <2>3 DEF DispHolds
<1>11. CASE InnerCancel
  BY <1>0, <1>11 DEF InnerCancel, TokenInv, Busy, Handing, Holds, DispHolds, Finished,
     chanVars, dispVars, workVars, taskVars, ChannelsOK, DispatcherOK, WorkersOK, TasksOK
<1>12. CASE CancelIdle
  <2>1. UNCHANGED <<queueIdChannel, session, cur, wtask, info>> /\ ~Handing'
    BY <1>12 DEF CancelIdle, chanVars, taskVars, LoopEnd, Handing
  <2>2. \A w \in Workers : wpc'[w] = wpc[w] \/ wpc'[w] = "none"
    BY <1>0, <1>12 DEF CancelIdle, ProcessIdle, Parked, WorkersOK
  <2>3. \A q \in QueueIds, w \in Workers : Holds(w, q)' => Holds(w, q)
    BY <2>1, <2>2 DEF Holds, Busy
  <2> QED BY <1>f, <2>1, <2>3 DEF DispHolds
<1>13. ASSUME NEW w \in Workers, HandToWorker(w)
      PROVE  TokenInv'
  <2> DEFINE p == info[cur].queue
  <2>1. UNCHANGED <<queueIdChannel, info>> /\ Handing /\ ~Handing'
    BY <1>13 DEF HandToWorker, Handed, LoopEnd, Handing, chanVars
  <2>2. cur \in TaskIds /\ p \in QueueIds \cup {0}
    BY <1>0, <2>1 DEF IdsInv, TasksOK, TaskInfo
  <2>3. /\ ~Busy(w)
        /\ wtask'[w] = cur
        /\ \A v \in Workers : v # w => wpc'[v] = wpc[v] /\ wtask'[v] = wtask[v]
    BY <1>0, <1>13 DEF HandToWorker, Parked, Busy, WorkersOK
  <2>4. \A q \in QueueIds : Holds(w, q)' => q = p
    BY <2>1, <2>3 DEF Holds
  <2>5. \A q \in QueueIds, v \in Workers : v # w /\ Holds(v, q)' => Holds(v, q)
    BY <2>1, <2>3 DEF Holds, Busy
  <2>6. \A q : Finished(q)' <=> Finished(q)
    BY <2>1 DEF Finished
  <2>7. /\ \A q \in QueueIds : session[q] # <<>> => session'[q] # <<>>
        /\ p \in QueueIds => session'[p] # <<>>
    BY <1>0, <1>13, <2>2, QueueIdsInt DEF HandToWorker, Handed, DispatcherOK
  <2>8. DispHolds(p)
    BY <2>1 DEF DispHolds
  <2> HIDE DEF p
  <2>9. \A q \in QueueIds : \A v, u \in Workers :
          Holds(v, q)' /\ Holds(u, q)' => v = u
    BY <1>0, <2>4, <2>5, <2>8 DEF TokenInv
  <2>10. \A q \in QueueIds : \A v \in Workers :
          Holds(v, q)' => session'[q] # <<>> /\ ~DispHolds(q)' /\ ~Finished(q)'
    BY <1>0, <2>1, <2>4, <2>5, <2>6, <2>7, <2>8 DEF TokenInv, DispHolds
  <2>11. \A q \in QueueIds : Finished(q)' => session'[q] # <<>> /\ ~DispHolds(q)'
    BY <1>0, <2>1, <2>6, <2>7 DEF TokenInv, DispHolds
  <2> QED BY <1>0, <2>1, <2>9, <2>10, <2>11 DEF TokenInv
<1>14. ASSUME NEW w \in Workers, StartWorker(w)
      PROVE  TokenInv'
  <2> DEFINE p == info[cur].queue
  <2>1. UNCHANGED <<queueIdChannel, info>> /\ Handing /\ ~Handing'
    BY <1>14 DEF StartWorker, Handed, LoopEnd, Handing, chanVars
  <2>2. cur \in TaskIds /\ p \in QueueIds \cup {0}
    BY <1>0, <2>1 DEF IdsInv, TasksOK, TaskInfo
  <2>3. /\ ~Busy(w)
        /\ wtask'[w] = cur
        /\ \A v \in Workers : v # w => wpc'[v] = wpc[v] /\ wtask'[v] = wtask[v]
    BY <1>0, <1>14 DEF StartWorker, Parked, Busy, WorkersOK
  <2>4. \A q \in QueueIds : Holds(w, q)' => q = p
    BY <2>1, <2>3 DEF Holds
  <2>5. \A q \in QueueIds, v \in Workers : v # w /\ Holds(v, q)' => Holds(v, q)
    BY <2>1, <2>3 DEF Holds, Busy
  <2>6. \A q : Finished(q)' <=> Finished(q)
    BY <2>1 DEF Finished
  <2>7. /\ \A q \in QueueIds : session[q] # <<>> => session'[q] # <<>>
        /\ p \in QueueIds => session'[p] # <<>>
    BY <1>0, <1>14, <2>2, QueueIdsInt DEF StartWorker, Handed, DispatcherOK
  <2>8. DispHolds(p)
    BY <2>1 DEF DispHolds
  <2> HIDE DEF p
  <2>9. \A q \in QueueIds : \A v, u \in Workers :
          Holds(v, q)' /\ Holds(u, q)' => v = u
    BY <1>0, <2>4, <2>5, <2>8 DEF TokenInv
  <2>10. \A q \in QueueIds : \A v \in Workers :
          Holds(v, q)' => session'[q] # <<>> /\ ~DispHolds(q)' /\ ~Finished(q)'
    BY <1>0, <2>1, <2>4, <2>5, <2>6, <2>7, <2>8 DEF TokenInv, DispHolds
  <2>11. \A q \in QueueIds : Finished(q)' => session'[q] # <<>> /\ ~DispHolds(q)'
    BY <1>0, <2>1, <2>6, <2>7 DEF TokenInv, DispHolds
  <2> QED BY <1>0, <2>1, <2>9, <2>10, <2>11 DEF TokenInv
<1>15. CASE ExecuteBlocks
  BY <1>0, <1>15 DEF ExecuteBlocks, TokenInv, Busy, Handing, Holds, DispHolds, Finished,
     chanVars, dispVars, workVars, taskVars, ChannelsOK, DispatcherOK, WorkersOK, TasksOK
<1>16. CASE DispatchExit
  BY <1>0, <1>16 DEF DispatchExit, TokenInv, Busy, Handing, Holds, DispHolds, Finished,
     chanVars, dispVars, workVars, taskVars, ChannelsOK, DispatcherOK, WorkersOK, TasksOK
<1>17. ASSUME NEW w \in Workers, NEW res \in Results, ExecTask(w, res)
      PROVE  TokenInv'
  BY <1>0, <1>17 DEF ExecTask, OwesCallback, AfterCallback, TokenInv, Busy, Handing, Holds, DispHolds, Finished,
     chanVars, dispVars, workVars, taskVars, ChannelsOK, DispatcherOK, WorkersOK, TasksOK
<1>18. ASSUME NEW w \in Workers, PushCallback(w)
      PROVE  TokenInv'
  <2>1. UNCHANGED <<queueIdChannel, session, dpc, cur, wtask, info>>
    BY <1>18 DEF PushCallback, dispVars, taskVars
  <2>2. \A v \in Workers : Busy(v)' => Busy(v)
    BY <1>0, <1>18 DEF PushCallback, Busy, WorkersOK
  <2> QED BY <1>f, <2>1, <2>2 DEF Holds, DispHolds, Handing
<1>19. ASSUME NEW w \in Workers, PushQueueId(w)
      PROVE  TokenInv'
  <2> DEFINE p == info[wtask[w]].queue
  <2>1. UNCHANGED <<session, dpc, cur, wtask, info>>
    BY <1>19 DEF PushQueueId, dispVars, taskVars
  <2>2. /\ Busy(w) /\ ~Busy(w)'
        /\ \A v \in Workers : v # w => (Busy(v)' <=> Busy(v))
    BY <1>0, <1>19 DEF PushQueueId, Busy, WorkersOK
  <2>3. p \in QueueIds /\ Holds(w, p)
    BY <1>0, <1>19, <2>2 DEF PushQueueId, IdsInv, TasksOK, TaskInfo, Holds
  <2>4. \A q \in QueueIds, v \in Workers :
          Holds(v, q)' => Holds(v, q) /\ v # w /\ q # p
    BY <1>0, <2>1, <2>2, <2>3 DEF Holds, TokenInv
  <2>5. /\ queueIdChannel' = Append(queueIdChannel, p)
        /\ Len(queueIdChannel) \in Nat
        /\ Len(queueIdChannel') = Len(queueIdChannel) + 1
        /\ \A i \in 1..Len(queueIdChannel) : queueIdChannel'[i] = queueIdChannel[i]
        /\ queueIdChannel'[Len(queueIdChannel) + 1] = p
    BY <1>0, <1>19, <2>3, AppendFacts DEF PushQueueId, ChannelsOK
  <2> HIDE DEF p
  <2>6. \A q : Finished(q)' => Finished(q) \/ q = p
    BY <2>5 DEF Finished
  <2>7. session[p] # <<>> /\ ~DispHolds(p) /\ ~Finished(p)
    BY <1>0, <2>3 DEF TokenInv
  <2>8. \A q : DispHolds(q)' <=> DispHolds(q)
    BY <2>1 DEF DispHolds, Handing
  <2>9. \A i, j \in 1..Len(queueIdChannel') :
          queueIdChannel'[i] = queueIdChannel'[j] => i = j
    BY <1>0, <2>5, <2>7 DEF Finished, TokenInv
  <2>10. \A q \in QueueIds : \A u, v \in Workers :
          Holds(u, q)' /\ Holds(v, q)' => u = v
    BY <1>0, <2>4 DEF TokenInv
  <2>11. \A q \in QueueIds : \A v \in Workers :
          Holds(v, q)' => session'[q] # <<>> /\ ~DispHolds(q)' /\ ~Finished(q)'
    BY <1>0, <2>1, <2>4, <2>6, <2>8 DEF TokenInv
  <2>12. \A q \in QueueIds : Finished(q)' => session'[q] # <<>> /\ ~DispHolds(q)'
    BY <1>0, <2>1, <2>6, <2>7, <2>8 DEF TokenInv
  <2> QED BY <2>9, <2>10, <2>11, <2>12 DEF TokenInv
<1>20. ASSUME NEW w \in Workers, Park(w)
      PROVE  TokenInv'
  BY <1>0, <1>20 DEF Park, TokenInv, Busy, Handing, Holds, DispHolds, Finished,
     chanVars, dispVars, workVars, taskVars, ChannelsOK, DispatcherOK, WorkersOK, TasksOK
<1>21. CASE WorkerReturn
  BY <1>0, <1>21 DEF WorkerReturn, TokenInv, Busy, Handing, Holds, DispHolds, Finished,
     chanVars, dispVars, workVars, taskVars, ChannelsOK, DispatcherOK, WorkersOK, TasksOK
<1>22. CASE UNCHANGED vars
  BY <1>0, <1>22 DEF vars, TokenInv, Busy, Handing, Holds, DispHolds, Finished,
     chanVars, dispVars, workVars, taskVars
<1> QED
  BY <1>1, <1>2, <1>3, <1>4, <1>5, <1>6, <1>7, <1>8, <1>9, <1>10, <1>11,
     <1>12, <1>13, <1>14, <1>15, <1>16, <1>17, <1>18, <1>19, <1>20, <1>21, <1>22
  DEF Next, ServiceStep, DispatchStep, WorkerStep

\* Past the outer select, room in queueIdChannel or a free worker remains.
LEMMA RoomInvStep == IInv /\ TypeOK' /\ [Next]_vars => RoomInv'
<1> SUFFICES ASSUME IInv, TypeOK', [Next]_vars PROVE RoomInv'
  OBVIOUS
<1>0. /\ ChannelsOK /\ DispatcherOK /\ WorkersOK /\ TasksOK
      /\ IdsInv /\ TokenInv /\ RoomInv
      /\ ChannelsOK' /\ DispatcherOK' /\ WorkersOK' /\ TasksOK'
  BY DEF IInv, TypeOK
<1>1. ASSUME NEW c \in Calls, AsyncDoByQueue(c[1], c[2], c[3])
      PROVE  RoomInv'
  BY <1>0, <1>1 DEF AsyncDoByQueue, PushFromService, RoomInv, Ready, Handing,
     chanVars, dispVars, workVars, taskVars, ChannelsOK, DispatcherOK, WorkersOK, TasksOK
<1>2. CASE DoCallback
  BY <1>0, <1>2 DEF DoCallback, RoomInv, Ready, Handing,
     chanVars, dispVars, workVars, taskVars, ChannelsOK, DispatcherOK, WorkersOK, TasksOK
<1>3. CASE Close
  BY <1>0, <1>3 DEF Close, RoomInv, Ready, Handing,
     chanVars, dispVars, workVars, taskVars, ChannelsOK, DispatcherOK, WorkersOK, TasksOK
<1>4. CASE DrainCallback
  BY <1>0, <1>4 DEF DrainCallback, RoomInv, Ready, Handing,
     chanVars, dispVars, workVars, taskVars, ChannelsOK, DispatcherOK, WorkersOK, TasksOK
<1>5. CASE DrainReturn
  BY <1>0, <1>5 DEF DrainReturn, RoomInv, Ready, Handing,
     chanVars, dispVars, workVars, taskVars, ChannelsOK, DispatcherOK, WorkersOK, TasksOK
<1>6. CASE CloseDone
  BY <1>0, <1>6 DEF CloseDone, RoomInv, Ready, Handing,
     chanVars, dispVars, workVars, taskVars, ChannelsOK, DispatcherOK, WorkersOK, TasksOK
<1>7. CASE QueueEvent
  <2>1. Len(queueIdChannel') < Cap /\ dpc' # "inner"
    <3>1. /\ Len(queueIdChannel) \in Nat
          /\ Len(queueIdChannel') = Len(queueIdChannel) - 1
      BY <1>0, <1>7, TailFacts DEF QueueEvent, ChannelsOK
    <3> QED BY <1>0, <1>7, <3>1, LimitsAssumption
        DEF QueueEvent, ProcessQueueEvent, LoopEnd, ChannelsOK
  <2> QED BY <2>1 DEF RoomInv
<1>8. CASE OuterDefault
  BY <1>8 DEF OuterDefault, NoQueueEvent, chanVars, RoomInv, Handing
<1>9. CASE InnerTask
  <2>1. UNCHANGED <<queueIdChannel, wpc>> /\ dpc = "inner" /\ dpc' # "inner"
    BY <1>9 DEF InnerTask, LoopEnd, workVars
  <2>2. queueIdChannel = <<>> => Len(queueIdChannel) < Cap
    BY EmptySeq, LimitsAssumption
  <2> QED BY <1>0, <2>1, <2>2 DEF RoomInv, Ready
<1>10. CASE InnerTimer
  BY <1>0, <1>10 DEF InnerTimer, ProcessIdle, LoopEnd, Parked, RoomInv, Ready, Handing,
     chanVars, dispVars, workVars, taskVars, ChannelsOK, DispatcherOK, WorkersOK, TasksOK
<1>11. CASE InnerCancel
  BY <1>0, <1>11 DEF InnerCancel, RoomInv, Ready, Handing,
     chanVars, dispVars, workVars, taskVars, ChannelsOK, DispatcherOK, WorkersOK, TasksOK
<1>12. CASE CancelIdle
  BY <1>0, <1>12 DEF CancelIdle, ProcessIdle, LoopEnd, Parked, MoreToVisit, RoomInv, Ready, Handing,
     chanVars, dispVars, workVars, taskVars, ChannelsOK, DispatcherOK, WorkersOK, TasksOK
<1>13. ASSUME NEW w \in Workers, HandToWorker(w)
      PROVE  RoomInv'
  BY <1>0, <1>13 DEF HandToWorker, Handed, LoopEnd, Parked, RoomInv, Ready, Handing,
     chanVars, dispVars, workVars, taskVars, ChannelsOK, DispatcherOK, WorkersOK, TasksOK
<1>14. ASSUME NEW w \in Workers, StartWorker(w)
      PROVE  RoomInv'
  BY <1>0, <1>14 DEF StartWorker, Handed, LoopEnd, RoomInv, Ready, Handing,
     chanVars, dispVars, workVars, taskVars, ChannelsOK, DispatcherOK, WorkersOK, TasksOK
<1>15. CASE ExecuteBlocks
  BY <1>0, <1>15 DEF ExecuteBlocks, RoomInv, Ready, Handing,
     chanVars, dispVars, workVars, taskVars, ChannelsOK, DispatcherOK, WorkersOK, TasksOK
<1>16. CASE DispatchExit
  BY <1>0, <1>16 DEF DispatchExit, RoomInv, Ready, Handing,
     chanVars, dispVars, workVars, taskVars, ChannelsOK, DispatcherOK, WorkersOK, TasksOK
<1>17. ASSUME NEW w \in Workers, NEW res \in Results, ExecTask(w, res)
      PROVE  RoomInv'
  BY <1>0, <1>17 DEF ExecTask, OwesCallback, AfterCallback, RoomInv, Ready, Handing,
     chanVars, dispVars, workVars, taskVars, ChannelsOK, DispatcherOK, WorkersOK, TasksOK
<1>18. ASSUME NEW w \in Workers, PushCallback(w)
      PROVE  RoomInv'
  BY <1>0, <1>18 DEF PushCallback, AfterCallback, RoomInv, Ready, Handing,
     chanVars, dispVars, workVars, taskVars, ChannelsOK, DispatcherOK, WorkersOK, TasksOK
<1>19. ASSUME NEW w \in Workers, PushQueueId(w)
      PROVE  RoomInv'
  BY <1>0, <1>19 DEF PushQueueId, RoomForQueueId, RoomInv, Ready, Handing,
     chanVars, dispVars, workVars, taskVars, ChannelsOK, DispatcherOK, WorkersOK, TasksOK
<1>20. ASSUME NEW w \in Workers, Park(w)
      PROVE  RoomInv'
  BY <1>0, <1>20 DEF Park, RoomInv, Ready, Handing,
     chanVars, dispVars, workVars, taskVars, ChannelsOK, DispatcherOK, WorkersOK, TasksOK
<1>21. CASE WorkerReturn
  BY <1>0, <1>21 DEF WorkerReturn, RoomInv, Ready, Handing,
     chanVars, dispVars, workVars, taskVars, ChannelsOK, DispatcherOK, WorkersOK, TasksOK
<1>22. CASE UNCHANGED vars
  BY <1>0, <1>22 DEF vars, RoomInv, Ready, Handing,
     chanVars, dispVars, workVars, taskVars
<1> QED
  BY <1>1, <1>2, <1>3, <1>4, <1>5, <1>6, <1>7, <1>8, <1>9, <1>10, <1>11,
     <1>12, <1>13, <1>14, <1>15, <1>16, <1>17, <1>18, <1>19, <1>20, <1>21, <1>22
  DEF Next, ServiceStep, DispatchStep, WorkerStep

-----------------------------------------------------------------------------
\* The invariant is inductive.
LEMMA Inductive == IInv /\ [Next]_vars => IInv'
  BY TypeStep, IdsInvStep, TokenInvStep, RoomInvStep DEF IInv

\* The inductive invariant of the pool holds in every reachable state.
THEOREM PoolInvariant == Safety => []IInv
  BY InitIInv, Inductive, PTL DEF Safety

\* Type correctness of package concurrent, the bound of every channel and the
\* absence of a pop from an empty session included.
THEOREM TypeCorrect == Safety => []TypeOK
<1>1. IInv => TypeOK
  BY DEF IInv
<1> QED BY PoolInvariant, <1>1, PTL

\* executeTask and pushQueueTaskFinishEvent never wait for each other: for
\* every number of workers and every capacity of the channels.
THEOREM DispatchDeadlockFree == Safety => []NoDispatchDeadlock
<1>1. IInv => NoDispatchDeadlock
  <2> SUFFICES ASSUME IInv, dpc = "send", Len(queueIdChannel) = Cap,
                      \A w \in Live : wpc[w] = "pushQueue"
               PROVE  FALSE
    BY DEF NoDispatchDeadlock
  <2>1. \E w \in Workers : Ready(w)
    BY LimitsAssumption DEF IInv, RoomInv, Handing
  <2> QED BY <2>1 DEF Ready, Live
<1> QED BY PoolInvariant, <1>1, PTL

\* No caller passes a negative queue id, so no queue folds to "no queue".
NoNegativeQueue == \A raw \in RawQueueIds : raw >= 0

\* A queue id that is not negative folds to a session (AsyncDoByQueue).
LEMMA NonNegativeFold ==
  ASSUME NoNegativeQueue, NEW raw \in RawQueueIds \cup {0}, raw # 0
  PROVE  QueueOf(raw) \in QueueIds
<1>1. raw \in RawQueueIds /\ raw \in Nat
  BY RawType DEF NoNegativeQueue
<1>2. QueueOf(raw) = (raw % MaxTaskQueueSessionId) + 1
  BY <1>1 DEF QueueOf, GoRem
<1>3. QueueOf(raw) # 0
  BY <1>1, <1>2, LimitsAssumption
<1> QED BY <1>1, <1>3 DEF QueueIds

\* Two tasks submitted with the same non-zero queue id never execute at the
\* same time, provided that queue ids are not negative.
THEOREM QueueTasksAreSerial ==
  NoNegativeQueue => (Safety => []SameQueueSerial)
<1> SUFFICES ASSUME NoNegativeQueue PROVE Safety => []SameQueueSerial
  OBVIOUS
<1>1. ASSUME IInv PROVE SameQueueSerial
  <2> SUFFICES ASSUME NEW v \in Workers, NEW w \in Workers, v # w,
                      wpc[v] = "run", wpc[w] = "run",
                      info[wtask[v]].raw # 0,
                      info[wtask[v]].raw = info[wtask[w]].raw
               PROVE  FALSE
    BY DEF SameQueueSerial
  <2>1. wtask[v] \in TaskIds /\ wtask[w] \in TaskIds
    BY <1>1 DEF IInv, IdsInv, Busy
  <2>2. /\ info[wtask[v]].raw \in RawQueueIds \cup {0}
        /\ info[wtask[v]].queue = QueueOf(info[wtask[v]].raw)
        /\ info[wtask[w]].queue = QueueOf(info[wtask[w]].raw)
    BY <1>1, <2>1 DEF IInv, IdsInv, TypeOK, TasksOK, TaskInfo
  <2>3. info[wtask[v]].queue \in QueueIds
    BY <1>1, <2>2, NonNegativeFold
  <2>4. Holds(v, info[wtask[v]].queue) /\ Holds(w, info[wtask[v]].queue)
    BY <2>2 DEF Holds, Busy
  <2> QED BY <1>1, <2>3, <2>4 DEF IInv, TokenInv
<1>2. IInv => SameQueueSerial
  BY <1>1
<1> QED BY PoolInvariant, <1>2, PTL
-----------------------------------------------------------------------------
(***************************************************************************)
(* What becomes of a task: the tasks of one queue begin in the order of    *)
(* their submission, and when close returns every callback that a worker   *)
(* owed has run exactly once.                                              *)
(*                                                                         *)
(* Both rest on where a task can be.  Tasks leave the channel tasks in the *)
(* order of their ids, so that whatever the dispatcher has taken is older  *)
(* than what it has not; from there a task is in the session of its queue, *)
(* in the hands of the dispatcher or of one worker, and its callback is    *)
(* with that worker, in cbChannel before the closing nil, or run.          *)
(***************************************************************************)

Begun(t) == status[t] \in {"running", "true", "false", "panic"}

\* The tasks in the channel are queued, in order, and younger than those taken.
ChannelInv ==
  /\ \A t \in TaskIds : t >= next => status[t] = "new"
  /\ \A i, j \in 1..Len(tasks) : i < j => tasks[i] < tasks[j]
  /\ \A i \in 1..Len(tasks) : status[tasks[i]] = "queued"
  /\ \A i \in 1..Len(tasks) : \A t \in TaskIds : Begun(t) => t < tasks[i]
  /\ \A i \in 1..Len(tasks) : \A q \in QueueIds : \A j \in 1..Len(session[q]) :
       session[q][j] < tasks[i]
  /\ Handing => status[cur] = "queued" /\ \A i \in 1..Len(tasks) : cur < tasks[i]

\* A session is in order; its front runs, or is being handed to a worker, the
\* others wait, and what has begun of its queue is not younger than its front.
SessionOK(q) ==
  /\ \A i, j \in 1..Len(session[q]) : i < j => session[q][i] < session[q][j]
  /\ \A i \in 2..Len(session[q]) : status[session[q][i]] = "queued"
  /\ session[q] # <<>> => IF DispHolds(q) THEN cur = session[q][1]
                                          ELSE Begun(session[q][1])
  /\ \A u \in TaskIds : Begun(u) /\ info[u].queue = q =>
       /\ \A i \in 1..Len(session[q]) : u <= session[q][i]
       /\ DispHolds(q) => u < cur
SessionInv == \A q \in QueueIds : SessionOK(q)

\* A worker has a task that has begun, and has it alone.
WorkerInv ==
  /\ \A w \in Workers : Busy(w) => Begun(wtask[w])
  /\ \A w \in Workers : wpc[w] = "run" => status[wtask[w]] = "running"
  /\ \A v, w \in Workers : Busy(v) /\ Busy(w) /\ wtask[v] = wtask[w] => v = w

\* A queued task is in the channel, behind the front of its session, or with
\* the dispatcher.
Waits(t) ==
  \/ \E i \in 1..Len(tasks) : tasks[i] = t
  \/ \E q \in QueueIds : \E i \in 2..Len(session[q]) : session[q][i] = t
  \/ Handing /\ cur = t
WaitsInv == \A t \in TaskIds : status[t] = "queued" => Waits(t)

TaskInv == ChannelInv /\ SessionInv /\ WorkerInv /\ WaitsInv

\* The callback of task t is in cbChannel.
InChannel(t) == \E i \in 1..Len(cbChannel) : cbChannel[i].id = t
Pushing(t) == \E w \in Workers : wpc[w] = "pushCb" /\ wtask[w] = t
Ran(t) == status[t] \in {"true", "panic"}

\* A callback is in one place: a task that has not run has none yet, one in the
\* channel is there once and was not called, and one that is owed is not lost.
CallbackInv ==
  /\ \A i \in 1..Len(cbChannel) : cbChannel[i].id = 0 => cbChannel[i] = NilCb
  /\ \A t \in TaskIds : InChannel(t) => called[t] = 0
  /\ \A i, j \in 1..Len(cbChannel) :
       cbChannel[i].id = cbChannel[j].id /\ cbChannel[i].id # 0 => i = j
  /\ \A i \in 1..Len(cbChannel) : cbChannel[i].id # 0 /\ cbChannel[i].err = "panicNil"
       => ~info[cbChannel[i].id].cb
  /\ \A t \in TaskIds : status[t] \in {"new", "queued", "running"} =>
       called[t] = 0 /\ ~InChannel(t)
  /\ \A w \in Workers : wpc[w] = "pushCb" =>
       Ran(wtask[w]) /\ called[wtask[w]] = 0 /\ ~InChannel(wtask[w])
  /\ \A t \in TaskIds : Ran(t) /\ info[t].cb =>
       Pushing(t) \/ InChannel(t) \/ called[t] = 1

\* The nil comes when all workers have returned, and nothing that a worker
\* pushed is behind it.
NilInv ==
  /\ dpc = "done" => Live = {} /\ exiting = 0
  /\ \A i \in 1..Len(cbChannel) : cbChannel[i].id = 0 => dpc = "done"
  /\ \A i, j \in 1..Len(cbChannel) :
       cbChannel[i].id = 0 /\ i < j /\ cbChannel[j].id # 0 => ~Ran(cbChannel[j].id)
  /\ svc \in {"waitDispatch", "closed"} =>
       /\ dpc = "done"
       /\ \A i \in 1..Len(cbChannel) : cbChannel[i].id # 0 => ~Ran(cbChannel[i].id)

-----------------------------------------------------------------------------
\* The types used below, element by element.
LEMMA ElementTypes ==
  ASSUME IInv
  PROVE  /\ next \in Nat
         /\ tasks \in Seq(TaskIds) /\ Len(tasks) \in Nat
         /\ \A i \in 1..Len(tasks) : tasks[i] \in TaskIds
         /\ \A q \in QueueIds : /\ session[q] \in Seq(TaskIds) /\ Len(session[q]) \in Nat
                                /\ \A i \in 1..Len(session[q]) : session[q][i] \in TaskIds
         /\ Handing => cur \in TaskIds
         /\ TaskIds \subseteq Nat
<1>1. /\ next \in Nat /\ TaskIds \subseteq Nat
  BY LimitsAssumption DEF IInv, TypeOK, TasksOK, TaskIds
<1>2. tasks \in Seq(TaskIds) /\ Len(tasks) \in Nat /\ \A i \in 1..Len(tasks) : tasks[i] \in TaskIds
  BY ElementOfSeq DEF IInv, TypeOK, ChannelsOK
<1>3. ASSUME NEW q \in QueueIds
      PROVE  /\ session[q] \in Seq(TaskIds) /\ Len(session[q]) \in Nat
             /\ \A i \in 1..Len(session[q]) : session[q][i] \in TaskIds
  BY ElementOfSeq DEF IInv, TypeOK, DispatcherOK
<1> QED BY <1>1, <1>2, <1>3 DEF IInv, IdsInv

\* A step that moves no task: no task is submitted, taken, handed out or run.
Quiet ==
  /\ tasks' = tasks /\ session' = session /\ cur' = cur
  /\ next' = next /\ info' = info /\ status' = status
  /\ Handing' <=> Handing
  /\ \A w \in Workers : /\ Busy(w)' => Busy(w) /\ wtask'[w] = wtask[w]
                        /\ wpc'[w] = "run" => wpc[w] = "run" /\ wtask'[w] = wtask[w]

\* A worker gets the task of the dispatcher, from executeTask or when it starts.
HandsTo(w) ==
  /\ wpc' = [wpc EXCEPT ![w] = "run"]
  /\ wtask' = [wtask EXCEPT ![w] = cur]
  /\ status' = [status EXCEPT ![cur] = "running"]
  /\ session' = IF info[cur].queue # 0 /\ session[info[cur].queue] = <<>>
                THEN [session EXCEPT ![info[cur].queue] = <<cur>>]
                ELSE session
  /\ Handing /\ ~Handing' /\ ~Busy(w) /\ wpc[w] # "pushCb" /\ cur' = 0 /\ dpc' # "done"
  /\ tasks' = tasks /\ next' = next /\ info' = info
  /\ cbChannel' = cbChannel /\ called' = called /\ svc' = svc

\* The steps of the pool, by what they do with tasks.
LEMMA StepKinds ==
  ASSUME IInv, [Next]_vars
  PROVE  \/ \E c \in Calls : AsyncDoByQueue(c[1], c[2], c[3])
         \/ QueueEvent
         \/ InnerTask
         \/ \E w \in Workers : HandsTo(w)
         \/ \E w \in Workers, res \in Results : ExecTask(w, res)
         \/ Quiet
<1> USE DEF IInv, TypeOK, WorkersOK
<1>1. CASE DoCallback
  BY <1>1 DEF DoCallback, Quiet, Handing, Busy, dispVars, workVars
<1>2. CASE Close
  BY <1>2 DEF Close, Quiet, Handing, Busy, chanVars, dispVars, workVars, taskVars
<1>3. CASE DrainCallback
  BY <1>3 DEF DrainCallback, Quiet, Handing, Busy, dispVars, workVars
<1>4. CASE DrainReturn \/ CloseDone
  BY <1>4 DEF DrainReturn, CloseDone, Quiet, Handing, Busy, chanVars, dispVars, workVars, taskVars
<1>5. CASE OuterDefault \/ InnerCancel \/ ExecuteBlocks
  BY <1>5 DEF OuterDefault, InnerCancel, ExecuteBlocks, Quiet, Handing, Busy, chanVars, workVars, taskVars
<1>6. CASE InnerTimer
  BY <1>6 DEF InnerTimer, ProcessIdle, LoopEnd, Quiet, Handing, Busy, chanVars, workVars, taskVars
<1>7. CASE CancelIdle
  BY <1>7 DEF CancelIdle, ProcessIdle, LoopEnd, Quiet, Handing, Busy, chanVars, workVars, taskVars
<1>8. CASE DispatchExit
  BY <1>8 DEF DispatchExit, Quiet, Handing, Busy, workVars, taskVars
<1>9. ASSUME NEW w \in Workers, PushCallback(w) \/ PushQueueId(w) \/ Park(w) PROVE Quiet
  BY <1>9 DEF PushCallback, PushQueueId, Park, AfterCallback, Quiet, Handing, Busy, chanVars, dispVars, taskVars
<1>10. CASE WorkerReturn
  BY <1>10 DEF WorkerReturn, Quiet, Handing, Busy, chanVars, dispVars, taskVars
<1>11. CASE UNCHANGED vars
  BY <1>11 DEF vars, Quiet, Handing, Busy, chanVars, dispVars, workVars, taskVars
<1>12. ASSUME NEW w \in Workers, HandToWorker(w) \/ StartWorker(w) PROVE HandsTo(w)
  BY <1>12 DEF HandToWorker, StartWorker, Handed, LoopEnd, HandsTo, Handing, Busy, Parked, chanVars
<1> QED
  BY <1>1, <1>2, <1>3, <1>4, <1>5, <1>6, <1>7, <1>8, <1>9, <1>10, <1>11, <1>12
  DEF Next, ServiceStep, DispatchStep, WorkerStep

\* A step that moves no task keeps what is known of the tasks.
LEMMA QuietTasks == TaskInv /\ Quiet => TaskInv'
<1> SUFFICES ASSUME TaskInv, Quiet PROVE TaskInv'
  OBVIOUS
<1>1. \A t : Begun(t)' <=> Begun(t)
  BY DEF Quiet, Begun
<1>2. \A q : DispHolds(q)' <=> DispHolds(q)
  BY DEF Quiet, DispHolds
<1>3. ChannelInv'
  BY <1>1 DEF TaskInv, ChannelInv, Quiet
<1>4. SessionInv'
  BY <1>1, <1>2 DEF TaskInv, SessionInv, SessionOK, Quiet
<1>5. WorkerInv'
  BY <1>1 DEF TaskInv, WorkerInv, Quiet
<1>6. WaitsInv'
  BY DEF TaskInv, WaitsInv, Waits, Quiet
<1> QED BY <1>3, <1>4, <1>5, <1>6 DEF TaskInv

\* exec ends: a task that has begun has begun.
LEMMA ExecTasks ==
  ASSUME IInv, TaskInv, NEW w \in Workers, NEW res \in Results, ExecTask(w, res)
  PROVE  TaskInv'
<1> DEFINE t == wtask[w]
<1>1. t \in TaskIds /\ status[t] = "running" /\ Busy(w)
  BY DEF ExecTask, IInv, IdsInv, TaskInv, WorkerInv, Busy
<1>2. /\ status' = [status EXCEPT ![t] = res] /\ res \in {"true", "false", "panic"}
      /\ tasks' = tasks /\ session' = session /\ cur' = cur /\ dpc' = dpc
      /\ next' = next /\ info' = info /\ wtask' = wtask
  BY ResultsAssumption DEF ExecTask, chanVars, dispVars
<1>3. /\ \A u \in TaskIds : u # t => status'[u] = status[u]
      /\ status'[t] = res
  BY <1>1, <1>2 DEF IInv, TypeOK, TasksOK
<1>4. \A u \in TaskIds : Begun(u)' <=> Begun(u)
  BY <1>1, <1>2, <1>3 DEF Begun
<1>5. \A u \in TaskIds : (status'[u] = "queued" <=> status[u] = "queued")
                       /\ (status'[u] = "new" <=> status[u] = "new")
  BY <1>1, <1>2, <1>3
<1>6. /\ \A v \in Workers : v # w => wpc'[v] = wpc[v]
      /\ wpc'[w] \in {"pushCb", "pushQueue", "loop"}
  BY DEF ExecTask, AfterCallback, IInv, TypeOK, WorkersOK
<1>7. Handing' = Handing /\ \A q : DispHolds(q)' = DispHolds(q)
  BY <1>2 DEF Handing, DispHolds
<1> HIDE DEF t
<1>8. ChannelInv'
  BY <1>2, <1>4, <1>5, <1>7, ElementTypes DEF TaskInv, ChannelInv
<1>9. SessionInv'
  <2> SUFFICES ASSUME NEW q \in QueueIds PROVE SessionOK(q)'
    BY DEF SessionInv
  <2>1. SessionOK(q)
    BY DEF TaskInv, SessionInv
  <2>2. \A i \in 1..Len(session[q]) : session[q][i] \in TaskIds
    BY ElementTypes
  <2>3. session[q] # <<>> => 1 \in 1..Len(session[q])
    BY ElementTypes, EmptySeq
  <2>4. \A i \in 2..Len(session[q]) : i \in 1..Len(session[q])
    BY ElementTypes
  <2> QED BY <1>2, <1>4, <1>5, <1>7, <2>1, <2>2, <2>3, <2>4 DEF SessionOK
<1>10. WorkerInv'
  <2>1. \A v \in Workers : Busy(v)' => Busy(v) /\ wtask[v] \in TaskIds
    BY <1>1, <1>6 DEF Busy, IInv, IdsInv
  <2>2. \A v \in Workers : wpc'[v] = "run" => wpc[v] = "run" /\ v # w /\ Busy(v) /\ wtask[v] # t
    BY <1>1, <1>6 DEF TaskInv, WorkerInv, Busy, t
  <2> QED BY <1>2, <1>3, <1>4, <2>1, <2>2 DEF TaskInv, WorkerInv, IInv, IdsInv
<1>11. WaitsInv'
  BY <1>2, <1>5, <1>7 DEF TaskInv, WaitsInv, Waits
<1> QED BY <1>8, <1>9, <1>10, <1>11 DEF TaskInv

\* The dispatcher hands its task to a worker: the task begins.
LEMMA HandTasks ==
  ASSUME IInv, TaskInv, NEW w \in Workers, HandsTo(w)
  PROVE  TaskInv'
<1> DEFINE p == info[cur].queue
<1>1. /\ cur \in TaskIds /\ status[cur] = "queued" /\ Handing /\ ~Handing'
      /\ \A i \in 1..Len(tasks) : cur < tasks[i]
  BY DEF HandsTo, IInv, IdsInv, TaskInv, ChannelInv
<1>2. /\ \A u \in TaskIds : u # cur => status'[u] = status[u]
      /\ status'[cur] = "running"
  BY <1>1 DEF HandsTo, IInv, TypeOK, TasksOK
<1>3. \A u \in TaskIds : Begun(u)' <=> Begun(u) \/ u = cur
  BY <1>1, <1>2 DEF Begun
<1>4. ~Begun(cur)
  BY <1>1 DEF Begun
<1>5. p \in QueueIds \cup {0} /\ 0 \notin QueueIds
  BY <1>1, QueueIdsInt DEF IInv, TypeOK, TasksOK, TaskInfo
<1>6. ~\E q : DispHolds(q)'
  BY <1>1 DEF DispHolds
<1>7. /\ tasks' = tasks /\ next' = next /\ info' = info
      /\ session \in [QueueIds -> Seq(TaskIds)]
  BY DEF HandsTo, IInv, TypeOK, DispatcherOK
<1>8. \A q \in QueueIds : q # p \/ session[q] # <<>> => session'[q] = session[q]
  BY <1>7 DEF HandsTo
<1>9. ASSUME p \in QueueIds, session[p] = <<>>
      PROVE  session'[p] = <<cur>>
  BY <1>5, <1>7, <1>9 DEF HandsTo
<1>10. \A q \in QueueIds : DispHolds(q) <=> q = p
  BY <1>1 DEF DispHolds
<1> HIDE DEF p
<1>11. ChannelInv'
  <2>1. \A q \in QueueIds : \A j \in 1..Len(session'[q]) :
          (j \in 1..Len(session[q]) /\ session'[q][j] = session[q][j]) \/ session'[q][j] = cur
    <3> SUFFICES ASSUME NEW q \in QueueIds, NEW j \in 1..Len(session'[q])
                 PROVE  (j \in 1..Len(session[q]) /\ session'[q][j] = session[q][j]) \/ session'[q][j] = cur
      OBVIOUS
    <3>1. CASE q # p \/ session[q] # <<>>
      BY <1>8, <3>1
    <3>2. CASE q = p /\ session[q] = <<>>
      <4>1. session'[q] = <<cur>>
        BY <1>9, <3>2
      <4> QED BY <4>1
    <3> QED BY <3>1, <3>2
  <2>2. \A i \in 1..Len(tasks) : tasks[i] \in TaskIds /\ tasks[i] # cur
    BY <1>1, ElementTypes
  <2>3. \A t \in TaskIds : t >= next => status'[t] = "new"
    BY <1>1, <1>2 DEF TaskInv, ChannelInv
  <2>4. \A i \in 1..Len(tasks) : status'[tasks[i]] = "queued"
    BY <1>2, <2>2 DEF TaskInv, ChannelInv
  <2>5. \A i \in 1..Len(tasks) : \A t \in TaskIds : Begun(t)' => t < tasks[i]
    BY <1>1, <1>3 DEF TaskInv, ChannelInv
  <2>6. \A i \in 1..Len(tasks) : \A q \in QueueIds : \A j \in 1..Len(session'[q]) :
          session'[q][j] < tasks[i]
    <3> SUFFICES ASSUME NEW i \in 1..Len(tasks), NEW q \in QueueIds, NEW j \in 1..Len(session'[q])
                 PROVE  session'[q][j] < tasks[i]
      OBVIOUS
    <3> QED BY <1>1, <2>1 DEF TaskInv, ChannelInv
  <2> QED BY <1>1, <1>7, <2>3, <2>4, <2>5, <2>6 DEF TaskInv, ChannelInv
<1>12. SessionInv'
  <2> SUFFICES ASSUME NEW q \in QueueIds PROVE SessionOK(q)'
    BY DEF SessionInv
  <2>0. /\ \A i, j \in 1..Len(session[q]) : i < j => session[q][i] < session[q][j]
        /\ \A i \in 2..Len(session[q]) : status[session[q][i]] = "queued"
        /\ session[q] # <<>> => IF q = p THEN cur = session[q][1] ELSE Begun(session[q][1])
        /\ \A u \in TaskIds : Begun(u) /\ info[u].queue = q =>
             /\ \A i \in 1..Len(session[q]) : u <= session[q][i]
             /\ q = p => u < cur
    BY <1>10 DEF TaskInv, SessionInv, SessionOK
  <2>1. /\ session[q] \in Seq(TaskIds) /\ Len(session[q]) \in Nat
        /\ \A i \in 1..Len(session[q]) : session[q][i] \in TaskIds /\ info[session[q][i]].queue = q
        /\ TaskIds \subseteq Nat
    BY ElementTypes DEF IInv, IdsInv
  <2>2. CASE session[q] # <<>>
    <3>1. session'[q] = session[q] /\ 1 \in 1..Len(session[q])
      BY <1>8, <2>1, <2>2, EmptySeq
    <3>2. \A i \in 2..Len(session[q]) : session[q][i] # cur /\ i \in 1..Len(session[q])
      <4>1. CASE q = p
        <5> SUFFICES ASSUME NEW i \in 2..Len(session[q])
                     PROVE  session[q][i] # cur /\ i \in 1..Len(session[q])
          OBVIOUS
        <5>1. i \in 1..Len(session[q]) /\ 1 < i
          BY <2>1
        <5>2. cur = session[q][1] /\ session[q][1] < session[q][i]
          BY <2>0, <2>2, <3>1, <4>1, <5>1
        <5>3. cur \in Nat /\ session[q][i] \in Nat
          BY <1>1, <2>1, <5>1
        <5> QED BY <5>1, <5>2, <5>3
      <4>2. CASE q # p
        BY <2>1, <4>2 DEF p
      <4> QED BY <4>1, <4>2
    <3>3. \A i \in 2..Len(session[q]) : status'[session[q][i]] = "queued"
      BY <1>2, <2>0, <2>1, <3>2
    <3>4. Begun(session[q][1])'
      BY <1>3, <2>0, <2>1, <2>2, <3>1
    <3>5. \A u \in TaskIds : Begun(u)' /\ info[u].queue = q =>
             \A i \in 1..Len(session[q]) : u <= session[q][i]
      <4> SUFFICES ASSUME NEW u \in TaskIds, Begun(u)', info[u].queue = q, NEW i \in 1..Len(session[q])
                   PROVE  u <= session[q][i]
        OBVIOUS
      <4>1. CASE u # cur
        BY <1>3, <2>0, <4>1
      <4>2. CASE u = cur
        <5>1. cur = session[q][1]
          BY <2>0, <2>2, <4>2 DEF p
        <5>2. i = 1 \/ 1 < i
          BY <2>1
        <5>3. cur \in Nat /\ session[q][i] \in Nat
          BY <1>1, <2>1
        <5>4. CASE i = 1
          BY <4>2, <5>1, <5>3, <5>4
        <5>5. CASE 1 < i
          <6>1. session[q][1] < session[q][i]
            BY <2>0, <3>1, <5>5
          <6> QED BY <4>2, <5>1, <5>3, <6>1
        <5> QED BY <5>2, <5>4, <5>5
      <4> QED BY <4>1, <4>2
    <3> QED BY <1>6, <1>7, <2>0, <3>1, <3>3, <3>4, <3>5 DEF SessionOK
  <2>3. CASE session[q] = <<>> /\ q # p
    <3>1. session'[q] = <<>>
      BY <1>8, <2>3
    <3> QED BY <1>6, <3>1 DEF SessionOK
  <2>4. CASE session[q] = <<>> /\ q = p
    <3>1. session'[q] = <<cur>>
      BY <1>9, <2>4
    <3>2. Len(<<cur>>) = 1 /\ <<cur>>[1] = cur
      OBVIOUS
    <3>3. \A u \in TaskIds : Begun(u)' /\ info[u].queue = q => u <= cur
      BY <1>1, <1>3, <2>0, <2>1, <2>4
    <3> QED BY <1>1, <1>3, <1>6, <1>7, <3>1, <3>2, <3>3 DEF SessionOK
  <2> QED BY <2>2, <2>3, <2>4
<1>13. WorkerInv'
  <2>1. /\ \A v \in Workers : v # w => wpc'[v] = wpc[v] /\ wtask'[v] = wtask[v]
        /\ wpc'[w] = "run" /\ wtask'[w] = cur
    BY DEF HandsTo, IInv, TypeOK, WorkersOK
  <2>2. \A v \in Workers : v # w /\ Busy(v)' =>
          Busy(v) /\ wtask[v] \in TaskIds /\ Begun(wtask[v]) /\ wtask[v] # cur
    BY <1>4, <2>1 DEF Busy, IInv, IdsInv, TaskInv, WorkerInv
  <2>3. \A v \in Workers : Busy(v)' => Begun(wtask[v])'
    BY <1>1, <1>2, <2>1, <2>2 DEF Begun
  <2>4. \A v \in Workers : wpc'[v] = "run" => status'[wtask'[v]] = "running"
    BY <1>2, <2>1, <2>2 DEF TaskInv, WorkerInv, Busy
  <2>5. \A u, v \in Workers : Busy(u)' /\ Busy(v)' /\ wtask'[u] = wtask'[v] => u = v
    BY <2>1, <2>2 DEF TaskInv, WorkerInv
  <2> QED BY <2>3, <2>4, <2>5 DEF WorkerInv
<1>14. WaitsInv'
  <2> SUFFICES ASSUME NEW t \in TaskIds, status'[t] = "queued" PROVE Waits(t)'
    BY DEF WaitsInv
  <2>1. t # cur /\ status[t] = "queued"
    BY <1>2
  <2>2. Waits(t)
    BY <2>1 DEF TaskInv, WaitsInv
  <2>3. CASE \E i \in 1..Len(tasks) : tasks[i] = t
    BY <1>7, <2>3 DEF Waits
  <2>4. CASE \E q \in QueueIds : \E i \in 2..Len(session[q]) : session[q][i] = t
    <3>1. PICK q \in QueueIds : \E i \in 2..Len(session[q]) : session[q][i] = t
      BY <2>4
    <3>2. session[q] # <<>>
      BY <3>1
    <3> QED BY <1>8, <3>1, <3>2 DEF Waits
  <2> QED BY <2>1, <2>2, <2>3, <2>4 DEF Waits
<1> QED BY <1>11, <1>12, <1>13, <1>14 DEF TaskInv

\* processTask: the oldest task of the channel joins its session or goes to
\* executeTask.
LEMMA InnerTaskTasks ==
  ASSUME IInv, TaskInv, InnerTask
  PROVE  TaskInv'
<1> DEFINE t == Head(tasks)
           p == info[t].queue
<1>1. /\ t \in TaskIds /\ t = tasks[1] /\ Len(tasks) \in Nat /\ Len(tasks) > 0
      /\ tasks' = Tail(tasks) /\ Len(tasks') = Len(tasks) - 1
      /\ \A i \in 1..Len(tasks') : tasks'[i] = tasks[i + 1]
  BY TailFacts DEF InnerTask, IInv, TypeOK, ChannelsOK
<1>2. /\ next' = next /\ info' = info /\ status' = status /\ wpc' = wpc /\ wtask' = wtask
      /\ ~Handing
  BY DEF InnerTask, workVars, taskVars, Handing
<1>3. /\ \A u : Begun(u)' <=> Begun(u)
      /\ ~\E q : DispHolds(q)
  BY <1>2 DEF Begun, DispHolds
<1>4. /\ \A i \in 1..Len(tasks) : status[tasks[i]] = "queued" /\ tasks[i] \in TaskIds
      /\ TaskIds \subseteq Nat
  BY ElementTypes DEF TaskInv, ChannelInv
<1>5. \A i \in 1..Len(tasks') : i + 1 \in 1..Len(tasks) /\ 1 < i + 1 /\ 1 \in 1..Len(tasks)
  BY <1>1
<1>6. \A i \in 1..Len(tasks') : t < tasks'[i]
  BY <1>1, <1>5 DEF TaskInv, ChannelInv
<1>7. status[t] = "queued" /\ ~Begun(t)
  BY <1>1, <1>4 DEF Begun
<1>8. /\ \A u \in TaskIds : Begun(u) => u < t
      /\ \A q \in QueueIds : \A j \in 1..Len(session[q]) : session[q][j] < t
  BY <1>1 DEF TaskInv, ChannelInv
<1>9. p \in QueueIds \cup {0} /\ 0 \notin QueueIds /\ session \in [QueueIds -> Seq(TaskIds)]
  BY <1>1, QueueIdsInt DEF IInv, TypeOK, TasksOK, TaskInfo, DispatcherOK
<1>10. WorkerInv'
  BY <1>2, <1>3 DEF TaskInv, WorkerInv, Busy
<1>11. ASSUME NEW u \in TaskIds, status[u] = "queued"
       PROVE  \/ \E i \in 1..Len(tasks') : tasks'[i] = u
              \/ \E q \in QueueIds : \E i \in 2..Len(session[q]) : session[q][i] = u
              \/ u = t
  <2>1. Waits(u)
    BY <1>11 DEF TaskInv, WaitsInv
  <2>2. ASSUME NEW i \in 1..Len(tasks), tasks[i] = u
        PROVE  u = t \/ \E j \in 1..Len(tasks') : tasks'[j] = u
    <3>1. CASE i = 1
      BY <1>1, <2>2, <3>1
    <3>2. CASE i # 1
      <4>1. i - 1 \in 1..Len(tasks') /\ (i - 1) + 1 = i
        BY <1>1, <3>2
      <4> QED BY <1>1, <2>2, <4>1
    <3> QED BY <3>1, <3>2
  <2> QED BY <1>2, <2>1, <2>2 DEF Waits
<1>12. CASE MustWait(t)
  <2>1. /\ p \in QueueIds /\ session[p] # <<>> /\ ~Handing'
        /\ session' = [session EXCEPT ![p] = Append(@, t)]
    BY <1>9, <1>12 DEF InnerTask, MustWait, LoopEnd, Handing
  <2>2. /\ session[p] \in Seq(TaskIds) /\ Len(session[p]) \in Nat /\ Len(session[p]) > 0
        /\ session'[p] = Append(session[p], t)
        /\ Len(session'[p]) = Len(session[p]) + 1
        /\ \A i \in 1..Len(session[p]) : session'[p][i] = session[p][i]
        /\ session'[p][Len(session[p]) + 1] = t
        /\ \A q \in QueueIds : q # p => session'[q] = session[q]
    BY <1>1, <1>9, <2>1, AppendFacts, EmptySeq
  <2>3. ~\E q : DispHolds(q)'
    BY <2>1 DEF DispHolds
  <2>4. p = info[t].queue
    OBVIOUS
  <2> HIDE DEF t, p
  <2>5. \A i \in 1..Len(session'[p]) :
          IF i \in 1..Len(session[p]) THEN session'[p][i] = session[p][i]
                                      ELSE i = Len(session[p]) + 1 /\ session'[p][i] = t
    BY <2>2
  <2>6. ChannelInv'
    <3>1. \A q \in QueueIds : \A j \in 1..Len(session'[q]) :
            (j \in 1..Len(session[q]) /\ session'[q][j] = session[q][j]) \/ session'[q][j] = t
      BY <2>2, <2>5
    <3>2. \A i \in 1..Len(tasks') : \A q \in QueueIds : \A j \in 1..Len(session'[q]) :
            session'[q][j] < tasks'[i]
      BY <1>1, <1>5, <1>6, <3>1 DEF TaskInv, ChannelInv
    <3>3. \A i, j \in 1..Len(tasks') : i < j => tasks'[i] < tasks'[j]
      BY <1>1, <1>5 DEF TaskInv, ChannelInv
    <3>4. \A i \in 1..Len(tasks') : /\ status[tasks'[i]] = "queued"
                                    /\ \A u \in TaskIds : Begun(u) => u < tasks'[i]
      BY <1>1, <1>5 DEF TaskInv, ChannelInv
    <3> QED BY <1>2, <1>3, <2>1, <3>2, <3>3, <3>4 DEF TaskInv, ChannelInv
  <2>7. SessionInv'
    <3> SUFFICES ASSUME NEW q \in QueueIds PROVE SessionOK(q)'
      BY DEF SessionInv
    <3>1. SessionOK(q)
      BY DEF TaskInv, SessionInv
    <3>2. CASE q # p
      BY <1>2, <1>3, <2>2, <2>3, <3>1, <3>2 DEF SessionOK
    <3>3. CASE q = p
      <4>1. \A i, j \in 1..Len(session'[p]) : i < j => session'[p][i] < session'[p][j]
        BY <1>8, <2>1, <2>2, <2>5, <3>1, <3>3 DEF SessionOK
      <4>2. \A i \in 2..Len(session'[p]) : status[session'[p][i]] = "queued"
        <5> SUFFICES ASSUME NEW i \in 2..Len(session'[p]) PROVE status[session'[p][i]] = "queued"
          OBVIOUS
        <5>1. CASE i \in 1..Len(session[p])
          BY <2>2, <3>1, <3>3, <5>1 DEF SessionOK
        <5>2. CASE i \notin 1..Len(session[p])
          BY <1>7, <2>2, <2>5, <5>2
        <5> QED BY <5>1, <5>2
      <4>3. session'[p] # <<>> /\ session'[p][1] = session[p][1] /\ Begun(session[p][1])
        BY <1>3, <2>1, <2>2, <3>1, <3>3 DEF SessionOK
      <4>4. \A u \in TaskIds : Begun(u) /\ info[u].queue = p =>
              \A i \in 1..Len(session'[p]) : u <= session'[p][i]
        <5> SUFFICES ASSUME NEW u \in TaskIds, Begun(u), info[u].queue = p, NEW i \in 1..Len(session'[p])
                     PROVE  u <= session'[p][i]
          OBVIOUS
        <5>1. u < t /\ u \in Nat /\ t \in Nat
          BY <1>1, <1>4, <1>8
        <5> QED BY <2>5, <3>1, <3>3, <5>1 DEF SessionOK
      <4> QED BY <1>2, <1>3, <2>3, <3>3, <4>1, <4>2, <4>3, <4>4 DEF SessionOK
    <3> QED BY <3>2, <3>3
  <2>8. WaitsInv'
    <3> SUFFICES ASSUME NEW u \in TaskIds, status[u] = "queued" PROVE Waits(u)'
      BY <1>2 DEF WaitsInv
    <3>1. CASE \E i \in 1..Len(tasks') : tasks'[i] = u
      BY <3>1 DEF Waits
    <3>2. ASSUME NEW q \in QueueIds, NEW i \in 2..Len(session[q]), session[q][i] = u
          PROVE  Waits(u)'
      <4>1. CASE q # p
        BY <2>2, <3>2, <4>1 DEF Waits
      <4>2. CASE q = p
        <5>1. i \in 2..Len(session'[p]) /\ i \in 1..Len(session[p])
          BY <2>2, <3>2, <4>2
        <5>2. session'[p][i] = u
          BY <2>2, <3>2, <4>2, <5>1
        <5> QED BY <2>1, <5>1, <5>2 DEF Waits
      <4> QED BY <4>1, <4>2
    <3>3. CASE u = t
      <4>1. Len(session[p]) + 1 \in 2..Len(session'[p]) /\ session'[p][Len(session[p]) + 1] = u
        BY <2>2, <3>3
      <4> QED BY <2>1, <4>1 DEF Waits
    <3> QED BY <1>11, <3>1, <3>2, <3>3
  <2> QED BY <1>10, <2>6, <2>7, <2>8 DEF TaskInv
<1>13. CASE ~MustWait(t)
  <2>1. /\ session' = session /\ cur' = t /\ Handing'
        /\ p \in QueueIds => session[p] = <<>>
    BY <1>9, <1>13 DEF InnerTask, MustWait, Handing
  <2>2. \A q : DispHolds(q)' <=> q = p
    BY <1>2, <2>1 DEF DispHolds
  <2> HIDE DEF t, p
  <2>3. ChannelInv'
    <3>1. \A i \in 1..Len(tasks') : \A q \in QueueIds : \A j \in 1..Len(session[q]) :
            session[q][j] < tasks'[i]
      BY <1>1, <1>5 DEF TaskInv, ChannelInv
    <3>2. \A i, j \in 1..Len(tasks') : i < j => tasks'[i] < tasks'[j]
      BY <1>1, <1>5 DEF TaskInv, ChannelInv
    <3>3. \A i \in 1..Len(tasks') : /\ status[tasks'[i]] = "queued"
                                    /\ \A u \in TaskIds : Begun(u) => u < tasks'[i]
      BY <1>1, <1>5 DEF TaskInv, ChannelInv
    <3> QED BY <1>2, <1>3, <1>6, <1>7, <2>1, <3>1, <3>2, <3>3 DEF TaskInv, ChannelInv
  <2>4. SessionInv'
    <3> SUFFICES ASSUME NEW q \in QueueIds PROVE SessionOK(q)'
      BY DEF SessionInv
    <3>1. SessionOK(q)
      BY DEF TaskInv, SessionInv
    <3>2. CASE q # p
      BY <1>2, <1>3, <2>1, <2>2, <3>1, <3>2 DEF SessionOK
    <3>3. CASE q = p
      BY <1>2, <1>3, <1>8, <2>1, <2>2, <3>1, <3>3 DEF SessionOK
    <3> QED BY <3>2, <3>3
  <2>5. WaitsInv'
    BY <1>2, <1>11, <2>1 DEF WaitsInv, Waits
  <2> QED BY <1>10, <2>3, <2>4, <2>5 DEF TaskInv
<1> QED BY <1>12, <1>13

\* processQueueEvent: the front of a session has finished, the next one goes to
\* executeTask.
LEMMA QueueEventTasks ==
  ASSUME IInv, TaskInv, QueueEvent
  PROVE  TaskInv'
<1> DEFINE p == Head(queueIdChannel)
           z == session[p]
<1>1. p \in QueueIds /\ Finished(p)
  BY TailFacts DEF QueueEvent, IInv, TypeOK, ChannelsOK, Finished
<1>2. z \in Seq(TaskIds) /\ z # <<>>
  BY <1>1 DEF IInv, TokenInv, TypeOK, DispatcherOK
<1>3. /\ Len(z) \in Nat /\ Len(z) > 0 /\ Len(Tail(z)) = Len(z) - 1
      /\ \A i \in 1..Len(Tail(z)) : Tail(z)[i] = z[i + 1] /\ i + 1 \in 1..Len(z) /\ i + 1 \in 2..Len(z)
  BY <1>2, TailFacts
<1>4. /\ session'[p] = Tail(z)
      /\ \A q \in QueueIds : q # p => session'[q] = session[q]
  BY <1>1 DEF QueueEvent, ProcessQueueEvent, IInv, TypeOK, DispatcherOK
<1>5. /\ next' = next /\ info' = info /\ status' = status /\ wpc' = wpc /\ wtask' = wtask
      /\ tasks' = tasks /\ ~Handing
  BY DEF QueueEvent, workVars, taskVars, Handing
<1>6. /\ \A u : Begun(u)' <=> Begun(u)
      /\ ~\E q : DispHolds(q)
  BY <1>5 DEF Begun, DispHolds
<1>7. /\ \A i \in 1..Len(z) : z[i] \in TaskIds /\ info[z[i]].queue = p
      /\ TaskIds \subseteq Nat
  BY <1>1, ElementTypes DEF IInv, IdsInv
<1>8. /\ \A i, j \in 1..Len(z) : i < j => z[i] < z[j]
      /\ \A i \in 2..Len(z) : status[z[i]] = "queued"
      /\ Begun(z[1])
      /\ \A u \in TaskIds : Begun(u) /\ info[u].queue = p => \A i \in 1..Len(z) : u <= z[i]
  BY <1>1, <1>2, <1>6 DEF TaskInv, SessionInv, SessionOK
<1>9. IF Len(z) <= 1 THEN ~Handing' ELSE Handing' /\ cur' = z[2]
  BY DEF QueueEvent, ProcessQueueEvent, NextInSession, LoopEnd, Handing
<1>10. \A q : DispHolds(q)' <=> Len(z) > 1 /\ q = p
  <2>1. CASE Len(z) <= 1
    BY <1>3, <1>9, <2>1 DEF DispHolds
  <2>2. CASE Len(z) > 1
    <3>1. Handing' /\ cur' = z[2] /\ 2 \in 1..Len(z)
      BY <1>3, <1>9, <2>2
    <3> QED BY <1>5, <1>7, <2>2, <3>1 DEF DispHolds
  <2> QED BY <1>3, <2>1, <2>2
<1> HIDE DEF p, z
<1>z. z = session[p]
  BY DEF z
<1>11. ChannelInv'
  <2>1. \A q \in QueueIds : \A j \in 1..Len(session'[q]) : \E k \in 1..Len(session[q]) :
          session'[q][j] = session[q][k]
    <3> SUFFICES ASSUME NEW q \in QueueIds, NEW j \in 1..Len(session'[q])
                 PROVE  \E k \in 1..Len(session[q]) : session'[q][j] = session[q][k]
      OBVIOUS
    <3>1. CASE q # p
      BY <1>4, <3>1
    <3>2. CASE q = p
      <4>1. j \in 1..Len(Tail(z)) /\ session'[q] = Tail(z) /\ session[q] = z
        BY <1>4, <1>z, <3>2
      <4> QED BY <1>3, <4>1
    <3> QED BY <3>1, <3>2
  <2>2. \A i \in 1..Len(tasks) : \A q \in QueueIds : \A j \in 1..Len(session'[q]) :
          session'[q][j] < tasks[i]
    BY <2>1 DEF TaskInv, ChannelInv
  <2>3. Handing' => cur' = z[2] /\ 2 \in 2..Len(z) /\ 2 \in 1..Len(z)
    BY <1>3, <1>9
  <2>4. Handing' => status[cur'] = "queued" /\ \A i \in 1..Len(tasks) : cur' < tasks[i]
    BY <1>1, <1>8, <1>z, <2>3 DEF TaskInv, ChannelInv
  <2> QED BY <1>5, <1>6, <2>2, <2>4 DEF TaskInv, ChannelInv
<1>12. SessionInv'
  <2> SUFFICES ASSUME NEW q \in QueueIds PROVE SessionOK(q)'
    BY DEF SessionInv
  <2>1. CASE q # p
    BY <1>4, <1>5, <1>6, <1>10, <2>1 DEF SessionOK, TaskInv, SessionInv
  <2>2. CASE q = p
    <3>0. session'[q] = Tail(z)
      BY <1>4, <2>2
    <3>1. \A i, j \in 1..Len(Tail(z)) : i < j => Tail(z)[i] < Tail(z)[j]
      BY <1>3, <1>8
    <3>2. \A i \in 2..Len(Tail(z)) : status[Tail(z)[i]] = "queued"
      <4>1. \A i \in 2..Len(Tail(z)) : i \in 1..Len(Tail(z))
        BY <1>3
      <4> QED BY <1>3, <1>8, <4>1
    <3>3. Tail(z) # <<>> => Len(z) > 1
      BY <1>2, <1>3, EmptySeq, HeadTailProperties
    <3>4. Len(z) > 1 => cur' = z[2] /\ cur' = Tail(z)[1]
      BY <1>3, <1>9
    <3>5. ASSUME NEW u \in TaskIds, Begun(u), info[u].queue = q
          PROVE  /\ \A i \in 1..Len(Tail(z)) : u <= Tail(z)[i]
                 /\ Len(z) > 1 => u < cur'
      <4>1. \A i \in 1..Len(z) : u <= z[i]
        BY <1>8, <2>2, <3>5
      <4>2. Len(z) > 1 => 1 \in 1..Len(z) /\ 2 \in 1..Len(z) /\ z[1] < z[2]
        BY <1>3, <1>8
      <4>3. \A i \in 1..Len(Tail(z)) : u <= Tail(z)[i]
        BY <1>3, <4>1
      <4>4. ASSUME Len(z) > 1 PROVE u < cur'
        <5>1. u \in Nat /\ z[1] \in Nat /\ z[2] \in Nat /\ cur' = z[2] /\ u <= z[1] /\ z[1] < z[2]
          BY <1>7, <3>4, <4>1, <4>2, <4>4
        <5> QED BY <5>1
      <4> QED BY <4>3, <4>4
    <3> QED BY <1>5, <1>6, <1>10, <2>2, <3>0, <3>1, <3>2, <3>3, <3>4, <3>5 DEF SessionOK
  <2> QED BY <2>1, <2>2
<1>13. WorkerInv'
  BY <1>5, <1>6 DEF TaskInv, WorkerInv, Busy
<1>14. WaitsInv'
  <2> SUFFICES ASSUME NEW u \in TaskIds, status[u] = "queued" PROVE Waits(u)'
    BY <1>5 DEF WaitsInv
  <2>1. Waits(u)
    BY DEF TaskInv, WaitsInv
  <2>2. CASE \E i \in 1..Len(tasks) : tasks[i] = u
    BY <1>5, <2>2 DEF Waits
  <2>3. ASSUME NEW q \in QueueIds, NEW i \in 2..Len(session[q]), session[q][i] = u
        PROVE  Waits(u)'
    <3>1. CASE q # p
      BY <1>4, <2>3, <3>1 DEF Waits
    <3>2. CASE q = p /\ i = 2
      BY <1>3, <1>9, <1>z, <2>3, <3>2 DEF Waits
    <3>3. CASE q = p /\ i # 2
      <4>1. i - 1 \in 2..Len(Tail(z)) /\ i - 1 \in 1..Len(Tail(z)) /\ (i - 1) + 1 = i
        BY <1>3, <1>z, <2>3, <3>3
      <4>2. session'[p][i - 1] = u /\ i - 1 \in 2..Len(session'[p])
        BY <1>3, <1>4, <1>z, <2>3, <3>3, <4>1
      <4> QED BY <1>1, <4>2 DEF Waits
    <3> QED BY <3>1, <3>2, <3>3
  <2> QED BY <1>5, <2>1, <2>2, <2>3 DEF Waits
<1> QED BY <1>11, <1>12, <1>13, <1>14 DEF TaskInv

\* AsyncDoByQueue: the task submitted is the youngest.
LEMMA AsyncTasks ==
  ASSUME IInv, TaskInv, NEW c \in Calls, AsyncDoByQueue(c[1], c[2], c[3])
  PROVE  TaskInv'
<1>1. next \in TaskIds /\ next' = next + 1 /\ next \in Nat /\ TaskIds \subseteq Nat
  BY ElementTypes DEF AsyncDoByQueue
<1>2. /\ dpc' = dpc /\ cur' = cur /\ session' = session /\ wpc' = wpc /\ wtask' = wtask
  BY DEF AsyncDoByQueue, dispVars, workVars
<1>3. /\ \A t \in TaskIds : t # next => info'[t] = info[t] /\ status'[t] = status[t]
      /\ status'[next] \in {"cbOnly", "queued", "rejected"}
  BY <1>1 DEF AsyncDoByQueue, IInv, TypeOK, TasksOK
<1>4. \/ tasks' = tasks /\ status'[next] # "queued"
      \/ tasks' = Append(tasks, next) /\ status'[next] = "queued"
  BY <1>1 DEF AsyncDoByQueue, IInv, TypeOK, TasksOK
<1>5. \A t \in TaskIds : Begun(t)' <=> Begun(t)
  <2>1. status[next] = "new"
    BY <1>1 DEF TaskInv, ChannelInv
  <2> QED BY <1>3, <2>1 DEF Begun
<1>6. Handing' = Handing
  BY <1>2 DEF Handing
<1>7. Handing => cur \in TaskIds /\ cur # next /\ cur < next
  BY <1>1 DEF IInv, IdsInv
<1>8. \A q \in QueueIds : DispHolds(q)' = DispHolds(q)
  BY <1>2, <1>3, <1>6, <1>7 DEF DispHolds
<1>9. /\ \A i \in 1..Len(tasks) : tasks[i] \in TaskIds /\ tasks[i] < next /\ tasks[i] # next
      /\ Len(tasks) \in Nat
  BY <1>1, ElementTypes DEF IInv, IdsInv
<1>10. \A q \in QueueIds : \A i \in 1..Len(session[q]) :
         session[q][i] \in TaskIds /\ session[q][i] < next /\ session[q][i] # next
  BY <1>1, ElementTypes DEF IInv, IdsInv
<1>11. \A t \in TaskIds : Begun(t) => t < next /\ t # next
  <2>1. \A t \in TaskIds : (t < next /\ t # next) \/ t >= next
    BY <1>1
  <2>2. \A t \in TaskIds : t >= next => ~Begun(t)
    BY DEF TaskInv, ChannelInv, Begun
  <2> QED BY <2>1, <2>2
<1>12. /\ \A i \in 1..Len(tasks) : i \in 1..Len(tasks') /\ tasks'[i] = tasks[i]
       /\ \A i \in 1..Len(tasks') :
            i \notin 1..Len(tasks) => i = Len(tasks) + 1 /\ tasks'[i] = next /\ status'[next] = "queued"
       /\ Len(tasks') \in Nat
       /\ Len(tasks') <= Len(tasks) + 1
       /\ status'[next] = "queued" => \E i \in 1..Len(tasks') : tasks'[i] = next
  <2>1. CASE tasks' = tasks /\ status'[next] # "queued"
    <3>1. Len(tasks) <= Len(tasks) + 1
      BY <1>9
    <3> QED BY <1>9, <2>1, <3>1
  <2>2. CASE tasks' = Append(tasks, next) /\ status'[next] = "queued"
    <3>1. /\ Len(tasks') = Len(tasks) + 1
          /\ \A i \in 1..Len(tasks) : tasks'[i] = tasks[i]
          /\ tasks'[Len(tasks) + 1] = next
      BY <1>1, <2>2, ElementTypes, AppendFacts
    <3>2. /\ Len(tasks') \in Nat /\ Len(tasks') <= Len(tasks) + 1
          /\ Len(tasks) + 1 \in 1..Len(tasks')
          /\ \A i \in 1..Len(tasks) : i \in 1..Len(tasks')
          /\ \A i \in 1..Len(tasks') : i \notin 1..Len(tasks) => i = Len(tasks) + 1
      BY <1>9, <3>1
    <3> QED BY <2>2, <3>1, <3>2
  <2> QED BY <1>4, <2>1, <2>2
<1>13. ChannelInv'
  <2>1. \A t \in TaskIds : t >= next' => status'[t] = "new"
    <3>1. \A t \in TaskIds : t >= next + 1 => t >= next /\ t # next
      BY <1>1
    <3> QED BY <1>1, <1>3, <3>1 DEF TaskInv, ChannelInv
  <2>2. \A i, j \in 1..Len(tasks') : i < j => tasks'[i] < tasks'[j]
    <3> SUFFICES ASSUME NEW i \in 1..Len(tasks'), NEW j \in 1..Len(tasks'), i < j
                 PROVE  tasks'[i] < tasks'[j]
      OBVIOUS
    <3>1. i \in 1..Len(tasks)
      BY <1>9, <1>12
    <3>2. CASE j \in 1..Len(tasks)
      BY <1>12, <3>1, <3>2 DEF TaskInv, ChannelInv
    <3>3. CASE j \notin 1..Len(tasks)
      BY <1>9, <1>12, <3>1, <3>3
    <3> QED BY <3>2, <3>3
  <2>3. \A i \in 1..Len(tasks') : status'[tasks'[i]] = "queued"
    BY <1>3, <1>9, <1>12 DEF TaskInv, ChannelInv
  <2>4. \A i \in 1..Len(tasks') : \A t \in TaskIds : Begun(t)' => t < tasks'[i]
    BY <1>5, <1>11, <1>12 DEF TaskInv, ChannelInv
  <2>5. \A i \in 1..Len(tasks') : \A q \in QueueIds : \A j \in 1..Len(session[q]) :
          session[q][j] < tasks'[i]
    BY <1>10, <1>12 DEF TaskInv, ChannelInv
  <2>6. Handing => status'[cur] = "queued" /\ \A i \in 1..Len(tasks') : cur < tasks'[i]
    BY <1>3, <1>7, <1>12 DEF TaskInv, ChannelInv
  <2> QED BY <1>2, <1>6, <2>1, <2>2, <2>3, <2>4, <2>5, <2>6 DEF ChannelInv
<1>14. SessionInv'
  <2> SUFFICES ASSUME NEW q \in QueueIds PROVE SessionOK(q)'
    BY DEF SessionInv
  <2>1. SessionOK(q)
    BY DEF TaskInv, SessionInv
  <2>2. \A i \in 2..Len(session[q]) : i \in 1..Len(session[q])
    BY ElementTypes
  <2>3. session[q] # <<>> => 1 \in 1..Len(session[q])
    BY ElementTypes, EmptySeq
  <2>4. \A i \in 2..Len(session[q]) : status'[session[q][i]] = "queued"
    BY <1>3, <1>10, <2>1, <2>2 DEF SessionOK
  <2>5. \A u \in TaskIds : Begun(u)' => Begun(u) /\ info'[u] = info[u]
    BY <1>3, <1>5, <1>11
  <2> QED BY <1>2, <1>5, <1>8, <1>10, <2>1, <2>3, <2>4, <2>5 DEF SessionOK
<1>15. WorkerInv'
  <2>1. \A w \in Workers : Busy(w) => wtask[w] \in TaskIds /\ wtask[w] # next
    BY <1>1 DEF IInv, IdsInv
  <2>2. \A w \in Workers : Busy(w)' <=> Busy(w)
    BY <1>2 DEF Busy
  <2>3. \A w \in Workers : wpc[w] = "run" => Busy(w)
    BY DEF Busy
  <2> QED BY <1>2, <1>3, <1>5, <2>1, <2>2, <2>3 DEF TaskInv, WorkerInv
<1>16. WaitsInv'
  <2> SUFFICES ASSUME NEW u \in TaskIds, status'[u] = "queued" PROVE Waits(u)'
    BY DEF WaitsInv
  <2>1. CASE u = next
    BY <1>12, <2>1 DEF Waits
  <2>2. CASE u # next
    <3>1. Waits(u)
      BY <1>3, <2>2 DEF TaskInv, WaitsInv
    <3> QED BY <1>2, <1>6, <1>12, <3>1 DEF Waits
  <2> QED BY <2>1, <2>2
<1> QED BY <1>13, <1>14, <1>15, <1>16 DEF TaskInv

\* Where tasks are known to be holds in every reachable state.
LEMMA TaskInvHolds == Safety => [](IInv /\ TaskInv)
<1>1. Init => TaskInv
  <2> SUFFICES ASSUME Init PROVE TaskInv
    OBVIOUS
  <2>1. ChannelInv
    BY DEF Init, ChannelInv, Begun, Handing
  <2>2. SessionInv
    <3> SUFFICES ASSUME NEW q \in QueueIds PROVE SessionOK(q)
      BY DEF SessionInv
    <3>1. session[q] = <<>> /\ ~DispHolds(q)
      BY DEF Init, DispHolds, Handing
    <3> QED BY <3>1 DEF SessionOK
  <2>3. WorkerInv
    BY DEF Init, WorkerInv, Busy
  <2>4. WaitsInv
    BY DEF Init, WaitsInv
  <2> QED BY <2>1, <2>2, <2>3, <2>4 DEF TaskInv
<1>2. IInv /\ TaskInv /\ [Next]_vars => TaskInv'
  BY StepKinds, QuietTasks, ExecTasks, HandTasks, InnerTaskTasks, QueueEventTasks, AsyncTasks
<1> QED BY InitIInv, Inductive, <1>1, <1>2, PTL DEF Safety

\* Tasks of one queue begin in the order in which AsyncDoByQueue took them, for
\* every number of workers and whatever is taken, handed out and finished in
\* between, provided that queue ids are not negative.
THEOREM QueueTasksBeginInOrder ==
  NoNegativeQueue => (Safety => []SameQueueFIFO)
<1> SUFFICES ASSUME NoNegativeQueue PROVE Safety => []SameQueueFIFO
  OBVIOUS
<1>1. ASSUME IInv, TaskInv PROVE SameQueueFIFO
  <2> SUFFICES ASSUME NEW t \in TaskIds, NEW u \in TaskIds, t < u,
                      info[t].raw # 0, info[t].raw = info[u].raw,
                      status[t] = "queued", Begun(u)
               PROVE  FALSE
    BY DEF SameQueueFIFO, Begun
  <2> DEFINE q == info[t].queue
  <2>1. /\ info[t].raw \in RawQueueIds \cup {0}
        /\ info[t].queue = QueueOf(info[t].raw)
        /\ info[u].queue = QueueOf(info[u].raw)
    BY <1>1 DEF IInv, IdsInv, TypeOK, TasksOK, TaskInfo
  <2>2. q \in QueueIds /\ info[u].queue = q
    BY <2>1, NonNegativeFold
  <2> HIDE DEF q
  <2>3. t \in Nat /\ u \in Nat
    BY <1>1, ElementTypes
  <2>4. Waits(t)
    BY <1>1 DEF TaskInv, WaitsInv
  <2>5. CASE \E i \in 1..Len(tasks) : tasks[i] = t
    <3>1. u < t
      BY <1>1, <2>5 DEF TaskInv, ChannelInv
    <3> QED BY <2>3, <3>1
  <2>6. ASSUME NEW r \in QueueIds, NEW i \in 2..Len(session[r]), session[r][i] = t
        PROVE  FALSE
    <3>1. i \in 1..Len(session[r])
      BY <1>1, ElementTypes
    <3>2. r = q
      BY <1>1, <2>6, <3>1 DEF IInv, IdsInv, q
    <3>3. u <= t
      BY <1>1, <2>2, <2>6, <3>1, <3>2 DEF TaskInv, SessionInv, SessionOK
    <3> QED BY <2>3, <3>3
  <2>7. CASE Handing /\ cur = t
    <3>1. DispHolds(q)
      BY <2>7 DEF DispHolds, q
    <3>2. u < t
      BY <1>1, <2>2, <2>7, <3>1 DEF TaskInv, SessionInv, SessionOK
    <3> QED BY <2>3, <3>2
  <2> QED BY <2>4, <2>5, <2>6, <2>7 DEF Waits
<1>2. IInv /\ TaskInv => SameQueueFIFO
  BY <1>1
<1> QED BY TaskInvHolds, <1>2, PTL

-----------------------------------------------------------------------------
(* The callbacks. *)

\* What a step leaves alone when it moves no callback.
NoCallback ==
  /\ cbChannel' = cbChannel /\ called' = called /\ info' = info
  /\ \A t \in TaskIds : /\ Ran(t)' <=> Ran(t)
                        /\ status'[t] \in {"new", "queued", "running"}
                           => status[t] \in {"new", "queued", "running"}
  /\ \A w \in Workers : wpc'[w] = "pushCb" <=> wpc[w] = "pushCb"
  /\ \A w \in Workers : wpc[w] = "pushCb" => wtask'[w] = wtask[w]

\* A step that moves no callback keeps what is known of them.
LEMMA NoCallbackStep ==
  ASSUME IInv, CallbackInv, NoCallback
  PROVE  CallbackInv'
<1>1. \A t : (InChannel(t)' <=> InChannel(t)) /\ (Pushing(t)' <=> Pushing(t))
  BY DEF InChannel, Pushing, NoCallback
<1>2. \A w \in Workers : wpc[w] = "pushCb" => wtask[w] \in TaskIds
  BY DEF IInv, IdsInv, Busy
<1>3. \A w \in Workers : wpc'[w] = "pushCb" =>
         Ran(wtask[w])' /\ called'[wtask'[w]] = 0 /\ ~InChannel(wtask[w])'
  BY <1>1, <1>2 DEF CallbackInv, NoCallback, InChannel, Ran
<1> QED BY <1>1, <1>3 DEF CallbackInv, NoCallback

\* The service takes the first callback of the channel and runs it, unless it is
\* nil, wrapped or not.
TakesCallback ==
  /\ cbChannel # <<>> /\ cbChannel' = Tail(cbChannel)
  /\ \A t \in TaskIds : called'[t] = IF t = Head(cbChannel).id /\ Head(cbChannel).err # "panicNil"
                                     THEN called[t] + 1 ELSE called[t]
  /\ info' = info /\ status' = status /\ wpc' = wpc /\ wtask' = wtask
  /\ dpc' = dpc /\ exiting' = exiting
  /\ svc' \in {"waitDispatch", "closed"} => Head(cbChannel).id = 0
  /\ svc \in {"run", "drain"}

\* DoCallback, and the loop of close.
LEMMA TakeKinds ==
  ASSUME IInv, DoCallback \/ DrainCallback
  PROVE  TakesCallback
<1> DEFINE h == Head(cbChannel)
<1>1. cbChannel # <<>> /\ h \in CbItems /\ cbChannel' = Tail(cbChannel)
  BY TailFacts DEF DoCallback, DrainCallback, IInv, TypeOK, ChannelsOK
<1>2. called \in [TaskIds -> Nat] /\ 0 \notin TaskIds
  BY DEF IInv, TypeOK, TasksOK, TaskIds
<1>3. /\ info' = info /\ status' = status /\ wpc' = wpc /\ wtask' = wtask
      /\ dpc' = dpc /\ exiting' = exiting
  BY DEF DoCallback, DrainCallback, dispVars, workVars
<1>4. \/ called' = IF h.err = "panicNil" THEN called ELSE [called EXCEPT ![h.id] = @ + 1]
      \/ h = NilCb /\ called' = called
  <2>1. CASE DoCallback
    BY <2>1, Zenon DEF DoCallback, Called
  <2>2. CASE DrainCallback
    BY <2>2, Zenon DEF DrainCallback, Called
  <2> QED BY <2>1, <2>2
<1>5. svc' \in {"waitDispatch", "closed"} => h = NilCb
  <2>1. CASE DoCallback
    BY <2>1 DEF DoCallback
  <2>2. CASE DrainCallback /\ h # NilCb
    <3>1. svc' = IF h.err = "panicNil" THEN "crashed" ELSE "drainCb"
      BY <2>2, Zenon DEF DrainCallback
    <3> QED BY <3>1
  <2> QED BY <2>1, <2>2
<1>6. svc \in {"run", "drain"}
  BY DEF DoCallback, DrainCallback
<1> HIDE DEF h
<1>7. \A t \in TaskIds : called'[t] = IF t = h.id /\ h.err # "panicNil"
                                     THEN called[t] + 1 ELSE called[t]
  BY <1>2, <1>4 DEF NilCb
<1> QED BY <1>1, <1>3, <1>5, <1>6, <1>7 DEF TakesCallback, h, NilCb

\* The steps of the pool, by what they do with callbacks.
LEMMA CallbackKinds ==
  ASSUME IInv, TaskInv, [Next]_vars
  PROVE  \/ \E c \in Calls : AsyncDoByQueue(c[1], c[2], c[3])
         \/ \E w \in Workers, res \in Results : ExecTask(w, res)
         \/ \E w \in Workers : PushCallback(w)
         \/ TakesCallback
         \/ DispatchExit
         \/ NoCallback
<1> USE DEF IInv, TypeOK, WorkersOK
<1>1. CASE Close \/ DrainReturn \/ CloseDone \/ OuterDefault \/ InnerCancel \/ ExecuteBlocks
  BY <1>1 DEF Close, DrainReturn, CloseDone, OuterDefault, InnerCancel, ExecuteBlocks, NoCallback, Ran,
              chanVars, workVars, taskVars
<1>2. CASE QueueEvent \/ InnerTask
  BY <1>2 DEF QueueEvent, InnerTask, NoCallback, Ran, workVars, taskVars
<1>3. CASE InnerTimer
  BY <1>3 DEF InnerTimer, ProcessIdle, Parked, NoCallback, Ran, chanVars, workVars, taskVars
<1>4. CASE CancelIdle
  BY <1>4 DEF CancelIdle, ProcessIdle, Parked, NoCallback, Ran, chanVars, workVars, taskVars
<1>5. ASSUME NEW w \in Workers, PushQueueId(w) \/ Park(w) PROVE NoCallback
  BY <1>5 DEF PushQueueId, Park, NoCallback, Ran, chanVars, taskVars
<1>6. CASE WorkerReturn
  BY <1>6 DEF WorkerReturn, NoCallback, Ran, chanVars, taskVars
<1>7. CASE UNCHANGED vars
  BY <1>7 DEF vars, NoCallback, Ran, chanVars, workVars, taskVars
<1>8. ASSUME NEW w \in Workers, HandToWorker(w) \/ StartWorker(w) PROVE NoCallback
  <2>1. HandsTo(w)
    BY <1>8 DEF HandToWorker, StartWorker, Handed, LoopEnd, HandsTo, Handing, Busy, Parked, chanVars
  <2>2. cur \in TaskIds /\ status[cur] = "queued"
    BY <2>1 DEF HandsTo, IdsInv, TaskInv, ChannelInv
  <2>3. /\ \A t \in TaskIds : t # cur => status'[t] = status[t]
        /\ status'[cur] = "running"
    BY <2>1, <2>2 DEF HandsTo, TasksOK
  <2> QED BY <2>1, <2>2, <2>3 DEF HandsTo, NoCallback, Ran
<1> QED
  BY <1>1, <1>2, <1>3, <1>4, <1>5, <1>6, <1>7, <1>8, TakeKinds
  DEF Next, ServiceStep, DispatchStep, WorkerStep

\* The items of the channel, element by element.
LEMMA ChannelTypes ==
  ASSUME IInv
  PROVE  /\ cbChannel \in Seq(CbItems) /\ Len(cbChannel) \in Nat
         /\ \A i \in 1..Len(cbChannel) : cbChannel[i] \in CbItems /\ cbChannel[i].id \in TaskIds \cup {0}
         /\ 0 \notin TaskIds
         /\ called \in [TaskIds -> Nat]
<1>1. cbChannel \in Seq(CbItems) /\ Len(cbChannel) \in Nat
      /\ \A i \in 1..Len(cbChannel) : cbChannel[i] \in CbItems
  BY ElementOfSeq DEF IInv, TypeOK, ChannelsOK
<1> QED BY <1>1 DEF CbItems, IInv, TypeOK, TasksOK, TaskIds

\* A callback is taken: if it is owed it is run, for the only time.
LEMMA TakeStep ==
  ASSUME IInv, CallbackInv, TakesCallback
  PROVE  CallbackInv'
<1> DEFINE h == Head(cbChannel)
<1>1. /\ h = cbChannel[1] /\ Len(cbChannel) > 0 /\ Len(cbChannel) \in Nat
      /\ Len(cbChannel') = Len(cbChannel) - 1
      /\ \A i \in 1..Len(cbChannel') : cbChannel'[i] = cbChannel[i + 1]
  BY ChannelTypes, TailFacts DEF TakesCallback
<1>2. \A i \in 1..Len(cbChannel') : i + 1 \in 1..Len(cbChannel) /\ i + 1 # 1
  BY <1>1
<1>3. 1 \in 1..Len(cbChannel)
  BY <1>1
<1>4. \A t : InChannel(t)' => InChannel(t)
  BY <1>1, <1>2 DEF InChannel
<1>5. \A t : t # 0 /\ InChannel(t)' => t # h.id
  BY <1>1, <1>2, <1>3 DEF InChannel, CallbackInv
<1>6. ASSUME NEW t, InChannel(t) PROVE InChannel(t)' \/ t = h.id
  <2>1. PICK i \in 1..Len(cbChannel) : cbChannel[i].id = t
    BY <1>6 DEF InChannel
  <2>2. CASE i = 1
    BY <1>1, <2>1, <2>2
  <2>3. CASE i # 1
    <3>1. i - 1 \in 1..Len(cbChannel') /\ (i - 1) + 1 = i
      BY <1>1, <2>3
    <3>2. cbChannel'[i - 1] = cbChannel[i]
      BY <1>1, <3>1
    <3> QED BY <2>1, <3>1, <3>2 DEF InChannel
  <2> QED BY <2>2, <2>3
<1>7. \A t \in TaskIds : t # h.id => called'[t] = called[t]
  BY DEF TakesCallback
<1>8. \A t \in TaskIds : t = h.id => called[t] = 0 /\ InChannel(t)
  BY <1>1, <1>3 DEF CallbackInv, InChannel
<1>9. \A t \in TaskIds : t = h.id /\ info[t].cb => called'[t] = 1
  BY <1>1, <1>3, <1>8, ChannelTypes DEF CallbackInv, TakesCallback
<1>10. /\ info' = info /\ status' = status /\ wpc' = wpc /\ wtask' = wtask
  BY DEF TakesCallback
<1> HIDE DEF h
<1>11. /\ \A i \in 1..Len(cbChannel') : cbChannel'[i].id = 0 => cbChannel'[i] = NilCb
       /\ \A i \in 1..Len(cbChannel') : cbChannel'[i].id # 0 /\ cbChannel'[i].err = "panicNil"
            => ~info[cbChannel'[i].id].cb
  BY <1>1, <1>2 DEF CallbackInv
<1>12. \A i, j \in 1..Len(cbChannel') :
         cbChannel'[i].id = cbChannel'[j].id /\ cbChannel'[i].id # 0 => i = j
  <2> SUFFICES ASSUME NEW i \in 1..Len(cbChannel'), NEW j \in 1..Len(cbChannel'),
                      cbChannel'[i].id = cbChannel'[j].id, cbChannel'[i].id # 0
               PROVE  i = j
    OBVIOUS
  <2>1. i + 1 = j + 1
    BY <1>1, <1>2 DEF CallbackInv
  <2> QED BY <2>1
<1>13. \A t \in TaskIds : InChannel(t)' => called'[t] = 0
  BY <1>4, <1>5, <1>7, ChannelTypes DEF CallbackInv
<1>14. \A t \in TaskIds : status[t] \in {"new", "queued", "running"} => called'[t] = 0 /\ ~InChannel(t)'
  BY <1>4, <1>7, <1>8 DEF CallbackInv
<1>15. \A w \in Workers : wpc[w] = "pushCb" => wtask[w] \in TaskIds
  BY DEF IInv, IdsInv, Busy
<1>16. \A w \in Workers : \A t \in TaskIds : wpc[w] = "pushCb" /\ wtask[w] = t =>
         Ran(t) /\ called'[t] = 0 /\ ~InChannel(t)'
  <2> SUFFICES ASSUME NEW w \in Workers, NEW t \in TaskIds, wpc[w] = "pushCb", wtask[w] = t
               PROVE  Ran(t) /\ called'[t] = 0 /\ ~InChannel(t)'
    OBVIOUS
  <2>1. Ran(t) /\ called[t] = 0 /\ ~InChannel(t)
    BY DEF CallbackInv
  <2>2. t # h.id
    BY <1>8, <2>1
  <2> QED BY <1>4, <1>7, <2>1, <2>2
<1>17. \A t \in TaskIds : Ran(t) /\ info[t].cb => Pushing(t) \/ InChannel(t)' \/ called'[t] = 1
  <2> SUFFICES ASSUME NEW t \in TaskIds, Ran(t), info[t].cb, ~Pushing(t), ~InChannel(t)'
               PROVE  called'[t] = 1
    OBVIOUS
  <2>1. InChannel(t) \/ called[t] = 1
    BY DEF CallbackInv
  <2>2. CASE t = h.id
    BY <1>9, <2>2
  <2>3. CASE t # h.id
    BY <1>6, <1>7, <2>1, <2>3
  <2> QED BY <2>2, <2>3
<1>18. \A w \in Workers : wpc'[w] = "pushCb" =>
         Ran(wtask[w])' /\ called'[wtask'[w]] = 0 /\ ~InChannel(wtask[w])'
  BY <1>10, <1>15, <1>16 DEF Ran, InChannel
<1>19. \A t : (Ran(t)' <=> Ran(t)) /\ (Pushing(t)' <=> Pushing(t))
  BY <1>10 DEF Ran, Pushing
<1> QED BY <1>10, <1>11, <1>12, <1>13, <1>14, <1>17, <1>18, <1>19 DEF CallbackInv

\* An item is appended to the channel.
LEMMA AppendChannel ==
  ASSUME IInv, NEW e \in CbItems, cbChannel' = Append(cbChannel, e)
  PROVE  /\ Len(cbChannel') = Len(cbChannel) + 1
         /\ \A i \in 1..Len(cbChannel) : i \in 1..Len(cbChannel') /\ cbChannel'[i] = cbChannel[i]
         /\ \A i \in 1..Len(cbChannel') :
              i \in 1..Len(cbChannel) \/ (i = Len(cbChannel) + 1 /\ cbChannel'[i] = e)
         /\ Len(cbChannel) + 1 \in 1..Len(cbChannel') /\ cbChannel'[Len(cbChannel) + 1] = e
         /\ \A t : InChannel(t)' <=> InChannel(t) \/ t = e.id
<1>1. /\ Len(cbChannel) \in Nat /\ Len(cbChannel') = Len(cbChannel) + 1
      /\ \A i \in 1..Len(cbChannel) : cbChannel'[i] = cbChannel[i]
      /\ cbChannel'[Len(cbChannel) + 1] = e
  BY ChannelTypes, AppendFacts
<1>2. /\ \A i \in 1..Len(cbChannel) : i \in 1..Len(cbChannel')
      /\ \A i \in 1..Len(cbChannel') : i \in 1..Len(cbChannel) \/ i = Len(cbChannel) + 1
      /\ Len(cbChannel) + 1 \in 1..Len(cbChannel')
  BY <1>1
<1>3. \A t : InChannel(t)' <=> InChannel(t) \/ t = e.id
  BY <1>1, <1>2 DEF InChannel
<1>4. \A i \in 1..Len(cbChannel') :
        i \in 1..Len(cbChannel) \/ (i = Len(cbChannel) + 1 /\ cbChannel'[i] = e)
  <2> SUFFICES ASSUME NEW i \in 1..Len(cbChannel'), i \notin 1..Len(cbChannel)
               PROVE  i = Len(cbChannel) + 1 /\ cbChannel'[i] = e
    OBVIOUS
  <2>1. i = Len(cbChannel) + 1
    BY <1>2
  <2> QED BY <1>1, <2>1
<1>5. \A i \in 1..Len(cbChannel) : i \in 1..Len(cbChannel') /\ cbChannel'[i] = cbChannel[i]
  BY <1>1, <1>2
<1> QED BY <1>1, <1>2, <1>3, <1>4, <1>5, Zenon

\* The items stay in one place when a callback joins them that was in none.
LEMMA ChannelPart ==
  ASSUME IInv, CallbackInv, NEW e \in CbItems, cbChannel' = Append(cbChannel, e),
         \A i \in 1..Len(cbChannel) :
           cbChannel[i].id # 0 => info'[cbChannel[i].id] = info[cbChannel[i].id],
         e.id # 0 => info'[e.id].cb = info[e.id].cb \/ e.err # "panicNil",
         e.id = 0 => e = NilCb, e.id # 0 => ~InChannel(e.id),
         e.id # 0 /\ e.err = "panicNil" => ~info[e.id].cb
  PROVE  /\ \A i \in 1..Len(cbChannel') : cbChannel'[i].id = 0 => cbChannel'[i] = NilCb
         /\ \A i, j \in 1..Len(cbChannel') :
              cbChannel'[i].id = cbChannel'[j].id /\ cbChannel'[i].id # 0 => i = j
         /\ \A i \in 1..Len(cbChannel') : cbChannel'[i].id # 0 /\ cbChannel'[i].err = "panicNil"
              => ~info'[cbChannel'[i].id].cb
<1>1. /\ \A i \in 1..Len(cbChannel) : cbChannel'[i] = cbChannel[i]
      /\ \A i \in 1..Len(cbChannel') :
           i \in 1..Len(cbChannel) \/ (i = Len(cbChannel) + 1 /\ cbChannel'[i] = e)
  BY AppendChannel
<1>2. \A i \in 1..Len(cbChannel) : e.id # 0 => cbChannel[i].id # e.id
  BY DEF InChannel
<1>3. \A i, j \in 1..Len(cbChannel') :
        cbChannel'[i].id = cbChannel'[j].id /\ cbChannel'[i].id # 0 => i = j
  BY <1>1, <1>2 DEF CallbackInv
<1>4. \A i \in 1..Len(cbChannel') : cbChannel'[i].id # 0 /\ cbChannel'[i].err = "panicNil"
        => ~info'[cbChannel'[i].id].cb
  BY <1>1 DEF CallbackInv
<1> QED BY <1>1, <1>3, <1>4 DEF CallbackInv

\* endCallFun pushes the callback of the task that ran.
LEMMA PushStep ==
  ASSUME IInv, TaskInv, CallbackInv, NEW w \in Workers, PushCallback(w)
  PROVE  CallbackInv'
<1> DEFINE t == wtask[w]
           e == [id |-> t, err |-> IF status[t] = "true" THEN "nil"
                                   ELSE IF info[t].cb THEN "panic" ELSE "panicNil"]
<1>1. /\ t \in TaskIds /\ Ran(t) /\ called[t] = 0 /\ ~InChannel(t) /\ Busy(w)
  BY DEF PushCallback, IInv, IdsInv, Busy, CallbackInv
<1>2. /\ cbChannel' = Append(cbChannel, e) /\ e \in CbItems /\ e.id = t /\ t # 0
      /\ e.err = "panicNil" => ~info[t].cb
  BY <1>1, ChannelTypes DEF PushCallback, CbItems, CbErrors
<1>3. /\ info' = info /\ status' = status /\ called' = called /\ wtask' = wtask
      /\ \A v \in Workers : v # w => wpc'[v] = wpc[v]
      /\ wpc'[w] # "pushCb"
  BY DEF PushCallback, taskVars, AfterCallback, IInv, TypeOK, WorkersOK
<1> HIDE DEF e
<1>4. \A u : InChannel(u)' <=> InChannel(u) \/ u = t
  BY <1>2, AppendChannel
<1>5. \A v \in Workers : v # w /\ wpc[v] = "pushCb" => wtask[v] # t /\ Busy(v)
  BY <1>1 DEF TaskInv, WorkerInv, Busy
<1> HIDE DEF t
<1>6. \A v \in Workers : wpc'[v] = "pushCb" =>
         Ran(wtask[v])' /\ called'[wtask'[v]] = 0 /\ ~InChannel(wtask[v])'
  <2> SUFFICES ASSUME NEW v \in Workers, wpc'[v] = "pushCb"
               PROVE  Ran(wtask[v])' /\ called'[wtask'[v]] = 0 /\ ~InChannel(wtask[v])'
    OBVIOUS
  <2>1. v # w /\ wpc[v] = "pushCb" /\ wtask[v] # t
    BY <1>3, <1>5
  <2>2. Ran(wtask[v]) /\ called[wtask[v]] = 0 /\ ~InChannel(wtask[v])
    BY <2>1 DEF CallbackInv
  <2>3. ~InChannel(wtask[v])'
    <3>1. ASSUME NEW u, u = wtask[v] PROVE ~InChannel(u)'
      BY <1>4, <2>1, <2>2, <3>1
    <3> QED BY <1>3, <3>1 DEF InChannel
  <2> QED BY <1>3, <2>2, <2>3 DEF Ran
<1>7. \A u \in TaskIds : Ran(u) /\ info[u].cb => Pushing(u)' \/ InChannel(u)' \/ called[u] = 1
  <2> SUFFICES ASSUME NEW u \in TaskIds, Ran(u), info[u].cb, ~InChannel(u)', called[u] # 1
               PROVE  Pushing(u)'
    OBVIOUS
  <2>1. u # t /\ Pushing(u)
    BY <1>4 DEF CallbackInv
  <2> QED BY <1>3, <2>1 DEF Pushing, t
<1>8. \A u \in TaskIds :
        /\ InChannel(u)' => called[u] = 0
        /\ status[u] \in {"new", "queued", "running"} => called[u] = 0 /\ ~InChannel(u)'
  BY <1>1, <1>4 DEF CallbackInv, Ran
<1>9. \A u : Ran(u)' <=> Ran(u)
  BY <1>3 DEF Ran
<1>10. /\ \A i \in 1..Len(cbChannel') : cbChannel'[i].id = 0 => cbChannel'[i] = NilCb
       /\ \A i, j \in 1..Len(cbChannel') :
            cbChannel'[i].id = cbChannel'[j].id /\ cbChannel'[i].id # 0 => i = j
       /\ \A i \in 1..Len(cbChannel') : cbChannel'[i].id # 0 /\ cbChannel'[i].err = "panicNil"
            => ~info'[cbChannel'[i].id].cb
  <2>1. /\ e.id = 0 => e = NilCb
        /\ e.id # 0 => ~InChannel(e.id)
        /\ e.id # 0 /\ e.err = "panicNil" => ~info[e.id].cb
    BY <1>1, <1>2
  <2> QED BY <1>2, <1>3, <2>1, ChannelPart
<1>11. \A u \in TaskIds :
         /\ InChannel(u)' => called'[u] = 0
         /\ status'[u] \in {"new", "queued", "running"} => called'[u] = 0 /\ ~InChannel(u)'
         /\ Ran(u)' /\ info'[u].cb => Pushing(u)' \/ InChannel(u)' \/ called'[u] = 1
  BY <1>3, <1>7, <1>8, <1>9
<1> QED BY <1>6, <1>10, <1>11 DEF CallbackInv

\* The function of a task ends: its callback is now owed, and with the worker.
LEMMA ExecStep ==
  ASSUME IInv, TaskInv, CallbackInv, NEW w \in Workers, NEW res \in Results, ExecTask(w, res)
  PROVE  CallbackInv'
<1> DEFINE t == wtask[w]
<1>1. t \in TaskIds /\ status[t] = "running" /\ Busy(w) /\ called[t] = 0 /\ ~InChannel(t)
  BY DEF ExecTask, IInv, IdsInv, TaskInv, WorkerInv, Busy, CallbackInv
<1>2. /\ cbChannel' = cbChannel /\ called' = called /\ info' = info /\ wtask' = wtask
      /\ \A u \in TaskIds : u # t => status'[u] = status[u]
      /\ status'[t] = res /\ res \in {"true", "false", "panic"}
  BY <1>1, ResultsAssumption DEF ExecTask, chanVars, IInv, TypeOK, TasksOK
<1>3. /\ \A v \in Workers : v # w => wpc'[v] = wpc[v]
      /\ wpc'[w] = "pushCb" => res \in {"true", "panic"}
      /\ res \in {"true", "panic"} /\ info[t].cb => wpc'[w] = "pushCb"
  <2>1. wpc' = [wpc EXCEPT ![w] = IF OwesCallback(t, res) THEN "pushCb" ELSE AfterCallback(t)]
    BY DEF ExecTask
  <2> QED BY <2>1 DEF OwesCallback, AfterCallback, IInv, TypeOK, WorkersOK
<1>4. \A u : InChannel(u)' <=> InChannel(u)
  BY <1>2 DEF InChannel
<1>5. \A v \in Workers : v # w /\ wpc[v] = "pushCb" => wtask[v] # t /\ wtask[v] \in TaskIds
  BY <1>1 DEF TaskInv, WorkerInv, Busy, IInv, IdsInv
<1> HIDE DEF t
<1>6. \A v \in Workers : wpc'[v] = "pushCb" =>
         Ran(wtask[v])' /\ called'[wtask'[v]] = 0 /\ ~InChannel(wtask[v])'
  <2> SUFFICES ASSUME NEW v \in Workers, wpc'[v] = "pushCb"
               PROVE  Ran(wtask[v])' /\ called'[wtask'[v]] = 0 /\ ~InChannel(wtask[v])'
    OBVIOUS
  <2>1. CASE v = w
    BY <1>1, <1>2, <1>3, <2>1 DEF Ran, InChannel, t
  <2>2. CASE v # w
    BY <1>2, <1>3, <1>5, <2>2 DEF CallbackInv, Ran, InChannel
  <2> QED BY <2>1, <2>2
<1>7. \A u \in TaskIds : Ran(u)' /\ info[u].cb => Pushing(u)' \/ InChannel(u) \/ called[u] = 1
  <2> SUFFICES ASSUME NEW u \in TaskIds, Ran(u)', info[u].cb, ~InChannel(u), called[u] # 1
               PROVE  Pushing(u)'
    OBVIOUS
  <2>1. CASE u = t
    BY <1>2, <1>3, <2>1 DEF Pushing, Ran, t
  <2>2. CASE u # t
    <3>1. Pushing(u)
      BY <1>2, <2>2 DEF CallbackInv, Ran
    <3> QED BY <1>2, <1>3, <2>2, <3>1 DEF Pushing, t
  <2> QED BY <2>1, <2>2
<1>8. \A u \in TaskIds : status'[u] \in {"new", "queued", "running"} => called[u] = 0 /\ ~InChannel(u)
  BY <1>2 DEF CallbackInv
<1> QED BY <1>2, <1>4, <1>6, <1>7, <1>8 DEF CallbackInv

\* The dispatcher returns: only the nil joins the channel.
LEMMA ExitStep ==
  ASSUME IInv, CallbackInv, DispatchExit
  PROVE  CallbackInv'
<1>1. /\ cbChannel' = Append(cbChannel, NilCb) /\ NilCb \in CbItems /\ NilCb.id = 0
      /\ info' = info /\ status' = status /\ called' = called /\ wtask' = wtask /\ wpc' = wpc
  BY DEF DispatchExit, NilCb, CbItems, CbErrors, workVars, taskVars
<1>2. \A t \in TaskIds : InChannel(t)' <=> InChannel(t)
  BY <1>1, AppendChannel, ChannelTypes
<1>3. \A t : (Ran(t)' <=> Ran(t)) /\ (Pushing(t)' <=> Pushing(t))
  BY <1>1 DEF Ran, Pushing
<1>4. \A w \in Workers : wpc'[w] = "pushCb" =>
         Ran(wtask[w])' /\ called'[wtask'[w]] = 0 /\ ~InChannel(wtask[w])'
  <2> SUFFICES ASSUME NEW w \in Workers, wpc[w] = "pushCb"
               PROVE  Ran(wtask[w])' /\ called'[wtask'[w]] = 0 /\ ~InChannel(wtask[w])'
    BY <1>1
  <2>1. /\ wtask[w] \in TaskIds /\ Ran(wtask[w]) /\ called[wtask[w]] = 0 /\ ~InChannel(wtask[w])
    BY DEF CallbackInv, IInv, IdsInv, Busy
  <2>2. ASSUME NEW u \in TaskIds, u = wtask[w] PROVE ~InChannel(u)'
    BY <1>2, <2>1, <2>2
  <2> QED BY <1>1, <2>1, <2>2 DEF Ran, InChannel
<1>5. /\ \A i \in 1..Len(cbChannel') : cbChannel'[i].id = 0 => cbChannel'[i] = NilCb
      /\ \A i, j \in 1..Len(cbChannel') :
           cbChannel'[i].id = cbChannel'[j].id /\ cbChannel'[i].id # 0 => i = j
      /\ \A i \in 1..Len(cbChannel') : cbChannel'[i].id # 0 /\ cbChannel'[i].err = "panicNil"
           => ~info'[cbChannel'[i].id].cb
  BY <1>1, ChannelPart
<1> QED BY <1>1, <1>2, <1>3, <1>4, <1>5 DEF CallbackInv

\* AsyncDoByQueue puts at most the callback of the task that is submitted into
\* the channel.
LEMMA AsyncStep ==
  ASSUME IInv, TaskInv, CallbackInv, NEW c \in Calls, AsyncDoByQueue(c[1], c[2], c[3])
  PROVE  CallbackInv'
<1>1. next \in TaskIds /\ next # 0 /\ status[next] = "new"
  BY ElementTypes, ChannelTypes DEF AsyncDoByQueue, TaskInv, ChannelInv
<1>2. /\ wpc' = wpc /\ wtask' = wtask /\ called' = called
      /\ \A t \in TaskIds : t # next => info'[t] = info[t] /\ status'[t] = status[t]
      /\ status'[next] \in {"cbOnly", "queued", "rejected"}
  BY <1>1 DEF AsyncDoByQueue, workVars, IInv, TypeOK, TasksOK
<1>3. called[next] = 0 /\ ~InChannel(next)
  BY <1>1 DEF CallbackInv
<1>4. \/ cbChannel' = cbChannel
      \/ \E err \in {"nil", "full"} : /\ cbChannel' = Append(cbChannel, [id |-> next, err |-> err])
                                      /\ status'[next] # "queued"
  BY <1>1, <1>2 DEF AsyncDoByQueue, PushFromService, IInv, TypeOK, TasksOK
<1>5. \A i \in 1..Len(cbChannel) :
        cbChannel[i].id # 0 => cbChannel[i].id # next /\ info'[cbChannel[i].id] = info[cbChannel[i].id]
  BY <1>2, <1>3, ChannelTypes DEF InChannel
<1>6. /\ \A i \in 1..Len(cbChannel') : cbChannel'[i].id = 0 => cbChannel'[i] = NilCb
      /\ \A i, j \in 1..Len(cbChannel') :
           cbChannel'[i].id = cbChannel'[j].id /\ cbChannel'[i].id # 0 => i = j
      /\ \A i \in 1..Len(cbChannel') : cbChannel'[i].id # 0 /\ cbChannel'[i].err = "panicNil"
           => ~info'[cbChannel'[i].id].cb
      /\ \A t : InChannel(t)' => InChannel(t) \/ (t = next /\ status'[next] # "queued")
      /\ \A t : InChannel(t) => InChannel(t)'
  <2>1. CASE cbChannel' = cbChannel
    BY <1>5, <2>1 DEF CallbackInv, InChannel
  <2>2. ASSUME NEW err \in {"nil", "full"}, cbChannel' = Append(cbChannel, [id |-> next, err |-> err]),
               status'[next] # "queued"
        PROVE  <1>6!:
    <3> DEFINE e == [id |-> next, err |-> err]
    <3>1. e \in CbItems /\ e.id = next /\ e.err # "panicNil" /\ cbChannel' = Append(cbChannel, e)
      BY <1>1, <2>2 DEF CbItems, CbErrors
    <3> HIDE DEF e
    <3>2. \A t : InChannel(t)' <=> InChannel(t) \/ t = next
      BY <3>1, AppendChannel
    <3>3. /\ \A i \in 1..Len(cbChannel') : cbChannel'[i].id = 0 => cbChannel'[i] = NilCb
          /\ \A i, j \in 1..Len(cbChannel') :
               cbChannel'[i].id = cbChannel'[j].id /\ cbChannel'[i].id # 0 => i = j
          /\ \A i \in 1..Len(cbChannel') : cbChannel'[i].id # 0 /\ cbChannel'[i].err = "panicNil"
               => ~info'[cbChannel'[i].id].cb
      BY <1>1, <1>3, <1>5, <3>1, ChannelPart
    <3> QED BY <2>2, <3>2, <3>3
  <2> QED BY <1>4, <2>1, <2>2
<1>7. \A t \in TaskIds :
        /\ InChannel(t)' => called'[t] = 0
        /\ status'[t] \in {"new", "queued", "running"} => called'[t] = 0 /\ ~InChannel(t)'
  BY <1>2, <1>3, <1>6 DEF CallbackInv
<1>8. \A w \in Workers : wpc'[w] = "pushCb" =>
         Ran(wtask[w])' /\ called'[wtask'[w]] = 0 /\ ~InChannel(wtask[w])'
  <2> SUFFICES ASSUME NEW w \in Workers, wpc[w] = "pushCb"
               PROVE  Ran(wtask[w])' /\ called'[wtask'[w]] = 0 /\ ~InChannel(wtask[w])'
    BY <1>2
  <2>1. /\ wtask[w] \in TaskIds /\ Ran(wtask[w]) /\ called[wtask[w]] = 0 /\ ~InChannel(wtask[w])
    BY DEF CallbackInv, IInv, IdsInv, Busy
  <2>2. wtask[w] # next
    BY <1>1, <2>1 DEF Ran
  <2>3. ASSUME NEW u \in TaskIds, u = wtask[w] PROVE ~InChannel(u)'
    BY <1>6, <2>1, <2>2, <2>3
  <2> QED BY <1>2, <2>1, <2>2, <2>3 DEF Ran, InChannel
<1>9. \A t \in TaskIds : Ran(t)' /\ info'[t].cb => Pushing(t)' \/ InChannel(t)' \/ called'[t] = 1
  <2> SUFFICES ASSUME NEW t \in TaskIds, Ran(t)', info'[t].cb
               PROVE  Pushing(t)' \/ InChannel(t)' \/ called'[t] = 1
    OBVIOUS
  <2>1. t # next /\ Ran(t) /\ info[t].cb
    BY <1>2 DEF Ran
  <2>2. Pushing(t) \/ InChannel(t) \/ called[t] = 1
    BY <2>1 DEF CallbackInv
  <2>3. Pushing(t) => Pushing(t)'
    BY <1>2 DEF Pushing
  <2> QED BY <1>2, <1>6, <2>2, <2>3
<1> QED BY <1>6, <1>7, <1>8, <1>9 DEF CallbackInv

\* Callbacks are in one place in every step.
LEMMA CallbackStep ==
  ASSUME IInv, TaskInv, CallbackInv, [Next]_vars
  PROVE  CallbackInv'
  BY CallbackKinds, NoCallbackStep, TakeStep, PushStep, ExecStep, ExitStep, AsyncStep

-----------------------------------------------------------------------------
(* The end of close. *)

\* What a step does to the end of the pool: the dispatcher stays where it is
\* once it has returned, then no worker is left that could act, and the service
\* leaves the loop of close only by taking a callback.
LEMMA EndKinds ==
  ASSUME IInv, NilInv, [Next]_vars, ~DispatchExit
  PROVE  /\ dpc' = "done" <=> dpc = "done"
         /\ dpc = "done" => (Live = {} /\ exiting = 0)'
         /\ svc' \in {"waitDispatch", "closed"} =>
              svc \in {"waitDispatch", "closed"} \/ DrainCallback
<1> USE DEF IInv, TypeOK, WorkersOK, NilInv, Live
<1>1. ASSUME NEW c \in Calls, AsyncDoByQueue(c[1], c[2], c[3])
      PROVE  /\ dpc' = dpc /\ wpc' = wpc /\ exiting' = exiting
             /\ svc' \notin {"waitDispatch", "closed"}
  BY <1>1 DEF AsyncDoByQueue, PushFromService, dispVars, workVars
<1>2. CASE DoCallback \/ Close \/ DrainCallback \/ DrainReturn \/ CloseDone
  BY <1>2 DEF DoCallback, Close, DrainCallback, DrainReturn, CloseDone, dispVars, workVars
<1>3. CASE QueueEvent \/ InnerTask \/ OuterDefault \/ InnerCancel \/ ExecuteBlocks
  BY <1>3 DEF QueueEvent, ProcessQueueEvent, InnerTask, OuterDefault, InnerCancel, ExecuteBlocks, LoopEnd
<1>4. CASE InnerTimer \/ CancelIdle
  BY <1>4 DEF InnerTimer, CancelIdle, LoopEnd
<1>5. ASSUME NEW w \in Workers, HandToWorker(w) \/ StartWorker(w)
      PROVE  dpc # "done" /\ dpc' # "done" /\ svc' = svc
  BY <1>5 DEF HandToWorker, StartWorker, Handed, LoopEnd
<1>6. ASSUME NEW w \in Workers,
             PushCallback(w) \/ PushQueueId(w) \/ Park(w) \/ \E res \in Results : ExecTask(w, res)
      PROVE  w \in Live /\ dpc' = dpc /\ svc' = svc
  BY <1>6 DEF PushCallback, PushQueueId, Park, ExecTask, dispVars
<1>7. CASE WorkerReturn
  BY <1>7 DEF WorkerReturn, dispVars
<1>8. CASE UNCHANGED vars
  BY <1>8 DEF vars, dispVars, workVars
<1> QED
  BY <1>1, <1>2, <1>3, <1>4, <1>5, <1>6, <1>7, <1>8
  DEF Next, ServiceStep, DispatchStep, WorkerStep

\* A task whose callback is in the channel keeps what it returned.
KeepsRan == \A t \in TaskIds : InChannel(t) => (Ran(t)' <=> Ran(t))

\* A callback joins the channel; not one that a worker owes once all have left.
ChannelGrows ==
  \E e \in CbItems :
    /\ cbChannel' = Append(cbChannel, e) /\ e.id # 0
    /\ dpc = "done" => ~Ran(e.id)'
    /\ svc' \notin {"waitDispatch", "closed"}

\* The channel stays the same, or its first item leaves it, or one joins it.
LEMMA ChannelKinds ==
  ASSUME IInv, TaskInv, CallbackInv, NilInv, [Next]_vars
  PROVE  \/ cbChannel' = cbChannel /\ KeepsRan /\ (svc' \in {"waitDispatch", "closed"} => svc' = svc \/ CloseDone)
         \/ TakesCallback
         \/ DispatchExit
         \/ ChannelGrows /\ KeepsRan
<1>1. ASSUME NEW c \in Calls, AsyncDoByQueue(c[1], c[2], c[3])
      PROVE  KeepsRan /\ svc' \notin {"waitDispatch", "closed"} /\ (cbChannel' = cbChannel \/ ChannelGrows)
  <2>1. next \in TaskIds /\ next # 0 /\ ~InChannel(next)
    <3>1. next \in TaskIds /\ next # 0 /\ status[next] = "new"
      BY <1>1, ElementTypes, ChannelTypes DEF AsyncDoByQueue, TaskInv, ChannelInv
    <3> QED BY <3>1 DEF CallbackInv
  <2>2. /\ \A t \in TaskIds : t # next => status'[t] = status[t]
        /\ status'[next] \in {"cbOnly", "queued", "rejected"}
    BY <1>1, <2>1 DEF AsyncDoByQueue, IInv, TypeOK, TasksOK
  <2>3. svc' \notin {"waitDispatch", "closed"}
    BY <1>1 DEF AsyncDoByQueue, PushFromService
  <2>4. \/ cbChannel' = cbChannel
        \/ \E err \in {"nil", "full"} : cbChannel' = Append(cbChannel, [id |-> next, err |-> err])
    BY <1>1 DEF AsyncDoByQueue, PushFromService
  <2>5. ASSUME NEW err \in {"nil", "full"}, cbChannel' = Append(cbChannel, [id |-> next, err |-> err])
        PROVE  ChannelGrows
    <3> DEFINE e == [id |-> next, err |-> err]
    <3>1. e \in CbItems /\ e.id = next /\ cbChannel' = Append(cbChannel, e)
      BY <2>1, <2>5 DEF CbItems, CbErrors
    <3> HIDE DEF e
    <3>2. status'[e.id] \notin {"true", "panic"}
      BY <2>2, <3>1
    <3> QED BY <2>1, <2>3, <3>1, <3>2 DEF ChannelGrows, Ran
  <2> QED BY <2>1, <2>2, <2>3, <2>4, <2>5 DEF KeepsRan, Ran
<1>2. ASSUME NEW w \in Workers, PushCallback(w) PROVE KeepsRan /\ ChannelGrows
  <2> DEFINE t == wtask[w]
             e == [id |-> t, err |-> IF status[t] = "true" THEN "nil"
                                     ELSE IF info[t].cb THEN "panic" ELSE "panicNil"]
  <2>1. t \in TaskIds /\ t # 0 /\ w \in Live
    BY <1>2, ChannelTypes DEF PushCallback, IInv, IdsInv, Busy, Live
  <2>2. e \in CbItems /\ e.id = t /\ cbChannel' = Append(cbChannel, e)
    BY <1>2, <2>1 DEF CbItems, CbErrors, PushCallback
  <2> HIDE DEF e
  <2>3. status' = status /\ svc' = svc /\ dpc # "done" /\ svc \notin {"waitDispatch", "closed"}
    BY <1>2, <2>1 DEF PushCallback, taskVars, NilInv
  <2> QED BY <2>1, <2>2, <2>3 DEF ChannelGrows, KeepsRan, Ran
<1>3. ASSUME NEW w \in Workers, NEW res \in Results, ExecTask(w, res)
      PROVE  cbChannel' = cbChannel /\ KeepsRan /\ svc' = svc
  <2>1. wtask[w] \in TaskIds /\ ~InChannel(wtask[w])
    BY <1>3 DEF ExecTask, IInv, IdsInv, TaskInv, WorkerInv, Busy, CallbackInv
  <2>2. \A t \in TaskIds : t # wtask[w] => status'[t] = status[t]
    BY <1>3, <2>1 DEF ExecTask, IInv, TypeOK, TasksOK
  <2>3. \A t \in TaskIds : InChannel(t) => t # wtask[w]
    BY <2>1
  <2> QED BY <1>3, <2>2, <2>3 DEF ExecTask, chanVars, KeepsRan, Ran
<1>4. ASSUME NEW w \in Workers, HandToWorker(w) \/ StartWorker(w)
      PROVE  cbChannel' = cbChannel /\ KeepsRan /\ svc' = svc
  <2>1. HandsTo(w)
    BY <1>4 DEF HandToWorker, StartWorker, Handed, LoopEnd, HandsTo, Handing, Busy, Parked, chanVars,
                IInv, TypeOK, WorkersOK
  <2>2. cur \in TaskIds /\ ~InChannel(cur)
    BY <2>1 DEF HandsTo, IInv, IdsInv, TaskInv, ChannelInv, CallbackInv
  <2>3. \A t \in TaskIds : t # cur => status'[t] = status[t]
    BY <2>1, <2>2 DEF HandsTo, IInv, TypeOK, TasksOK
  <2>4. \A t \in TaskIds : InChannel(t) => t # cur
    BY <2>2
  <2> QED BY <2>1, <2>3, <2>4 DEF HandsTo, KeepsRan, Ran
<1>5. CASE Close \/ DrainReturn \/ CloseDone \/ OuterDefault \/ InnerCancel \/ ExecuteBlocks
           \/ QueueEvent \/ InnerTask \/ InnerTimer \/ CancelIdle \/ WorkerReturn
  BY <1>5 DEF Close, DrainReturn, CloseDone, OuterDefault, InnerCancel, ExecuteBlocks,
              QueueEvent, InnerTask, InnerTimer, CancelIdle, WorkerReturn, KeepsRan, Ran, chanVars, taskVars
<1>6. ASSUME NEW w \in Workers, PushQueueId(w) \/ Park(w)
      PROVE  cbChannel' = cbChannel /\ KeepsRan /\ svc' = svc
  BY <1>6 DEF PushQueueId, Park, KeepsRan, Ran, chanVars, taskVars
<1>7. CASE UNCHANGED vars
  BY <1>7 DEF vars, chanVars, taskVars, KeepsRan, Ran
<1> QED
  BY <1>1, <1>2, <1>3, <1>4, <1>5, <1>6, <1>7, TakeKinds
  DEF Next, ServiceStep, DispatchStep, WorkerStep

\* The nil stays behind what the workers pushed.
LEMMA NilStep ==
  ASSUME IInv, TaskInv, CallbackInv, NilInv, [Next]_vars
  PROVE  NilInv'
<1>0. \A i \in 1..Len(cbChannel) : cbChannel[i].id # 0 =>
        cbChannel[i].id \in TaskIds /\ InChannel(cbChannel[i].id)
  BY ChannelTypes DEF InChannel
<1>1. CASE cbChannel' = cbChannel /\ KeepsRan /\ ~DispatchExit
           /\ (svc' \in {"waitDispatch", "closed"} => svc' = svc \/ CloseDone)
  <2>1. \A i \in 1..Len(cbChannel) : cbChannel[i].id # 0 =>
          (status'[cbChannel[i].id] \in {"true", "panic"} <=> status[cbChannel[i].id] \in {"true", "panic"})
    BY <1>0, <1>1 DEF KeepsRan, Ran
  <2>2. svc' \in {"waitDispatch", "closed"} => svc \in {"waitDispatch", "closed"}
    BY <1>1 DEF CloseDone
  <2> QED BY <1>1, <2>1, <2>2, EndKinds DEF NilInv, Ran
<1>2. CASE TakesCallback /\ ~DispatchExit
  <2>1. /\ Len(cbChannel) > 0 /\ Len(cbChannel) \in Nat /\ Head(cbChannel) = cbChannel[1]
        /\ Len(cbChannel') = Len(cbChannel) - 1
        /\ \A i \in 1..Len(cbChannel') : cbChannel'[i] = cbChannel[i + 1]
    BY <1>2, ChannelTypes, TailFacts DEF TakesCallback
  <2>2. /\ \A i \in 1..Len(cbChannel') : i + 1 \in 1..Len(cbChannel) /\ 1 < i + 1
        /\ 1 \in 1..Len(cbChannel)
        /\ \A i, j \in 1..Len(cbChannel') : i < j => i + 1 < j + 1
    BY <2>1
  <2>3. status' = status /\ dpc' = dpc
    BY <1>2 DEF TakesCallback
  <2>4. /\ \A i \in 1..Len(cbChannel') : cbChannel'[i].id = 0 => dpc' = "done"
        /\ \A i, j \in 1..Len(cbChannel') :
             cbChannel'[i].id = 0 /\ i < j /\ cbChannel'[j].id # 0 => status'[cbChannel'[j].id] \notin {"true", "panic"}
    BY <2>1, <2>2, <2>3 DEF NilInv, Ran
  <2>5. ASSUME svc' \in {"waitDispatch", "closed"}
        PROVE  /\ dpc' = "done"
               /\ \A i \in 1..Len(cbChannel') :
                    cbChannel'[i].id # 0 => status'[cbChannel'[i].id] \notin {"true", "panic"}
    <3>1. cbChannel[1].id = 0
      BY <1>2, <2>1, <2>5 DEF TakesCallback
    <3> QED BY <2>1, <2>2, <2>3, <3>1 DEF NilInv, Ran
  <2> QED BY <1>2, <2>3, <2>4, <2>5, EndKinds DEF NilInv, Ran
<1>3. CASE DispatchExit
  <2>1. /\ cbChannel' = Append(cbChannel, NilCb) /\ NilCb \in CbItems /\ NilCb.id = 0
        /\ status' = status /\ dpc' = "done" /\ wpc' = wpc /\ exiting' = exiting /\ svc' = svc
        /\ dpc # "done" /\ Live = {} /\ exiting = 0
    BY <1>3 DEF DispatchExit, WorkersReturned, NilCb, CbItems, CbErrors, workVars, taskVars
  <2>2. /\ \A i \in 1..Len(cbChannel) : cbChannel'[i] = cbChannel[i] /\ cbChannel[i].id # 0
        /\ \A i \in 1..Len(cbChannel') :
             i \in 1..Len(cbChannel) \/ (i = Len(cbChannel) + 1 /\ cbChannel'[i] = NilCb)
    BY <2>1, AppendChannel DEF NilInv
  <2>3. svc \notin {"waitDispatch", "closed"}
    BY <2>1 DEF NilInv
  <2>4. \A i, j \in 1..Len(cbChannel') : cbChannel'[i].id = 0 /\ i < j => cbChannel'[j].id = 0
    BY <2>1, <2>2
  <2>5. (Live = {} /\ exiting = 0)'
    BY <2>1 DEF Live
  <2> QED BY <2>1, <2>3, <2>4, <2>5 DEF NilInv
<1>4. CASE ChannelGrows /\ KeepsRan /\ ~DispatchExit
  <2>1. PICK e \in CbItems : /\ cbChannel' = Append(cbChannel, e) /\ e.id # 0
                             /\ dpc = "done" => status'[e.id] \notin {"true", "panic"}
                             /\ svc' \notin {"waitDispatch", "closed"}
    BY <1>4 DEF ChannelGrows, Ran
  <2>2. /\ \A i \in 1..Len(cbChannel) : cbChannel'[i] = cbChannel[i]
        /\ \A i \in 1..Len(cbChannel') :
             i \in 1..Len(cbChannel) \/ (i = Len(cbChannel) + 1 /\ cbChannel'[i] = e)
    BY <2>1, AppendChannel
  <2>3. \A i \in 1..Len(cbChannel) : cbChannel[i].id # 0 =>
          (status'[cbChannel[i].id] \in {"true", "panic"} <=> status[cbChannel[i].id] \in {"true", "panic"})
    BY <1>0, <1>4 DEF KeepsRan, Ran
  <2>4. \A i \in 1..Len(cbChannel') : cbChannel'[i].id = 0 => i \in 1..Len(cbChannel) /\ dpc = "done"
    BY <2>1, <2>2 DEF NilInv
  <2>5. \A i, j \in 1..Len(cbChannel') :
          cbChannel'[i].id = 0 /\ i < j /\ cbChannel'[j].id # 0 => status'[cbChannel'[j].id] \notin {"true", "panic"}
    BY <2>1, <2>2, <2>3, <2>4 DEF NilInv, Ran
  <2> QED BY <1>4, <2>1, <2>4, <2>5, EndKinds DEF NilInv, Ran
<1> QED BY <1>1, <1>2, <1>3, <1>4, ChannelKinds

\* What is known of tasks and callbacks holds in every reachable state.
LEMMA CloseInvHolds == Safety => [](IInv /\ TaskInv /\ CallbackInv /\ NilInv)
<1>1. Init => CallbackInv /\ NilInv
  <2> SUFFICES ASSUME Init PROVE CallbackInv /\ NilInv
    OBVIOUS
  <2>1. \A t : ~InChannel(t) /\ (t \in TaskIds => ~Ran(t))
    BY DEF Init, InChannel, Ran
  <2>2. CallbackInv
    BY <2>1 DEF Init, CallbackInv
  <2>3. NilInv
    BY DEF Init, NilInv
  <2> QED BY <2>2, <2>3
<1>2. IInv /\ TaskInv /\ CallbackInv /\ NilInv /\ [Next]_vars => CallbackInv' /\ NilInv'
  BY CallbackStep, NilStep
<1> QED BY TaskInvHolds, <1>1, <1>2, PTL DEF Safety

\* When close has returned, no goroutine of the pool is left and every callback
\* that a worker owed has run exactly once, for every capacity of the channels
\* and every number of workers: the workers have returned before the nil is
\* sent, so that nothing they push can come behind it.
THEOREM CloseRunsEveryCallback == Safety => []CloseIsComplete
<1>1. ASSUME IInv, TaskInv, CallbackInv, NilInv PROVE CloseIsComplete
  <2> SUFFICES ASSUME svc = "closed"
               PROVE  /\ Live = {} /\ exiting = 0 /\ dpc = "done"
                      /\ \A t \in TaskIds :
                           status[t] \in {"true", "panic"} /\ info[t].cb => called[t] = 1
    BY DEF CloseIsComplete
  <2>1. Live = {} /\ exiting = 0 /\ dpc = "done"
    BY <1>1 DEF NilInv
  <2>2. ASSUME NEW t \in TaskIds, Ran(t), info[t].cb PROVE called[t] = 1
    <3>1. ~Pushing(t)
      BY <2>1 DEF Live, Pushing
    <3>2. ~InChannel(t)
      BY <1>1, <2>2, ChannelTypes DEF NilInv, InChannel
    <3> QED BY <1>1, <2>2, <3>1, <3>2 DEF CallbackInv
  <2> QED BY <2>1, <2>2 DEF Ran
<1>2. IInv /\ TaskInv /\ CallbackInv /\ NilInv => CloseIsComplete
  BY <1>1
<1> QED BY CloseInvHolds, <1>2, PTL
=============================================================================
