----------------------------- MODULE Concurrent -----------------------------
(***************************************************************************)
(* The coroutine pool of a service: package concurrent.                    *)
(*                                                                         *)
(* Three kinds of goroutines run it.  The service goroutine submits tasks  *)
(* (AsyncDoByQueue), runs the callbacks it receives from cbChannel, and    *)
(* finally closes the pool.  The dispatcher (dispatch.run) moves tasks to  *)
(* the workers over the unbuffered workerQueue, starts workers on demand,  *)
(* keeps one FIFO session per queue id, and asks idle workers to leave.    *)
(* A worker executes a task, pushes its callback to cbChannel and the      *)
(* queue id of the task to queueIdChannel.                                 *)
(*                                                                         *)
(* Tasks are identified by the order of their submission, 1..MaxTasks.     *)
(* The three buffered channels have the same capacity, Cap.                *)
(***************************************************************************)
EXTENDS Integers, Sequences, FiniteSets

CONSTANTS
  Workers,               \* identities of worker goroutines
  MinConcurrentNum,      \* workers the pool keeps when it is idle
  MaxConcurrentNum,      \* workers the pool may start
  Cap,                   \* maxTaskChannelNum: capacity of every channel
  MaxTaskQueueSessionId, \* 10000 in the code
  Calls,                 \* calls made: <<queue id, has fn?, has cb?>>
  Results,               \* what functions do: return "true", "false", "panic"
  MaxTasks               \* bound on the number of calls of AsyncDoByQueue

ASSUME WorkersAssumption == Workers # {} /\ IsFiniteSet(Workers)
ASSUME LimitsAssumption ==
  /\ MinConcurrentNum \in Nat
  /\ MaxConcurrentNum \in Nat \ {0}
  /\ Cap \in Nat \ {0}
  /\ MaxTaskQueueSessionId \in Nat \ {0}
  /\ MaxTasks \in Nat
ASSUME CallsAssumption == Calls \subseteq Int \X BOOLEAN \X BOOLEAN
ASSUME ResultsAssumption == Results \subseteq {"true", "false", "panic"}

VARIABLES
  tasks,          \* chan task: ids submitted and not yet taken
  queueIdChannel, \* chan int64: queue ids whose front task has finished
  cbChannel,      \* chan func(error): callbacks for the service goroutine
  session,        \* mapTaskQueueSession: queue id -> ids, the front one running
  dpc,            \* where the dispatcher is
  cur,            \* the task executeTask is handing to a worker
  idleIdx,        \* loop index of the cancel branch
  timer,          \* is the dispatcher's time.Timer armed?
  idle,           \* nothing was dispatched since the timer fired
  workerNum,      \* workers the dispatcher counts
  minNum,         \* minConcurrentNum; -1 once close was called
  wpc,            \* where each worker is
  wtask,          \* the task each worker holds
  exiting,        \* workers that took the exit task and have not returned
  svc,            \* where the service goroutine is
  next,           \* id of the next task submitted
  info,           \* the arguments each task was submitted with
  status,         \* what became of each task
  called          \* how often each callback ran

chanVars == <<tasks, queueIdChannel, cbChannel>>
dispVars == <<session, dpc, cur, idleIdx, timer, idle, workerNum>>
workVars == <<wpc, wtask, exiting>>
taskVars == <<next, info, status, called>>
vars == <<chanVars, dispVars, workVars, svc, minNum, taskVars>>

TaskIds == 1..MaxTasks

\* Go's remainder truncates towards zero.
GoRem(a, b) == IF a >= 0 THEN a % b ELSE -((-a) % b)

\* AsyncDoByQueue folds a non-zero queue id into the session ids.
QueueOf(raw) == IF raw = 0 THEN 0 ELSE GoRem(raw, MaxTaskQueueSessionId) + 1

RawQueueIds == {c[1] : c \in Calls}

QueueIds == {QueueOf(raw) : raw \in RawQueueIds} \ {0}

\* What travels through cbChannel: the callback of task id, called with err.
\* "panicNil" wraps the nil callback of a task whose function panicked.
CbErrors == {"nil", "full", "panic", "panicNil", "close"}
NilCb == [id |-> 0, err |-> "close"]

NoInfo == [raw |-> 0, queue |-> 0, cb |-> FALSE]

\* A process that crashed takes no further step.
Up == svc # "crashed"

Live == {w \in Workers : wpc[w] # "none"}
Parked == {w \in Workers : wpc[w] = "recv"}

Init ==
  /\ tasks = <<>> /\ queueIdChannel = <<>> /\ cbChannel = <<>>
  /\ session = [q \in QueueIds |-> <<>>]
  /\ dpc = "outer" /\ cur = 0 /\ idleIdx = 0
  /\ timer = TRUE /\ idle = FALSE
  /\ workerNum = 0 /\ minNum = MinConcurrentNum
  /\ wpc = [w \in Workers |-> "none"] /\ wtask = [w \in Workers |-> 0]
  /\ exiting = 0
  /\ svc = "run"
  /\ next = 1
  /\ info = [t \in TaskIds |-> NoInfo]
  /\ status = [t \in TaskIds |-> "new"]
  /\ called = [t \in TaskIds |-> 0]

-----------------------------------------------------------------------------
(* The service goroutine *)

\* A blocking send to cbChannel by the goroutine that alone receives from it:
\* when the channel is full nobody will ever make room.
PushFromService(item) ==
  IF Len(cbChannel) < Cap
  THEN cbChannel' = Append(cbChannel, item) /\ UNCHANGED svc
  ELSE svc' = "blocked" /\ UNCHANGED cbChannel

\* AsyncDoByQueue with fn and cb present or nil (AsyncDo passes queue id 0).
\* With both nil it only logs.
AsyncDoByQueue(raw, hasFn, hasCb) ==
  /\ svc \in {"run", "drainCb"}
  /\ next \in TaskIds
  /\ hasFn \/ hasCb
  /\ next' = next + 1
  /\ info' = [info EXCEPT ![next] =
                [raw |-> raw, queue |-> QueueOf(raw), cb |-> hasCb]]
  /\ \/ /\ ~hasFn
        /\ status' = [status EXCEPT ![next] = "cbOnly"]
        /\ PushFromService([id |-> next, err |-> "nil"])
        /\ UNCHANGED tasks
     \/ /\ hasFn /\ Len(tasks) < Cap
        /\ status' = [status EXCEPT ![next] = "queued"]
        /\ tasks' = Append(tasks, next)
        /\ UNCHANGED <<cbChannel, svc>>
     \/ /\ hasFn /\ Len(tasks) = Cap
        /\ status' = [status EXCEPT ![next] = "rejected"]
        /\ IF hasCb THEN PushFromService([id |-> next, err |-> "full"])
                    ELSE UNCHANGED <<cbChannel, svc>>
        /\ UNCHANGED tasks
  /\ UNCHANGED <<queueIdChannel, dispVars, workVars, minNum, called>>

\* Calling the function that travels in cbChannel.
Called(item) ==
  IF item.err = "panicNil" THEN called
  ELSE [called EXCEPT ![item.id] = @ + 1]

\* service.run receives a callback; DoCallback recovers from its panic.
DoCallback ==
  /\ svc = "run"
  /\ cbChannel # <<>>
  /\ cbChannel' = Tail(cbChannel)
  /\ called' = Called(Head(cbChannel))
  /\ UNCHANGED <<tasks, queueIdChannel, dispVars, workVars, svc, minNum,
                 next, info, status>>

\* service.run takes closeSig and calls Close: no minimum, cancel the context.
Close ==
  /\ svc = "run"
  /\ svc' = "drain"
  /\ minNum' = -1
  /\ UNCHANGED <<chanVars, dispVars, workVars, taskVars>>

\* The loop of close: every callback is run until the nil arrives.  Nothing
\* recovers here, so calling a wrapped nil callback takes the process down.
DrainCallback ==
  /\ svc = "drain"
  /\ cbChannel # <<>>
  /\ cbChannel' = Tail(cbChannel)
  /\ svc' = CASE Head(cbChannel) = NilCb -> "waitDispatch"
              [] Head(cbChannel).err = "panicNil" -> "crashed"
              [] OTHER -> "drainCb"
  /\ called' = IF Head(cbChannel) = NilCb THEN called
               ELSE Called(Head(cbChannel))
  /\ UNCHANGED <<tasks, queueIdChannel, dispVars, workVars, minNum,
                 next, info, status>>

\* The callback returns to the loop of close.
DrainReturn ==
  /\ svc = "drainCb"
  /\ svc' = "drain"
  /\ UNCHANGED <<chanVars, dispVars, workVars, minNum, taskVars>>

\* waitDispatch.Wait() at the end of close.
CloseDone ==
  /\ svc = "waitDispatch"
  /\ dpc = "done"
  /\ svc' = "closed"
  /\ UNCHANGED <<chanVars, dispVars, workVars, minNum, taskVars>>

-----------------------------------------------------------------------------
(* The dispatcher *)

\* The test at the end of the loop of run, given the workers now counted.
LoopEnd(num) ==
  dpc' = IF minNum = -1 /\ num = 0 THEN "wait" ELSE "outer"

\* The task that follows the front of a session.  (Mutant: the newest one.)
NewestInSession(q) == session[q][Len(session[q])]
NextInSession(q) == session[q][2]

\* processQueueEvent: drop the finished front task, hand out the next one.
\* A session exists for every queue id that can be received.  (Mutant: the
\* next task is left in its session.)
PopOnly(q) ==
  /\ idle' = FALSE
  /\ session' = [session EXCEPT ![q] = Tail(@)]
  /\ LoopEnd(workerNum) /\ UNCHANGED cur
ProcessQueueEvent(q) ==
  /\ idle' = FALSE
  /\ session' = [session EXCEPT ![q] = Tail(@)]
  /\ IF Len(session[q]) <= 1
     THEN LoopEnd(workerNum) /\ UNCHANGED cur
     ELSE dpc' = "exec" /\ cur' = NextInSession(q)

\* The outer or the inner select receives a finished queue task.
QueueEvent ==
  /\ Up
  /\ dpc \in {"outer", "inner"}
  /\ queueIdChannel # <<>>
  /\ queueIdChannel' = Tail(queueIdChannel)
  /\ ProcessQueueEvent(Head(queueIdChannel))
  /\ UNCHANGED <<tasks, cbChannel, idleIdx, timer, workerNum, workVars, svc,
                 minNum, taskVars>>

\* The outer select is left only when queueIdChannel is empty.  (Mutant: one
\* select over all channels, without that preference.)
NoPreference == TRUE
NoQueueEvent == queueIdChannel = <<>>

\* The outer select takes its default branch: nothing in queueIdChannel.
OuterDefault ==
  /\ Up
  /\ dpc = "outer"
  /\ NoQueueEvent
  /\ dpc' = "inner"
  /\ UNCHANGED <<chanVars, session, cur, idleIdx, timer, idle, workerNum,
                 workVars, svc, minNum, taskVars>>

\* A queue task waits while its session is not empty.  (Mutant: never.)
NeverWaits(t) == FALSE
MustWait(t) == info[t].queue # 0 /\ session[info[t].queue] # <<>>

\* The inner select receives a task.  processTask runs it at once unless it
\* has to wait behind another task of its queue.
InnerTask ==
  /\ Up
  /\ dpc = "inner"
  /\ tasks # <<>>
  /\ tasks' = Tail(tasks)
  /\ idle' = FALSE
  /\ LET t == Head(tasks)
         q == info[t].queue
     IN  IF MustWait(t)
         THEN /\ session' = [session EXCEPT ![q] = Append(@, t)]
              /\ LoopEnd(workerNum)
              /\ UNCHANGED cur
         ELSE /\ dpc' = "exec"
              /\ cur' = t
              /\ UNCHANGED session
  /\ UNCHANGED <<queueIdChannel, cbChannel, idleIdx, timer, workerNum,
                 workVars, svc, minNum, taskVars>>

\* processIdle: a parked worker, if there is one, takes the exit task.
ProcessIdle ==
  \/ \E w \in Parked :
       /\ wpc' = [wpc EXCEPT ![w] = "none"]
       /\ exiting' = exiting + 1
       /\ workerNum' = workerNum - 1
  \/ /\ Parked = {}
     /\ UNCHANGED <<wpc, exiting, workerNum>>

\* The timer fires.  It is not reset here: a time.Timer fires once.
InnerTimer ==
  /\ Up
  /\ dpc = "inner"
  /\ timer
  /\ timer' = FALSE
  /\ IF idle /\ workerNum > minNum
     THEN ProcessIdle
     ELSE UNCHANGED <<wpc, exiting, workerNum>>
  /\ idle' = TRUE
  /\ LoopEnd(workerNum')
  /\ UNCHANGED <<chanVars, session, cur, idleIdx, wtask, svc, minNum,
                 taskVars>>

\* The context is cancelled: re-arm the timer and start the loop of
\* processIdle calls.
InnerCancel ==
  /\ Up
  /\ dpc = "inner"
  /\ minNum = -1
  /\ timer' = TRUE
  /\ idleIdx' = 0
  /\ dpc' = "cancel"
  /\ UNCHANGED <<chanVars, session, cur, idle, workerNum, workVars, svc,
                 minNum, taskVars>>

\* The condition of the loop of the cancel branch.
MoreToVisit == idleIdx < workerNum

\* for i := 0; i < d.workerNum; i++ { d.processIdle() }
CancelIdle ==
  /\ Up
  /\ dpc = "cancel"
  /\ IF MoreToVisit
     THEN /\ ProcessIdle
          /\ idleIdx' = idleIdx + 1
          /\ UNCHANGED dpc
     ELSE /\ idleIdx' = 0
          /\ LoopEnd(workerNum)
          /\ UNCHANGED <<wpc, exiting, workerNum>>
  /\ UNCHANGED <<chanVars, session, cur, timer, idle, wtask, svc, minNum,
                 taskVars>>

\* The send of executeTask succeeded: back to the loop.  A queue task taken
\* from tasks is now pushed to its (still empty) session; one taken from the
\* session is already its front.
Handed ==
  /\ session' = IF info[cur].queue # 0 /\ session[info[cur].queue] = <<>>
                THEN [session EXCEPT ![info[cur].queue] = <<cur>>]
                ELSE session
  /\ cur' = 0
  /\ LoopEnd(workerNum')
  /\ status' = [status EXCEPT ![cur] = "running"]

\* workerQueue <- task with a worker waiting to receive it: the non-blocking
\* attempt ("exec") and the blocking send ("send") alike.
HandToWorker(w) ==
  /\ Up
  /\ dpc \in {"exec", "send"}
  /\ w \in Parked
  /\ wpc' = [wpc EXCEPT ![w] = "run"]
  /\ wtask' = [wtask EXCEPT ![w] = cur]
  /\ UNCHANGED workerNum
  /\ Handed
  /\ UNCHANGED <<chanVars, idleIdx, timer, idle, exiting, svc, minNum, next,
                 info, called>>

\* executeTask may start a worker.
RoomForWorker == workerNum < MaxConcurrentNum

\* Nobody is waiting and there is room for one more worker.
StartWorker(w) ==
  /\ Up
  /\ dpc = "exec"
  /\ Parked = {}
  /\ RoomForWorker
  /\ wpc[w] = "none"
  /\ wpc' = [wpc EXCEPT ![w] = "run"]
  /\ wtask' = [wtask EXCEPT ![w] = cur]
  /\ workerNum' = workerNum + 1
  /\ Handed
  /\ UNCHANGED <<chanVars, idleIdx, timer, idle, exiting, svc, minNum, next,
                 info, called>>

\* Nobody is waiting and every worker is started: executeTask blocks.
ExecuteBlocks ==
  /\ Up
  /\ dpc = "exec"
  /\ Parked = {}
  /\ ~RoomForWorker
  /\ dpc' = "send"
  /\ UNCHANGED <<chanVars, session, cur, idleIdx, timer, idle, workerNum,
                 workVars, svc, minNum, taskVars>>

\* waitWorker.Wait() returns.  (Mutant: it is not called.)
NoWait == TRUE
WorkersReturned == exiting = 0 /\ Live = {}

\* waitWorker.Wait(), then the nil callback that ends close, then return.
DispatchExit ==
  /\ Up
  /\ dpc = "wait"
  /\ WorkersReturned
  /\ Len(cbChannel) < Cap
  /\ cbChannel' = Append(cbChannel, NilCb)
  /\ dpc' = "done"
  /\ UNCHANGED <<tasks, queueIdChannel, session, cur, idleIdx, timer, idle,
                 workerNum, workVars, svc, minNum, taskVars>>

-----------------------------------------------------------------------------
(* The workers *)

\* Where endCallFun goes once the callback, if any, is pushed.
AfterCallback(t) == IF info[t].queue # 0 THEN "pushQueue" ELSE "loop"

\* endCallFun has a callback to push: the function returned true, or it
\* panicked, in which case the callback is wrapped even when it is nil.
\* (Mutant: only without a queue.)
OwesWithoutQueue(t, res) ==
  info[t].queue = 0 /\ (res = "panic" \/ (res = "true" /\ info[t].cb))
OwesCallback(t, res) == res = "panic" \/ (res = "true" /\ info[t].cb)

\* exec: the function returns res or panics.
ExecTask(w, res) ==
  /\ Up
  /\ wpc[w] = "run"
  /\ LET t == wtask[w]
     IN  /\ status' = [status EXCEPT ![t] = res]
         /\ wpc' = [wpc EXCEPT ![w] =
                      IF OwesCallback(t, res) THEN "pushCb" ELSE AfterCallback(t)]
  /\ UNCHANGED <<chanVars, dispVars, wtask, exiting, svc, minNum, next, info,
                 called>>

\* pushAsyncDoCallbackEvent: blocks while cbChannel is full.
PushCallback(w) ==
  /\ Up
  /\ wpc[w] = "pushCb"
  /\ Len(cbChannel) < Cap
  /\ LET t == wtask[w]
     IN  /\ cbChannel' = Append(cbChannel,
              [id |-> t, err |-> IF status[t] = "true" THEN "nil"
                                 ELSE IF info[t].cb THEN "panic"
                                 ELSE "panicNil"])
         /\ wpc' = [wpc EXCEPT ![w] = AfterCallback(t)]
  /\ UNCHANGED <<tasks, queueIdChannel, dispVars, wtask, exiting, svc, minNum,
                 taskVars>>

\* queueIdChannel has the capacity of tasks.  (Mutant: it never blocks.)
AlwaysRoom == TRUE
RoomForQueueId == Len(queueIdChannel) < Cap

\* pushQueueTaskFinishEvent: blocks while queueIdChannel is full.
PushQueueId(w) ==
  /\ Up
  /\ wpc[w] = "pushQueue"
  /\ RoomForQueueId
  /\ queueIdChannel' = Append(queueIdChannel, info[wtask[w]].queue)
  /\ wpc' = [wpc EXCEPT ![w] = "loop"]
  /\ UNCHANGED <<tasks, cbChannel, dispVars, wtask, exiting, svc, minNum,
                 taskVars>>

\* The worker reaches the receive on workerQueue.
Park(w) ==
  /\ Up
  /\ wpc[w] = "loop"
  /\ wpc' = [wpc EXCEPT ![w] = "recv"]
  /\ wtask' = [wtask EXCEPT ![w] = 0]
  /\ UNCHANGED <<chanVars, dispVars, exiting, svc, minNum, taskVars>>

\* A worker that took the exit task returns: waitGroup.Done().
WorkerReturn ==
  /\ Up
  /\ exiting > 0
  /\ exiting' = exiting - 1
  /\ UNCHANGED <<chanVars, dispVars, wpc, wtask, svc, minNum, taskVars>>

-----------------------------------------------------------------------------
ServiceStep ==
  \/ DoCallback
  \/ DrainCallback
  \/ DrainReturn
  \/ CloseDone

DispatchStep ==
  \/ QueueEvent
  \/ OuterDefault
  \/ InnerTask
  \/ InnerTimer
  \/ InnerCancel
  \/ CancelIdle
  \/ \E w \in Workers : HandToWorker(w)
  \/ \E w \in Workers : StartWorker(w)
  \/ ExecuteBlocks
  \/ DispatchExit

WorkerStep(w) ==
  \/ \E res \in Results : ExecTask(w, res)
  \/ PushCallback(w)
  \/ PushQueueId(w)
  \/ Park(w)

Next ==
  \/ \E c \in Calls : AsyncDoByQueue(c[1], c[2], c[3])
  \/ Close
  \/ ServiceStep
  \/ DispatchStep
  \/ \E w \in Workers : WorkerStep(w)
  \/ WorkerReturn

\* The Go scheduler runs every goroutine that can run.  A submitted function
\* is assumed to return.  Submitting tasks and stopping the service are the
\* caller's choice and carry no fairness.
Fairness ==
  /\ WF_vars(ServiceStep)
  /\ WF_vars(DispatchStep)
  /\ \A w \in Workers : WF_vars(WorkerStep(w))
  /\ WF_vars(WorkerReturn)

Safety == Init /\ [][Next]_vars
Spec == Safety /\ Fairness

-----------------------------------------------------------------------------
(* Properties *)

DispatcherPcs == {"outer", "inner", "exec", "send", "cancel", "wait", "done"}
WorkerPcs == {"none", "run", "pushCb", "pushQueue", "loop", "recv"}
ServicePcs == {"run", "blocked", "drain", "drainCb", "waitDispatch", "closed",
               "crashed"}
Statuses == {"new", "cbOnly", "queued", "rejected", "running", "true", "false",
             "panic"}
CbItems == [id : TaskIds \cup {0}, err : CbErrors]
TaskInfo == [raw : RawQueueIds \cup {0}, queue : QueueIds \cup {0},
             cb : BOOLEAN]

ChannelsOK ==
  /\ tasks \in Seq(TaskIds) /\ Len(tasks) <= Cap
  /\ queueIdChannel \in Seq(QueueIds) /\ Len(queueIdChannel) <= Cap
  /\ cbChannel \in Seq(CbItems) /\ Len(cbChannel) <= Cap
DispatcherOK ==
  /\ session \in [QueueIds -> Seq(TaskIds)]
  /\ dpc \in DispatcherPcs /\ cur \in TaskIds \cup {0} /\ idleIdx \in Nat
  /\ workerNum \in Int /\ minNum \in Int
FlagsOK == timer \in BOOLEAN /\ idle \in BOOLEAN
WorkersOK ==
  /\ wpc \in [Workers -> WorkerPcs] /\ wtask \in [Workers -> TaskIds \cup {0}]
  /\ exiting \in Nat
TasksOK ==
  /\ svc \in ServicePcs
  /\ next \in 1..(MaxTasks + 1)
  /\ info \in [TaskIds -> TaskInfo]
  /\ status \in [TaskIds -> Statuses]
  /\ called \in [TaskIds -> Nat]

\* The channels hold what Go's types allow and never exceed their capacity;
\* every control point is one of the code's (package concurrent).
TypeOK == ChannelsOK /\ DispatcherOK /\ FlagsOK /\ WorkersOK /\ TasksOK

\* Tasks submitted with the same non-zero queue id are "queued": no two of
\* them execute at the same time, whatever the workers and the completion
\* events do (processTask, processQueueEvent).
SameQueueSerial ==
  \A v, w \in Workers :
    /\ v # w
    /\ wpc[v] = "run" /\ wpc[w] = "run"
    /\ info[wtask[v]].raw # 0
    => info[wtask[v]].raw # info[wtask[w]].raw

\* Tasks of one queue begin in the order in which AsyncDoByQueue took them.
SameQueueFIFO ==
  \A t, u \in TaskIds :
    /\ t < u
    /\ info[t].raw # 0 /\ info[t].raw = info[u].raw
    /\ status[t] = "queued"
    => status[u] \notin {"running", "true", "false", "panic"}

\* The dispatcher blocked in executeTask and all its workers blocked in
\* pushQueueTaskFinishEvent would wait for each other for ever.  The outer
\* select, which empties queueIdChannel first, excludes it.
NoDispatchDeadlock ==
  ~ /\ dpc = "send"
    /\ Len(queueIdChannel) = Cap
    /\ \A w \in Live : wpc[w] = "pushQueue"

\* When close has returned, no goroutine of the pool is left and every
\* callback a worker owed has been run: the nil comes last in cbChannel.
CloseIsComplete ==
  svc = "closed" =>
    /\ Live = {} /\ exiting = 0 /\ dpc = "done"
    /\ \A t \in TaskIds :
         status[t] \in {"true", "panic"} /\ info[t].cb => called[t] = 1

\* The README of the pool: the callback of a function that returned true will
\* be executed, through the loop of close too, unless the service blocked
\* itself on the full cbChannel or a nil callback ended the process.
CallbackDelivered ==
  \A t \in TaskIds :
    status[t] = "true" /\ info[t].cb
      ~> called[t] = 1 \/ svc \in {"blocked", "crashed"}

\* While the service is not being stopped, an accepted task is executed.
AcceptedRuns ==
  \A t \in TaskIds :
    status[t] = "queued" ~> status[t] \in {"true", "false", "panic"}
                            \/ svc # "run"
=============================================================================
