---------------------------- MODULE MessageQueue ----------------------------
(***************************************************************************)
(* One topic of the message queue service: package messagequeueservice     *)
(* with MongoPersist as the QueueDataPersist module.                       *)
(*                                                                         *)
(* The service goroutine handles RPC_Publish and RPC_Subscribe.  The       *)
(* goroutine of the topic room moves messages from channelTopic to the     *)
(* database and then to the memory queue.  Every subscription has a        *)
(* goroutine that reads from memory or from the database, calls the        *)
(* customer, and stores the customer's progress.                           *)
(*                                                                         *)
(* A message is its sequence number, <<time, counter>> packed into one     *)
(* number; the database has one collection per day.                        *)
(***************************************************************************)
EXTENDS MemoryQueue, FiniteSets, SequencesExt, FiniteSetsExt

CONSTANTS
  Customers,
  Methods,        \* how customers subscribe: "custom" and "last"
  ChanCap,        \* maxTopicBacklogNum
  OneBatch,       \* oneBatchQuantity
  RetryCount,     \* MongoPersist.retryCount
  MaxTryPersist,  \* maxTryPersistNum
  TicksPerDay,    \* seconds of a day
  QuietMidnight,  \* at midnight no message waits in channelTopic
  MaxNow,         \* bound on the clock
  MaxMsgs,        \* bound on the messages published
  MaxSubs,        \* bound on the subscriptions
  Limits          \* bounds that go together: msgs, subs and faults (failures of
                  \* database and calls, disconnections, crashes)

ASSUME QueueAssumption ==
  /\ {ChanCap, OneBatch, RetryCount, MaxTryPersist, TicksPerDay} \subseteq Nat \ {0}
  /\ {MaxNow, MaxMsgs, MaxSubs} \subseteq Nat
  /\ Limits \subseteq [msgs : 0..MaxMsgs, subs : 0..MaxSubs, faults : Nat]
  /\ QuietMidnight \in BOOLEAN /\ Methods \subseteq {"custom", "last"}

VARIABLES
  now,          \* the clock, in seconds
  lastSeq,      \* lastTime and seq of NextSeq
  channelTopic, \* messages accepted and not yet taken by the room
  room,         \* where the room's goroutine is
  staging,      \* stagingBuff of topicRoomRun
  saved,        \* the part of savedBuff not yet pushed to memory
  retry,        \* retryCount of topicRoomRun
  db,           \* the messages in the collections
  index,        \* SysCustomer: the progress stored for every customer
  sub,          \* the subscriptions, in the order they were made
  mapCustomer,  \* the subscription of every customer, 0 for none
  online,       \* is the node of a customer connected?
  svc,          \* "run", "release" or "done"
  got,          \* messages every customer has processed
  base,         \* where the progress of a customer began
  passed,       \* days a customer's search left although they ended during it
  budget        \* messages and faults that may still come, subscriptions in all

roomVars == <<room, staging, saved, retry>>
custVars == <<sub, mapCustomer, got, base, passed>>
storeVars == <<db, index>>
vars == <<now, lastSeq, channelTopic, roomVars, storeVars, custVars, online, svc,
          budget, ringVars>>

\* Sequence numbers: the time in the upper bits, a counter below (2^32 each).
K == MaxMsgs + 1
Pack(time, n) == time * K + n
DayOf(s) == (s \div K) \div TicksPerDay
Today == now \div TicksPerDay
ZeroTime(day) == Pack(day * TicksPerDay, 0)

NoSub == [cust |-> "nobody", pc |-> "none", stop |-> FALSE, start |-> 0, first |-> 0,
          idx |-> 0, days |-> 0, asked |-> 0, jump |-> FALSE, mem |-> FALSE, data |-> <<>>]

Volatile ==
  /\ lastSeq = <<0, 0>> /\ channelTopic = <<>>
  /\ room = "none" /\ staging = <<>> /\ saved = <<>> /\ retry = 0
  /\ mapCustomer = [c \in Customers |-> 0]
  /\ svc = "run"
  /\ RingInit

Init ==
  /\ Volatile
  /\ now = TicksPerDay
  /\ db = {} /\ index = [c \in Customers |-> 0]
  /\ sub = <<>>
  /\ online = [c \in Customers |-> TRUE]
  /\ got = [c \in Customers |-> {}] /\ base = [c \in Customers |-> 0]
  /\ passed = [c \in Customers |-> {}]
  /\ budget \in Limits

Fault ==
  /\ budget.faults > 0
  /\ budget' = [budget EXCEPT !.faults = @ - 1]
-----------------------------------------------------------------------------
(* The service goroutine.                                                  *)

\* GetTopicRoom starts the room of a topic that is named first.
Opened == IF room = "none" THEN "drain" ELSE room

\* NextSeq for k messages: the counter restarts with every second.
FirstCounter == IF lastSeq[1] = now THEN lastSeq[2] ELSE 0

\* RPC_Publish: all messages of the request or, when there is no room, none.
RPC_Publish(k) ==
  /\ svc = "run"
  /\ k <= budget.msgs
  /\ Len(channelTopic) + k <= ChanCap
  /\ channelTopic' = channelTopic \o [i \in 1..k |-> Pack(now, FirstCounter + i)]
  /\ lastSeq' = <<now, FirstCounter + k>>
  /\ budget' = [budget EXCEPT !.msgs = @ - k]
  /\ room' = Opened
  /\ UNCHANGED <<now, staging, saved, retry, storeVars, custVars, online, svc, ringVars>>

\* Subscribe: without a start index the day's first; refused if the customer's
\* node is not connected.
Subscribe(c, method) ==
  LET start == ZeroTime(Today) IN
  [NoSub EXCEPT !.cust = c, !.start = start, !.first = start,
     !.pc = IF ~online[c] THEN "done" ELSE IF method = "last" THEN "load" ELSE "loop"]

\* TopicSubscribe: the old subscription of the customer is told to stop; a
\* new one is entered, even if it is then refused.
Stopped(i) == [sub EXCEPT ![i].stop = TRUE]
RPC_Subscribe(c, method) ==
  /\ svc = "run"
  /\ Len(sub) < budget.subs
  /\ sub' = Append(IF mapCustomer[c] # 0 THEN Stopped(mapCustomer[c]) ELSE sub,
                   Subscribe(c, method))
  /\ mapCustomer' = [mapCustomer EXCEPT ![c] = Len(sub) + 1]
  /\ base' = IF method = "custom" THEN [base EXCEPT ![c] = ZeroTime(Today)] ELSE base
  /\ room' = Opened
  /\ UNCHANGED <<now, lastSeq, channelTopic, staging, saved, retry, storeVars, got, passed,
                 online, svc, budget, ringVars>>

\* OnRelease stops the room and waits for all goroutines.
OnRelease ==
  /\ svc = "run"
  /\ svc' = "release"
  /\ UNCHANGED <<now, lastSeq, channelTopic, roomVars, storeVars, custVars, online, budget,
                 ringVars>>

Released ==
  /\ svc = "release"
  /\ room \in {"none", "stopped"}
  /\ \A i \in DOMAIN sub : sub[i].pc = "done"
  /\ svc' = "done"
  /\ UNCHANGED <<now, lastSeq, channelTopic, roomVars, storeVars, custVars, online, budget,
                 ringVars>>
-----------------------------------------------------------------------------
(* The room: topicRoomRun.                                                 *)

\* The loop that empties channelTopic compares with its shrinking length, so
\* it takes half of it, and more if messages come meanwhile.
Drain ==
  /\ room = "drain" /\ svc = "run"
  /\ channelTopic # <<>>
  /\ \E k \in ((Len(channelTopic) + 1) \div 2)..Len(channelTopic) :
       /\ staging' = SubSeq(channelTopic, 1, k)
       /\ channelTopic' = SubSeq(channelTopic, k + 1, Len(channelTopic))
  /\ room' = "persist"
  /\ retry' = 0
  /\ UNCHANGED <<now, lastSeq, saved, storeVars, custVars, online, svc, budget, ringVars>>

\* PersistTopicData stores the messages of the first day of the batch.
FirstDay(s) == SelectSeq(s, LAMBDA m : DayOf(m) = DayOf(s[1]))
Batch == FirstDay(staging)

\* InsertMany inserts in order and stops at a key that exists.
Duplicates == {i \in 1..Len(Batch) : Batch[i] \in db}
Inserted(n) == db \cup {Batch[i] : i \in 1..n}

Persist ==
  /\ room = "persist"
  /\ Duplicates = {}
  /\ db' = Inserted(Len(Batch))
  /\ saved' = Batch
  /\ room' = "push"
  /\ UNCHANGED <<now, lastSeq, channelTopic, staging, retry, index, custVars, online, svc,
                 budget, ringVars>>

\* InsertMany fails after n messages, or after all when only its answer is
\* lost.  After RetryCount failures the batch counts as stored; after
\* MaxTryPersist rounds the room drops it.
PersistFails(n) ==
  /\ room = "persist"
  /\ n <= Len(Batch) /\ \A i \in Duplicates : n < i
  /\ IF Duplicates = {} THEN Fault ELSE UNCHANGED budget
  /\ db' = Inserted(n)
  /\ IF retry + 1 >= RetryCount
     THEN saved' = Batch /\ room' = "push" /\ UNCHANGED <<retry, staging>>
     ELSE /\ retry' = (retry + 1) % MaxTryPersist
          /\ room' = IF retry + 1 < MaxTryPersist THEN "persist" ELSE "drain"
          /\ staging' = IF retry + 1 < MaxTryPersist THEN staging ELSE <<>>
          /\ UNCHANGED saved
  /\ UNCHANGED <<now, lastSeq, channelTopic, index, custVars, online, svc, ringVars>>

\* After the last push the loop ends or, as the rest of the batch was
\* assigned to a variable of the inner scope, begins again with all of it.
PushTopicDataToQueue ==
  /\ room = "push"
  /\ Push(Head(saved))
  /\ saved' = Tail(saved)
  /\ room' = IF Len(saved) > 1 THEN "push"
             ELSE IF Len(Batch) < Len(staging) THEN "persist" ELSE "drain"
  /\ staging' = IF room' = "drain" THEN <<>> ELSE staging
  /\ retry' = IF room' = "drain" THEN 0 ELSE retry
  /\ UNCHANGED <<now, lastSeq, channelTopic, storeVars, custVars, online, svc, budget>>

RoomStops ==
  /\ room = "drain" /\ svc = "release"
  /\ room' = "stopped"
  /\ sub' = [i \in DOMAIN sub |->
               [sub[i] EXCEPT !.stop = @ \/ i \in {mapCustomer[c] : c \in Customers}]]
  /\ UNCHANGED <<now, lastSeq, channelTopic, staging, saved, retry, storeVars, mapCustomer,
                 got, base, passed, online, svc, budget, ringVars>>
-----------------------------------------------------------------------------
(* A subscription: SubscribeRun.                                           *)

\* The local variables of FindTopicData and publishToCustomer end with them.
Back(cs, pc) ==
  [cs EXCEPT !.pc = pc, !.idx = 0, !.days = 0, !.asked = 0, !.jump = FALSE, !.mem = FALSE,
            !.data = <<>>]
Ended(cs) == [NoSub EXCEPT !.cust = cs.cust, !.pc = "done", !.stop = cs.stop]

SubOnly(i, cs) ==
  /\ sub' = [sub EXCEPT ![i] = cs]
  /\ UNCHANGED <<now, lastSeq, channelTopic, roomVars, index, mapCustomer, online, svc, ringVars>>

\* LoadLastIndex retries until the progress could be read; 0 stands for a
\* customer without progress.
LoadCustomerIndex(cs) == index[cs.cust]
LoadLastIndex(i) ==
  LET cs == sub[i]
      last == LoadCustomerIndex(cs)
      start == IF last > 0 THEN last ELSE cs.start IN
  /\ cs.pc = "load"
  /\ IF cs.stop
     THEN SubOnly(i, [cs EXCEPT !.pc = "loop"]) /\ UNCHANGED base
     ELSE /\ SubOnly(i, [cs EXCEPT !.pc = "loop", !.start = start, !.first = start])
          /\ base' = IF last > 0 THEN base ELSE [base EXCEPT ![cs.cust] = start]
  /\ UNCHANGED <<db, got, passed, budget>>

\* A round of SubscribeRun: memory is asked first, then the database.
subscribe(i) ==
  LET cs == sub[i]
      mem == FindData(cs.start + 1, OneBatch) IN
  /\ cs.pc = "loop"
  /\ SubOnly(i,
       IF cs.stop \/ ~online[cs.cust] THEN [cs EXCEPT !.pc = "exit"]
       ELSE IF mem.ok THEN [cs EXCEPT !.pc = "push", !.mem = TRUE, !.data = mem.data]
       ELSE [cs EXCEPT !.pc = "count", !.mem = FALSE, !.idx = cs.start, !.days = 1])
  /\ UNCHANGED <<db, got, base, passed, budget>>

\* FindTopicData: whether the search may go on to the next day is decided
\* before the day is searched; a midnight between the two leaves the decision
\* as it was.  (Mutants: it always or never may.)
AlwaysJumps(idx) == TRUE
NeverJumps(idx) == FALSE
MayJump(idx) == ~(DayOf(idx) + 1 = Today /\ \A m \in db : DayOf(m) # Today)
getCollectCount(i) ==
  /\ sub[i].pc = "count"
  /\ \/ /\ SubOnly(i, [sub[i] EXCEPT !.pc = "find", !.asked = Today,
                                     !.jump = MayJump(sub[i].idx)])
        /\ UNCHANGED budget
     \/ SubOnly(i, Back(sub[i], "loop")) /\ Fault
  /\ UNCHANGED <<db, got, base, passed>>

\* The messages of the day of idx that come after it, at most OneBatch.
InDay(idx) ==
  LET s == SetToSortSeq({m \in db : DayOf(m) = DayOf(idx) /\ m > idx}, <)
  IN  SubSeq(s, 1, IF Len(s) < OneBatch THEN Len(s) ELSE OneBatch)

\* GetNextIndex adds the number of rounds, not one day.
GetNextIndex(idx, days) == ZeroTime(DayOf(idx) + days)

\* With nothing found the search leaves a day that is over, if it may jump.
Leaves(cs) == InDay(cs.idx) = <<>> /\ DayOf(cs.idx) < Today /\ cs.jump
findTopicData(i) ==
  LET cs == sub[i]
      data == InDay(cs.idx) IN
  /\ cs.pc = "find"
  /\ \/ /\ SubOnly(i, IF data # <<>> THEN [Back(cs, "push") EXCEPT !.data = data]
                      ELSE IF ~Leaves(cs) THEN Back(cs, "loop")
                      ELSE [cs EXCEPT !.pc = "count", !.days = @ + 1,
                                      !.idx = GetNextIndex(cs.idx, cs.days)])
        /\ passed' = IF Leaves(cs) /\ cs.asked = DayOf(cs.idx)
                     THEN [passed EXCEPT ![cs.cust] = @ \cup {cs.asked}] ELSE passed
        /\ UNCHANGED budget
     \/ SubOnly(i, Back(cs, "loop")) /\ Fault /\ UNCHANGED passed
  /\ UNCHANGED <<db, got, base>>

\* publishToCustomer stops sending: the subscription is cancelled, or the
\* customer's node or service is gone.  subscribe ignores the result for what
\* memory answered.
StopsSending(i) ==
  LET cs == sub[i] IN
  /\ cs.pc = "push"
  /\ cs.stop \/ ~online[cs.cust]
  /\ SubOnly(i, Back(cs, IF cs.stop \/ cs.mem THEN "loop" ELSE "exit"))
  /\ UNCHANGED <<db, got, base, passed, budget>>

\* The call of the customer returns.  (Mutant: the progress runs ahead.)
SetsNow(cs) == Pack(now, MaxMsgs)
EndIndex(cs) == cs.data[Len(cs.data)]
publishToCustomer(i) ==
  LET cs == sub[i] IN
  /\ cs.pc = "push" /\ ~cs.stop /\ online[cs.cust]
  /\ got' = [got EXCEPT ![cs.cust] = @ \cup ToSet(cs.data)]
  /\ SubOnly(i, [Back(cs, "index") EXCEPT !.start = EndIndex(cs)])
  /\ UNCHANGED <<db, base, passed, budget>>

\* The customer processed the call but its answer is lost: it is repeated.
AnswerLost(i) ==
  LET cs == sub[i] IN
  /\ cs.pc = "push" /\ ~cs.stop /\ online[cs.cust]
  /\ got' = [got EXCEPT ![cs.cust] = @ \cup ToSet(cs.data)]
  /\ Fault
  /\ UNCHANGED <<now, lastSeq, channelTopic, roomVars, storeVars, sub, mapCustomer, base,
                 passed, online, svc, ringVars>>

\* PersistIndex; an error is only logged.
PersistIndex(i) ==
  LET cs == sub[i] IN
  /\ cs.pc = "index"
  /\ sub' = [sub EXCEPT ![i].pc = "loop"]
  /\ \/ index' = [index EXCEPT ![cs.cust] = cs.start] /\ UNCHANGED budget
     \/ Fault /\ UNCHANGED index
  /\ UNCHANGED <<now, lastSeq, channelTopic, roomVars, db, mapCustomer, got, base, passed,
                 online, svc, ringVars>>

\* removeCustomer: only the subscription that is still entered.
WithoutEntry(i) == [mapCustomer EXCEPT ![sub[i].cust] = IF @ = i THEN 0 ELSE @]
removeCustomer(i) ==
  /\ sub[i].pc = "exit"
  /\ sub' = [sub EXCEPT ![i] = Ended(@)]
  /\ mapCustomer' = WithoutEntry(i)
  /\ UNCHANGED <<now, lastSeq, channelTopic, roomVars, storeVars, got, base, passed, online,
                 svc, budget, ringVars>>
-----------------------------------------------------------------------------
(* The environment.                                                        *)

ClockTick ==
  /\ now < MaxNow
  /\ QuietMidnight /\ (now + 1) % TicksPerDay = 0 => channelTopic = <<>>
  /\ now' = now + 1
  /\ UNCHANGED <<lastSeq, channelTopic, roomVars, storeVars, custVars, online, svc, budget,
                 ringVars>>

Disconnect(c) ==
  /\ online[c]
  /\ Fault
  /\ online' = [online EXCEPT ![c] = FALSE]
  /\ UNCHANGED <<now, lastSeq, channelTopic, roomVars, storeVars, custVars, svc, ringVars>>

Connect(c) ==
  /\ ~online[c]
  /\ online' = [online EXCEPT ![c] = TRUE]
  /\ UNCHANGED <<now, lastSeq, channelTopic, roomVars, storeVars, custVars, svc, budget,
                 ringVars>>

\* The process ends and is started again, at least a second later.  A request
\* to unsubscribe does this: it unlocks customerLocker without a lock.
Crash ==
  /\ svc # "done"
  /\ now < MaxNow
  /\ Fault
  /\ now' = now + 1
  /\ lastSeq' = <<0, 0>> /\ channelTopic' = <<>>
  /\ room' = "none" /\ staging' = <<>> /\ saved' = <<>> /\ retry' = 0
  /\ mapCustomer' = [c \in Customers |-> 0] /\ svc' = "run"
  /\ sub' = [i \in DOMAIN sub |-> Ended(sub[i])]
  /\ topicQueue' = [i \in 0..RingCap |-> 0] /\ head' = 0 /\ tail' = 0
  /\ UNCHANGED <<storeVars, got, base, passed, online>>
-----------------------------------------------------------------------------
RoomStep == Drain \/ Persist \/ PushTopicDataToQueue \/ RoomStops
            \/ (\E n \in 0..MaxMsgs : PersistFails(n))

SubStep(i) ==
  /\ i \in DOMAIN sub
  /\ \/ LoadLastIndex(i) \/ subscribe(i) \/ getCollectCount(i) \/ findTopicData(i)
     \/ StopsSending(i) \/ publishToCustomer(i) \/ PersistIndex(i) \/ removeCustomer(i)

Next ==
  \/ \E k \in 1..2 : RPC_Publish(k)
  \/ \E c \in Customers, method \in Methods : RPC_Subscribe(c, method)
  \/ OnRelease
  \/ Released
  \/ Drain
  \/ Persist
  \/ \E n \in 0..MaxMsgs : PersistFails(n)
  \/ PushTopicDataToQueue
  \/ RoomStops
  \/ \E i \in DOMAIN sub : LoadLastIndex(i)
  \/ \E i \in DOMAIN sub : subscribe(i)
  \/ \E i \in DOMAIN sub : getCollectCount(i)
  \/ \E i \in DOMAIN sub : findTopicData(i)
  \/ \E i \in DOMAIN sub : StopsSending(i)
  \/ \E i \in DOMAIN sub : publishToCustomer(i)
  \/ \E i \in DOMAIN sub : AnswerLost(i)
  \/ \E i \in DOMAIN sub : PersistIndex(i)
  \/ \E i \in DOMAIN sub : removeCustomer(i)
  \/ ClockTick
  \/ \E c \in Customers : Disconnect(c)
  \/ \E c \in Customers : Connect(c)
  \/ Crash

Safety == Init /\ [][Next]_vars

(* The goroutines run, and a call of a customer returns; nothing else is   *)
(* bound to happen.                                                        *)
Fairness ==
  /\ WF_vars(RoomStep) /\ WF_vars(Released)
  /\ \A i \in 1..MaxSubs : WF_vars(SubStep(i))
Spec == Safety /\ Fairness
-----------------------------------------------------------------------------
(* Properties.                                                             *)

\* The ring as its users see it, from the first request for the topic on.
Window == INSTANCE TopicWindow WITH window <- Contents, open <- (room # "none")

(* The ring of head, tail and slice implements the window on the messages  *)
(* pushed last (module TopicWindow), at every length and over restarts.    *)
RingIsWindow == Window!Spec

(* A message that is stored between the first position of a subscription   *)
(* and the present one was processed by the customer, although memory and  *)
(* database are read at different times.  MongoPersist.go:283-285 means to *)
(* keep this over the change of a day, by asking for the new day's messages *)
(* before the old day is searched.  The code keeps it for every day but    *)
(* one that ends between that question and the search: such a day is left  *)
(* (passed) though its last messages may still be on their way to the      *)
(* database, and only these are ever skipped.                              *)
Processed(c, m) == m \in got[c] \/ DayOf(m) \in passed[c]
NoGap ==
  \A i \in DOMAIN sub : \A m \in db :
    sub[i].first < m /\ m <= sub[i].start => Processed(sub[i].cust, m)

(* The stored progress never runs ahead of the customer, over crashes,     *)
(* repeated calls and subscriptions that replace each other: what it       *)
(* covers was processed, or lies in a day the search left too early.       *)
ProgressIsProcessed ==
  \A c \in Customers : \A m \in db : base[c] < m /\ m <= index[c] => Processed(c, m)

(* A stored message reaches every subscription that has not passed it: when *)
(* nothing more is published, a subscription that is not stopped and stays *)
(* connected has in the end processed all that is stored, except in a day  *)
(* the search left too early.                                              *)
StoredIsDelivered ==
  <>[](\A i \in DOMAIN sub :
         sub[i].pc # "done" /\ ~sub[i].stop /\ online[sub[i].cust]
           => \A m \in db : sub[i].first < m => Processed(sub[i].cust, m))
=============================================================================
