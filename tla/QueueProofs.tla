---------------------------- MODULE QueueProofs ----------------------------
(***************************************************************************)
(* Proofs about the queues and the wheel of the system, for every size and *)
(* every number of elements, messages and timers:                          *)
(*   - the ring of head, tail and slice of a topic's memory queue is the   *)
(*     window on the messages pushed last (MemoryQueue);                   *)
(*   - the Deque, Queue and SQueue of package util/queue hold the sequence *)
(*     their users see (Deque);                                            *)
(*   - a frame timer that waits in the wheel has its wakeup armed          *)
(*     (FrameTimer).                                                       *)
(***************************************************************************)
EXTENDS MessageQueue, Deque, FrameTimer, SequenceTheorems, FiniteSetTheorems,
        WellFoundedInduction, TLAPS
-----------------------------------------------------------------------------
(* The memory queue of a topic.                                             *)

\* The shape of the ring, all that the proof needs to know of a state.
RingOK ==
  /\ head \in 0..RingCap /\ tail \in 0..RingCap
  /\ DOMAIN topicQueue = 0..RingCap

\* The number of messages in a ring with head h and tail t and the position
\* of the i-th, without a quotient.
Used(h, t) == IF h <= t THEN t - h ELSE t - h + RingLen
Pos(h, i) == IF h + i < RingLen THEN h + i ELSE h + i - RingLen

LEMMA Wrap ==
  ASSUME NEW h \in 0..RingCap, NEW t \in 0..RingCap
  PROVE  /\ RingLen \in Nat /\ RingLen = RingCap + 1 /\ RingCap \in Nat /\ RingCap > 0
         /\ (t - h) % RingLen = Used(h, t) /\ Used(h, t) \in 0..RingCap
         /\ \A i \in 1..RingCap : (h + i) % RingLen = Pos(h, i) /\ Pos(h, i) \in 0..RingCap
<1>1. RingCap \in Nat /\ RingCap > 0
  BY RingAssumption
<1>2. \A n \in Nat : \A x \in 0..n, y \in 0..n :
        (y - x) % (n + 1) = IF x <= y THEN y - x ELSE y - x + (n + 1)
  OBVIOUS
<1>3. \A n \in Nat : \A x \in 0..n, y \in 1..n :
        (x + y) % (n + 1) = IF x + y < n + 1 THEN x + y ELSE x + y - (n + 1)
  OBVIOUS
<1>4. (t - h) % RingLen = Used(h, t) /\ Used(h, t) \in 0..RingCap
  BY <1>1, <1>2 DEF RingLen, Used
<1>5. \A i \in 1..RingCap : (h + i) % RingLen = Pos(h, i) /\ Pos(h, i) \in 0..RingCap
  <2> TAKE i \in 1..RingCap
  <2>1. (h + i) % RingLen = Pos(h, i)
    BY <1>1, <1>3 DEF RingLen, Pos
  <2>2. Pos(h, i) \in 0..RingCap
    BY <1>1 DEF RingLen, Pos
  <2> QED  BY <2>1, <2>2
<1> QED  BY <1>1, <1>4, <1>5 DEF RingLen

\* The messages of a ring qq with head h and tail t.
Ring(qq, h, t) == [i \in 1..((t - h) % RingLen) |-> qq[(h + i) % RingLen]]

LEMMA RingFacts ==
  ASSUME NEW qq, NEW h \in 0..RingCap, NEW t \in 0..RingCap, NEW S,
         \A j \in 0..RingCap : qq[j] \in S
  PROVE  /\ Ring(qq, h, t) \in Seq(S) /\ Len(Ring(qq, h, t)) = Used(h, t)
         /\ \A i \in 1..Used(h, t) : Ring(qq, h, t)[i] = qq[Pos(h, i)]
<1>1. (t - h) % RingLen = Used(h, t) /\ Used(h, t) \in 0..RingCap
  BY Wrap
<1>2. \A i \in 1..Used(h, t) : (h + i) % RingLen = Pos(h, i) /\ Pos(h, i) \in 0..RingCap
  <2> TAKE i \in 1..Used(h, t)
  <2>1. RingCap \in Nat
    BY Wrap
  <2>2. i \in 1..RingCap
    BY <1>1, <2>1
  <2> QED  BY <2>2, Wrap
<1>3. Ring(qq, h, t) = [i \in 1..Used(h, t) |-> qq[(h + i) % RingLen]]
  BY <1>1 DEF Ring
<1>4. \A i \in 1..Used(h, t) : qq[(h + i) % RingLen] = qq[Pos(h, i)] /\ qq[Pos(h, i)] \in S
  BY <1>2
<1>5. Used(h, t) \in Nat
  BY <1>1
<1> HIDE DEF Used
<1> QED  BY <1>3, <1>4, <1>5

\* Pushing a message appends it to the window; a full window loses its first.
LEMMA PushWindow ==
  ASSUME RingOK, NEW m, Push(m)
  PROVE  /\ RingOK'
         /\ Contents' # <<>> /\ Contents'[Len(Contents')] = m
         /\ Contents' = IF Len(Contents) < RingCap THEN Append(Contents, m)
                        ELSE Append(Tail(Contents), m)
<1> DEFINE S == {topicQueue[j] : j \in 0..RingCap} \cup {m}
           n == Used(head, tail)
           n1 == Used(head', tail')
<1>1. /\ head \in 0..RingCap /\ tail \in 0..RingCap /\ DOMAIN topicQueue = 0..RingCap
      /\ RingLen \in Nat /\ RingLen = RingCap + 1 /\ RingCap \in Nat /\ RingCap > 0
  BY Wrap DEF RingOK
<1>2. /\ (tail + 1) % RingLen = Pos(tail, 1) /\ (head + 1) % RingLen = Pos(head, 1)
      /\ Pos(tail, 1) \in 0..RingCap /\ Pos(head, 1) \in 0..RingCap
  <2>1. 1 \in 1..RingCap
    BY <1>1
  <2>2. (tail + 1) % RingLen = Pos(tail, 1) /\ Pos(tail, 1) \in 0..RingCap
    BY <1>1, <2>1, Wrap
  <2>3. (head + 1) % RingLen = Pos(head, 1) /\ Pos(head, 1) \in 0..RingCap
    BY <1>1, <2>1, Wrap
  <2> QED  BY <2>2, <2>3
<1>3. /\ tail' = Pos(tail, 1) /\ head' = IF Pos(tail, 1) = head THEN Pos(head, 1) ELSE head
      /\ topicQueue' = [topicQueue EXCEPT ![Pos(tail, 1)] = m]
  BY <1>2 DEF Push, HeadAfterPush
<1>4. head' \in 0..RingCap /\ tail' \in 0..RingCap /\ DOMAIN topicQueue' = 0..RingCap
  BY <1>1, <1>2, <1>3
<1>5. \A j \in 0..RingCap : topicQueue'[j] = IF j = tail' THEN m ELSE topicQueue[j]
  BY <1>1, <1>3
<1>6. \A j \in 0..RingCap : topicQueue[j] \in S /\ topicQueue'[j] \in S
  BY <1>5
<1>7. Contents = Ring(topicQueue, head, tail) /\ Contents' = Ring(topicQueue', head', tail')
  BY DEF Contents, Ring
<1> HIDE DEF S, n, n1
<1>8. /\ Contents \in Seq(S) /\ Len(Contents) = n
      /\ \A i \in 1..n : Contents[i] = topicQueue[Pos(head, i)]
  BY <1>1, <1>6, <1>7, RingFacts DEF n
<1>9. /\ Contents' \in Seq(S) /\ Len(Contents') = n1
      /\ \A i \in 1..n1 : Contents'[i] = topicQueue'[Pos(head', i)]
  BY <1>4, <1>6, <1>7, RingFacts DEF n1
<1>10. n \in 0..RingCap /\ n1 \in 0..RingCap
  BY <1>1, <1>4, Wrap DEF n, n1
<1>11. m \in S
  BY DEF S
<1>12. n1 > 0 /\ Pos(head', n1) = tail'
  BY <1>1, <1>3, <1>4, <1>10 DEF n1, Used, Pos
<1>13. Contents' # <<>> /\ Contents'[Len(Contents')] = m
  <2>1. Contents'[n1] = topicQueue'[tail']
    BY <1>9, <1>10, <1>12
  <2> QED  BY <1>4, <1>5, <1>9, <1>12, <2>1, EmptySeq
<1>14. CASE Pos(tail, 1) # head
  \* There is room: the head stays.
  <2>1. n1 = n + 1 /\ n < RingCap
    BY <1>1, <1>3, <1>4, <1>14 DEF n, n1, Used, Pos
  <2>2. ASSUME NEW i \in 1..n PROVE Contents'[i] = Contents[i]
    <3>1. head' = head /\ Pos(head, i) \in 0..RingCap /\ Pos(head, i) # tail'
      BY <1>1, <1>3, <1>10, <1>14 DEF n, Used, Pos
    <3>2. i \in 1..n1 /\ Contents'[i] = topicQueue'[Pos(head, i)]
      BY <1>9, <1>10, <2>1, <3>1
    <3> QED  BY <1>5, <1>8, <3>1, <3>2
  <2>3. /\ Append(Contents, m) \in Seq(S) /\ Len(Append(Contents, m)) = n + 1
        /\ \A i \in 1..n : Append(Contents, m)[i] = Contents[i]
        /\ Append(Contents, m)[n + 1] = m
    BY <1>8, <1>11, AppendProperties
  <2>4. \A i \in 1..Len(Contents') : Contents'[i] = Append(Contents, m)[i]
    BY <1>9, <1>10, <1>13, <2>1, <2>2, <2>3
  <2>5. Contents' = Append(Contents, m)
    BY <1>9, <2>1, <2>3, <2>4, SeqEqual
  <2> QED  BY <1>4, <1>8, <1>13, <2>1, <2>5 DEF RingOK
<1>15. CASE Pos(tail, 1) = head
  \* The ring is full: the head moves on.
  <2>1. n1 = n /\ n = RingCap
    BY <1>1, <1>3, <1>4, <1>15 DEF n, n1, Used, Pos
  <2>2. ASSUME NEW i \in 1..(n - 1) PROVE Contents'[i] = Contents[i + 1]
    <3>1. /\ Pos(head', i) = Pos(head, i + 1) /\ Pos(head, i + 1) \in 0..RingCap
          /\ Pos(head, i + 1) # tail'
      BY <1>1, <1>3, <1>15, <2>1 DEF Pos
    <3>2. i \in 1..n1 /\ i + 1 \in 1..n
      BY <1>10, <2>1
    <3>3. Contents'[i] = topicQueue'[Pos(head, i + 1)]
      BY <1>9, <3>1, <3>2
    <3> QED  BY <1>5, <1>8, <3>1, <3>2, <3>3
  <2>3. Contents # <<>>
    BY <1>1, <1>8, <2>1, EmptySeq
  <2>4. /\ Tail(Contents) \in Seq(S) /\ Len(Tail(Contents)) = n - 1
        /\ \A i \in 1..(n - 1) : Tail(Contents)[i] = Contents[i + 1]
    BY <1>8, <2>3, HeadTailProperties
  <2>5. /\ Append(Tail(Contents), m) \in Seq(S) /\ Len(Append(Tail(Contents), m)) = n
        /\ \A i \in 1..(n - 1) : Append(Tail(Contents), m)[i] = Tail(Contents)[i]
        /\ Append(Tail(Contents), m)[n] = m
    BY <1>10, <1>11, <2>4, AppendProperties
  <2>6. \A i \in 1..Len(Contents') : Contents'[i] = Append(Tail(Contents), m)[i]
    BY <1>9, <1>10, <1>13, <2>1, <2>2, <2>4, <2>5
  <2>7. Contents' = Append(Tail(Contents), m)
    BY <1>9, <2>1, <2>5, <2>6, SeqEqual
  <2> QED  BY <1>1, <1>4, <1>8, <1>13, <2>1, <2>7 DEF RingOK
<1> QED  BY <1>14, <1>15

\* An emptied ring.
LEMMA EmptyRing == Ring(topicQueue, 0, 0) = <<>> /\ Ring(topicQueue', 0, 0) = <<>>
<1>1. (0 - 0) % RingLen = 0
  BY Wrap, RingAssumption DEF Used
<1> QED  BY <1>1 DEF Ring

-----------------------------------------------------------------------------
\* A step that leaves the ring alone opens the room, or changes nothing that
\* is seen of the topic.
LEMMA NextWindow == RingOK /\ [Next]_vars => RingOK' /\ [Window!Next]_<<Contents, room # "none">>
<1> SUFFICES ASSUME RingOK, [Next]_vars
             PROVE  RingOK' /\ [Window!Next]_<<Contents, room # "none">>
  OBVIOUS
<1> USE DEF ringVars, roomVars, custVars, storeVars
<1>1. ASSUME ringVars' = ringVars, (room' # "none") = (room # "none")
      PROVE  RingOK' /\ [Window!Next]_<<Contents, room # "none">>
  BY <1>1 DEF RingOK, Contents
<1>2. ASSUME ringVars' = ringVars, room' = Opened
      PROVE  RingOK' /\ [Window!Next]_<<Contents, room # "none">>
  <2>1. RingOK' /\ Contents' = Contents
    BY <1>2 DEF RingOK, Contents
  <2>2. CASE room = "none"
    BY <1>2, <2>1, <2>2 DEF Opened, Window!Next, Window!Open
  <2>3. CASE room # "none"
    BY <1>1, <1>2, <2>3 DEF Opened
  <2> QED  BY <2>2, <2>3
<1>3. ASSUME PushTopicDataToQueue
      PROVE  RingOK' /\ [Window!Next]_<<Contents, room # "none">>
  <2>1. Push(Head(saved)) /\ room = "push" /\ room' # "none"
    BY <1>3 DEF PushTopicDataToQueue
  <2>2. /\ RingOK' /\ Contents' # <<>> /\ Contents'[Len(Contents')] = Head(saved)
        /\ Contents' = IF Len(Contents) < RingCap THEN Append(Contents, Head(saved))
                       ELSE Append(Tail(Contents), Head(saved))
    BY <2>1, PushWindow
  <2>3. Window!Add(Contents'[Len(Contents')])
    BY <2>1, <2>2 DEF Window!Add
  <2> QED  BY <2>2, <2>3 DEF Window!Next
<1>4. ASSUME Crash
      PROVE  RingOK' /\ [Window!Next]_<<Contents, room # "none">>
  <2>1. head' = 0 /\ tail' = 0 /\ topicQueue' = [i \in 0..RingCap |-> 0] /\ room' = "none"
    BY <1>4 DEF Crash
  <2>2. RingOK'
    BY <2>1, RingAssumption DEF RingOK
  <2>3. Contents' = <<>>
    BY <2>1, EmptyRing DEF Contents, Ring
  <2> QED  BY <2>1, <2>2, <2>3 DEF Window!Next, Window!Restart
<1>5. CASE UNCHANGED vars
  BY <1>1, <1>5 DEF vars
<1>6. ASSUME NEW k \in 1..2, RPC_Publish(k)
      PROVE  RingOK' /\ [Window!Next]_<<Contents, room # "none">>
  BY <1>2, <1>6 DEF RPC_Publish
<1>7. ASSUME NEW c \in Customers, NEW method \in Methods, RPC_Subscribe(c, method)
      PROVE  RingOK' /\ [Window!Next]_<<Contents, room # "none">>
  BY <1>2, <1>7 DEF RPC_Subscribe
<1>8. ASSUME OnRelease \/ Released \/ Drain \/ Persist \/ RoomStops \/ ClockTick
      PROVE  RingOK' /\ [Window!Next]_<<Contents, room # "none">>
  BY <1>1, <1>8 DEF OnRelease, Released, Drain, Persist, RoomStops, ClockTick
<1>9. ASSUME NEW n \in 0..MaxMsgs, PersistFails(n)
      PROVE  RingOK' /\ [Window!Next]_<<Contents, room # "none">>
  <2>1. room = "persist" /\ room' # "none" /\ ringVars' = ringVars
    BY <1>9 DEF PersistFails
  <2> QED  BY <1>1, <2>1
<1>10. ASSUME NEW i \in DOMAIN sub,
              \/ LoadLastIndex(i) \/ subscribe(i) \/ getCollectCount(i) \/ findTopicData(i)
              \/ StopsSending(i) \/ publishToCustomer(i) \/ AnswerLost(i) \/ PersistIndex(i)
              \/ removeCustomer(i)
       PROVE  RingOK' /\ [Window!Next]_<<Contents, room # "none">>
  <2>1. room' = room /\ ringVars' = ringVars
    BY <1>10 DEF LoadLastIndex, subscribe, getCollectCount, findTopicData, StopsSending,
                 publishToCustomer, AnswerLost, PersistIndex, removeCustomer, SubOnly
  <2> QED  BY <1>1, <2>1
<1>11. ASSUME NEW c \in Customers, Disconnect(c) \/ Connect(c)
       PROVE  RingOK' /\ [Window!Next]_<<Contents, room # "none">>
  BY <1>1, <1>11 DEF Disconnect, Connect
<1> QED
  BY <1>3, <1>4, <1>5, <1>6, <1>7, <1>8, <1>9, <1>10, <1>11 DEF Next

(* The memory queue implements the window on the messages pushed last      *)
(* (MemoryQueue.go, Push and the search's view of the ring): whatever the  *)
(* capacity, at every length, when the ring wraps, and over restarts of    *)
(* the service.                                                            *)
THEOREM RingImplementsWindow == Safety => RingIsWindow
<1>1. Init => RingOK /\ Window!Init
  <2> SUFFICES ASSUME Init PROVE RingOK /\ Window!Init
    OBVIOUS
  <2>1. head = 0 /\ tail = 0 /\ topicQueue = [i \in 0..RingCap |-> 0] /\ room = "none"
    BY DEF Init, Volatile, RingInit
  <2>2. RingOK
    BY <2>1, RingAssumption DEF RingOK
  <2>3. Contents = <<>>
    BY <2>1, EmptyRing DEF Contents, Ring
  <2> QED  BY <2>1, <2>2, <2>3 DEF Window!Init
<1> QED  BY <1>1, NextWindow, PTL DEF Safety, RingIsWindow, Window!Spec
-----------------------------------------------------------------------------
(* Deque, Queue and SQueue.                                                 *)

\* The slot i places after h in a ring of n slots, without a quotient.
PlaceAt(h, i, n) == IF h + i < n THEN h + i ELSE h + i - n
PlaceBefore(h, i, n) == IF h < i THEN h - i + n ELSE h - i

LEMMA PlaceFacts ==
  ASSUME NEW n \in Nat, NEW h \in 0..(n - 1)
  PROVE  /\ \A i \in 0..n : (h + i) % n = PlaceAt(h, i, n) /\ PlaceAt(h, i, n) \in 0..(n - 1)
         /\ \A i \in 0..n : (h - i) % n = PlaceBefore(h, i, n) /\ PlaceBefore(h, i, n) \in 0..(n - 1)
<1>1. \A m \in Nat : \A x \in 0..m, y \in 0..(m + 1) :
        (x + y) % (m + 1) = IF x + y < m + 1 THEN x + y ELSE x + y - (m + 1)
  OBVIOUS
<1>2. \A m \in Nat : \A x \in 0..m, y \in 0..(m + 1) :
        (x - y) % (m + 1) = IF x < y THEN x - y + (m + 1) ELSE x - y
  OBVIOUS
<1>3. n - 1 \in Nat /\ n = (n - 1) + 1
  OBVIOUS
<1>4. ASSUME NEW i \in 0..n PROVE (h + i) % n = PlaceAt(h, i, n) /\ PlaceAt(h, i, n) \in 0..(n - 1)
  <2>1. (h + i) % ((n - 1) + 1) = IF h + i < (n - 1) + 1 THEN h + i ELSE h + i - ((n - 1) + 1)
    BY <1>1, <1>3
  <2> QED  BY <1>3, <2>1 DEF PlaceAt
<1>5. ASSUME NEW i \in 0..n PROVE (h - i) % n = PlaceBefore(h, i, n) /\ PlaceBefore(h, i, n) \in 0..(n - 1)
  <2>1. (h - i) % ((n - 1) + 1) = IF h < i THEN h - i + ((n - 1) + 1) ELSE h - i
    BY <1>2, <1>3
  <2> QED  BY <1>3, <2>1 DEF PlaceBefore
<1> QED  BY <1>4, <1>5

LEMMA CapFacts ==
  ASSUME NEW r, NEW n \in Nat, DOMAIN r.buf = 0..(n - 1)
  PROVE  CapOf(r) = n
<1>1. Cardinality(0..(n - 1)) = IF 0 > n - 1 THEN 0 ELSE n - 1 - 0 + 1
  <2>1. 0 \in Int /\ n - 1 \in Int
    OBVIOUS
  <2> QED  BY <2>1, FS_Interval
<1> QED  BY <1>1 DEF CapOf

LEMMA StepFacts ==
  ASSUME NEW r, NEW n \in Nat, DOMAIN r.buf = 0..(n - 1), NEW i \in 0..(n - 1)
  PROVE  /\ next(r, i) = PlaceAt(i, 1, n) /\ next(r, i) \in 0..(n - 1)
         /\ prev(r, i) = PlaceBefore(i, 1, n) /\ prev(r, i) \in 0..(n - 1)
<1>1. CapOf(r) = n
  BY CapFacts
<1>2. 1 \in 0..n
  OBVIOUS
<1> QED  BY <1>1, <1>2, PlaceFacts DEF next, prev

\* The ring r of n slots holds the sequence s.
RingFields == {"buf", "head", "tail", "count"}
Shape(r, n) ==
  /\ DOMAIN r = RingFields /\ n \in Nat /\ DOMAIN r.buf = 0..(n - 1)
  /\ IF n = 0 THEN r.head = 0 /\ r.tail = 0 ELSE r.head \in 0..(n - 1)
Holds(r, s, n) ==
  /\ Shape(r, n) /\ s \in Seq(Elems) /\ r.count = Len(s) /\ Len(s) <= n
  /\ n > 0 => r.tail = PlaceAt(r.head, Len(s), n)
  /\ \A i \in 1..Len(s) : r.buf[PlaceAt(r.head, i - 1, n)] = s[i]

\* An element is put before the p-th, and the p-th is taken out.
LEMMA InsertAtFacts ==
  ASSUME NEW S, NEW s \in Seq(S), NEW e \in S, NEW p \in 1..(Len(s) + 1)
  PROVE  /\ InsertAt(s, p, e) \in Seq(S) /\ Len(InsertAt(s, p, e)) = Len(s) + 1
         /\ \A i \in 1..(Len(s) + 1) :
              InsertAt(s, p, e)[i] = IF i < p THEN s[i] ELSE IF i = p THEN e ELSE s[i - 1]
<1>1. Len(s) \in Nat /\ \A i \in 1..Len(s) : s[i] \in S
  BY LenProperties, ElementOfSeq
<1>2. PICK n, a, b, o, c : /\ n = Len(s) /\ a = SubSeq(s, 1, p - 1) /\ b = SubSeq(s, p, Len(s))
                           /\ o = <<e>> /\ c = a \o o
  OBVIOUS
<1>2a. n \in Nat /\ p \in Nat /\ 1 <= p /\ p <= n + 1
  <2>1. n \in Nat  BY <1>1, <1>2
  <2>2. p \in 1..(n + 1)  BY <1>2
  <2> QED  BY <2>1, <2>2
<1>3. a \in Seq(S) /\ Len(a) = p - 1 /\ \A i \in 1..(p - 1) : a[i] = s[i]
  <2>1. 1 \in Int /\ p - 1 \in Int /\ \A i \in 1..(p - 1) : s[i] \in S
    BY <1>1, <1>2, <1>2a
  <2>2. a \in Seq(S) /\ Len(a) = (IF 1 <= p - 1 THEN p - 1 - 1 + 1 ELSE 0)
        /\ \A i \in 1..(p - 1 - 1 + 1) : a[i] = s[1 + i - 1]
    BY <1>2, <2>1, SubSeqProperties
  <2> QED  BY <1>2a, <2>2
<1>4. b \in Seq(S) /\ Len(b) = n - p + 1 /\ \A i \in 1..(n - p + 1) : b[i] = s[p + i - 1]
  <2>1. p \in Int /\ n \in Int /\ \A i \in p..n : s[i] \in S
    BY <1>1, <1>2, <1>2a
  <2>2. b \in Seq(S) /\ Len(b) = (IF p <= n THEN n - p + 1 ELSE 0)
        /\ \A i \in 1..(n - p + 1) : b[i] = s[p + i - 1]
    BY <1>2, <2>1, SubSeqProperties
  <2> QED  BY <1>2a, <2>2
<1>5. o \in Seq(S) /\ Len(o) = 1 /\ o[1] = e
  BY <1>2
<1>6. c \in Seq(S) /\ Len(c) = p /\ \A i \in 1..p : c[i] = IF i < p THEN s[i] ELSE e
  <2>1. c \in Seq(S) /\ Len(c) = Len(a) + Len(o)
        /\ \A i \in 1..(Len(a) + Len(o)) : c[i] = IF i <= Len(a) THEN a[i] ELSE o[i - Len(a)]
    BY <1>2, <1>3, <1>5, ConcatProperties
  <2>2. Len(c) = p
    BY <1>2a, <1>3, <1>5, <2>1
  <2>3. ASSUME NEW i \in 1..p PROVE c[i] = IF i < p THEN s[i] ELSE e
    <3>1. c[i] = IF i <= p - 1 THEN a[i] ELSE o[i - (p - 1)]
      BY <1>2a, <1>3, <1>5, <2>1
    <3>2. CASE i < p
      BY <1>2a, <1>3, <3>1, <3>2
    <3>3. CASE i = p
      BY <1>2a, <1>5, <3>1, <3>3
    <3> QED  BY <1>2a, <3>2, <3>3
  <2> QED  BY <2>1, <2>2, <2>3
<1>7. InsertAt(s, p, e) = c \o b
  BY <1>2 DEF InsertAt
<1>8. c \o b \in Seq(S) /\ Len(c \o b) = Len(c) + Len(b)
      /\ \A i \in 1..(Len(c) + Len(b)) : (c \o b)[i] = IF i <= Len(c) THEN c[i] ELSE b[i - Len(c)]
  BY <1>4, <1>6, ConcatProperties
<1>9. Len(c) + Len(b) = n + 1
  BY <1>2a, <1>4, <1>6
<1>10. ASSUME NEW i \in 1..(n + 1)
       PROVE  (c \o b)[i] = IF i < p THEN s[i] ELSE IF i = p THEN e ELSE s[i - 1]
  <2>1. (c \o b)[i] = IF i <= p THEN c[i] ELSE b[i - p]
    BY <1>2a, <1>6, <1>8, <1>9
  <2>1a. i <= p \/ i > p
    BY <1>2a
  <2>2. CASE i <= p
    BY <1>2a, <1>6, <2>1, <2>2
  <2>3. CASE i > p
    <3>1. i - p \in 1..(n - p + 1) /\ p + (i - p) - 1 = i - 1
      BY <1>2a, <2>3
    <3>2. b[i - p] = s[i - 1]
      BY <1>4, <3>1
    <3> QED  BY <1>2a, <2>1, <2>3, <3>2
  <2> QED  BY <2>1a, <2>2, <2>3
<1> QED  BY <1>2, <1>7, <1>8, <1>9, <1>10

LEMMA RemoveAtFacts ==
  ASSUME NEW S, NEW s \in Seq(S), NEW p \in 1..Len(s)
  PROVE  /\ RemoveAt(s, p) \in Seq(S) /\ Len(RemoveAt(s, p)) = Len(s) - 1
         /\ \A i \in 1..(Len(s) - 1) : RemoveAt(s, p)[i] = IF i < p THEN s[i] ELSE s[i + 1]
<1>1. Len(s) \in Nat /\ \A i \in 1..Len(s) : s[i] \in S
  BY LenProperties, ElementOfSeq
<1>2. PICK n, a, b : n = Len(s) /\ a = SubSeq(s, 1, p - 1) /\ b = SubSeq(s, p + 1, Len(s))
  OBVIOUS
<1>2a. n \in Nat /\ p \in Nat /\ 1 <= p /\ p <= n
  <2>1. n \in Nat  BY <1>1, <1>2
  <2>2. p \in 1..n  BY <1>2
  <2> QED  BY <2>1, <2>2
<1>3. a \in Seq(S) /\ Len(a) = p - 1 /\ \A i \in 1..(p - 1) : a[i] = s[i]
  <2>1. 1 \in Int /\ p - 1 \in Int /\ \A i \in 1..(p - 1) : s[i] \in S
    BY <1>1, <1>2, <1>2a
  <2>2. a \in Seq(S) /\ Len(a) = (IF 1 <= p - 1 THEN p - 1 - 1 + 1 ELSE 0)
        /\ \A i \in 1..(p - 1 - 1 + 1) : a[i] = s[1 + i - 1]
    BY <1>2, <2>1, SubSeqProperties
  <2> QED  BY <1>2a, <2>2
<1>4. b \in Seq(S) /\ Len(b) = n - p /\ \A i \in 1..(n - p) : b[i] = s[p + i]
  <2>1. p + 1 \in Int /\ n \in Int /\ \A i \in (p + 1)..n : s[i] \in S
    BY <1>1, <1>2, <1>2a
  <2>2. b \in Seq(S) /\ Len(b) = (IF p + 1 <= n THEN n - (p + 1) + 1 ELSE 0)
        /\ \A i \in 1..(n - (p + 1) + 1) : b[i] = s[(p + 1) + i - 1]
    BY <1>2, <2>1, SubSeqProperties
  <2> QED  BY <1>2a, <2>2
<1>5. RemoveAt(s, p) = a \o b
  BY <1>2 DEF RemoveAt
<1>6. a \o b \in Seq(S) /\ Len(a \o b) = Len(a) + Len(b)
      /\ \A i \in 1..(Len(a) + Len(b)) : (a \o b)[i] = IF i <= Len(a) THEN a[i] ELSE b[i - Len(a)]
  BY <1>3, <1>4, ConcatProperties
<1>7. Len(a) + Len(b) = n - 1
  BY <1>2a, <1>3, <1>4
<1>8. ASSUME NEW i \in 1..(n - 1)
      PROVE  (a \o b)[i] = IF i < p THEN s[i] ELSE s[i + 1]
  <2>1. (a \o b)[i] = IF i <= p - 1 THEN a[i] ELSE b[i - (p - 1)]
    BY <1>2a, <1>3, <1>6, <1>7
  <2>1a. i < p \/ i >= p
    BY <1>2a
  <2>2. CASE i < p
    BY <1>2a, <1>3, <2>1, <2>2
  <2>3. CASE i >= p
    <3>1. i - (p - 1) \in 1..(n - p) /\ p + (i - (p - 1)) = i + 1
      BY <1>2a, <2>3
    <3>2. b[i - (p - 1)] = s[i + 1]
      BY <1>4, <3>1
    <3> QED  BY <1>2a, <2>1, <2>3, <3>2
  <2> QED  BY <2>1a, <2>2, <2>3
<1> QED  BY <1>2, <1>5, <1>6, <1>7, <1>8


LEMMA HoldsFacts ==
  ASSUME NEW r, NEW s, NEW n, Holds(r, s, n)
  PROVE  /\ n \in Nat /\ Len(s) \in Nat /\ CapOf(r) = n
         /\ n > 0 => r.head \in 0..(n - 1) /\ r.tail \in 0..(n - 1)
<1>1. n \in Nat /\ Len(s) \in Nat /\ CapOf(r) = n /\ Len(s) <= n
  BY CapFacts, LenProperties DEF Holds, Shape
<1>2. ASSUME n > 0 PROVE r.head \in 0..(n - 1) /\ r.tail \in 0..(n - 1)
  <2>1. r.head \in 0..(n - 1) /\ r.tail = PlaceAt(r.head, Len(s), n)
    BY <1>1, <1>2 DEF Holds, Shape
  <2>2. Len(s) \in 0..n
    BY <1>1
  <2> QED  BY <1>1, <2>1, <2>2, PlaceFacts
<1> QED  BY <1>1, <1>2

\* The elements are copied to the start of a buffer twice their number.
LEMMA ResizeFacts ==
  ASSUME NEW r, NEW s, NEW n, Holds(r, s, n), Len(s) > 0
  PROVE  Holds(resize(r), s, 2 * Len(s))
<1>1. PICK c, h, t, m, b : c = resize(r) /\ h = r.head /\ t = r.tail /\ m = Len(s) /\ b = c.buf
  OBVIOUS
<1>2. n \in Nat /\ m \in Nat /\ m > 0 /\ m <= n /\ h \in 0..(n - 1) /\ CapOf(r) = n /\ r.count = m
  BY <1>1, HoldsFacts DEF Holds
<1>3. t = IF h + m < n THEN h + m ELSE h + m - n
  BY <1>1, <1>2 DEF Holds, PlaceAt
<1>4. /\ DOMAIN c = RingFields /\ c.head = 0 /\ c.tail = m /\ c.count = m
      /\ b = [i \in 0..(2 * m - 1) |->
                IF i < (IF t > h THEN t - h ELSE n - h) THEN r.buf[h + i]
                ELSE IF ~(t > h) /\ i - (IF t > h THEN t - h ELSE n - h) < t
                     THEN r.buf[i - (IF t > h THEN t - h ELSE n - h)] ELSE Zero]
  BY <1>1, <1>2 DEF resize, RingFields
<1>5. ASSUME NEW i \in 1..m PROVE b[i - 1] = s[i]
  <2>1. i - 1 \in 0..(2 * m - 1)
    BY <1>2
  <2>2. s[i] = r.buf[IF h + (i - 1) < n THEN h + (i - 1) ELSE h + (i - 1) - n]
    BY <1>1 DEF Holds, PlaceAt
  <2>3. CASE t > h
    <3>1. t - h = m /\ h + (i - 1) < n /\ i - 1 < t - h
      BY <1>2, <1>3, <2>3
    <3> QED  BY <1>4, <2>1, <2>2, <2>3, <3>1
  <2>4. CASE ~(t > h)
    <3>1. h + m >= n /\ t = h + m - n
      BY <1>2, <1>3, <2>4
    <3>2. CASE i - 1 < n - h
      <4>1. h + (i - 1) < n
        BY <1>2, <3>2
      <4> QED  BY <1>4, <2>1, <2>2, <2>4, <3>2, <4>1
    <3>3. CASE ~(i - 1 < n - h)
      <4>1. ~(h + (i - 1) < n) /\ (i - 1) - (n - h) < t /\ (i - 1) - (n - h) = h + (i - 1) - n
        BY <1>2, <3>1, <3>3
      <4> QED  BY <1>4, <2>1, <2>2, <2>4, <3>3, <4>1
    <3> QED  BY <3>2, <3>3
  <2> QED  BY <2>3, <2>4
<1>6. 2 * m \in Nat /\ 2 * m > 0 /\ m <= 2 * m /\ 0 \in 0..(2 * m - 1) /\ 0 + m < 2 * m
  BY <1>2
<1>7. PlaceAt(0, m, 2 * m) = m
  BY <1>2, <1>6 DEF PlaceAt
<1>8. ASSUME NEW i \in 1..m PROVE PlaceAt(0, i - 1, 2 * m) = i - 1
  BY <1>2 DEF PlaceAt
<1>9. DOMAIN b = 0..(2 * m - 1)
  BY <1>4
<1>10. Shape(c, 2 * m)
  BY <1>1, <1>4, <1>6, <1>9 DEF Shape
<1>11. s \in Seq(Elems) /\ c.count = Len(s) /\ Len(s) <= 2 * m /\ c.tail = PlaceAt(c.head, Len(s), 2 * m)
  BY <1>1, <1>4, <1>6, <1>7 DEF Holds
<1>12. ASSUME NEW i \in 1..Len(s) PROVE c.buf[PlaceAt(c.head, i - 1, 2 * m)] = s[i]
  BY <1>1, <1>4, <1>5, <1>8
<1>13. Holds(c, s, 2 * m)
  BY <1>10, <1>11, <1>12 DEF Holds
<1> QED  BY <1>1, <1>13

\* A ring has room for one more after growIfFull, and keeps its elements in both.
LEMMA GrowFacts ==
  ASSUME NEW r, NEW s, NEW n, Holds(r, s, n)
  PROVE  \E m \in Nat : Holds(growIfFull(r), s, m) /\ Len(s) < m
<1>1. n \in Nat /\ Len(s) \in Nat /\ CapOf(r) = n /\ r.count = Len(s) /\ Len(s) <= n
  BY HoldsFacts DEF Holds
<1>2. CASE Len(s) # n
  <2>1. growIfFull(r) = r /\ Len(s) < n
    BY <1>1, <1>2 DEF growIfFull
  <2> QED  BY <1>1, <2>1
<1>3. CASE Len(s) = n /\ n = 0
  <2>1. growIfFull(r) = [r EXCEPT !.buf = Blank(MinCapacity)]
    BY <1>1, <1>3 DEF growIfFull
  <2>2. MinCapacity \in Nat /\ MinCapacity > 0
    BY DequeAssumption
  <2>3. PICK c : c = growIfFull(r)
    OBVIOUS
  <2>4. /\ DOMAIN c = RingFields /\ DOMAIN c.buf = 0..(MinCapacity - 1)
        /\ c.head = 0 /\ c.tail = 0 /\ c.count = 0
    BY <1>1, <1>3, <2>1, <2>3 DEF Holds, Shape, RingFields, Blank
  <2>5. Shape(c, MinCapacity)
    BY <2>2, <2>4 DEF Shape
  <2>6. PlaceAt(0, 0, MinCapacity) = 0
    BY <2>2 DEF PlaceAt
  <2>7. Holds(c, s, MinCapacity)
    BY <1>1, <1>3, <2>2, <2>4, <2>5, <2>6 DEF Holds
  <2> QED  BY <1>3, <2>2, <2>3, <2>7
<1>4. CASE Len(s) = n /\ n # 0
  <2>1. growIfFull(r) = resize(r) /\ Len(s) > 0
    BY <1>1, <1>4 DEF growIfFull
  <2>2. Holds(resize(r), s, 2 * Len(s))
    BY <2>1, ResizeFacts
  <2>3. 2 * Len(s) \in Nat /\ Len(s) < 2 * Len(s)
    BY <1>1, <2>1
  <2> QED  BY <2>1, <2>2, <2>3
<1> QED  BY <1>2, <1>3, <1>4

LEMMA ShrinkFacts ==
  ASSUME NEW r, NEW s, NEW n, Holds(r, s, n), n > 0
  PROVE  \E m \in Nat : Holds(shrinkIfExcess(r), s, m) /\ m > 0
<1>1. n \in Nat /\ Len(s) \in Nat /\ CapOf(r) = n /\ r.count = Len(s)
  BY HoldsFacts DEF Holds
<1>2. CASE n > MinCapacity /\ Len(s) * 4 = n
  <2>1. shrinkIfExcess(r) = resize(r) /\ Len(s) > 0
    BY <1>1, <1>2 DEF shrinkIfExcess
  <2>2. Holds(resize(r), s, 2 * Len(s))
    BY <2>1, ResizeFacts
  <2>3. 2 * Len(s) \in Nat /\ 2 * Len(s) > 0
    BY <1>1, <2>1
  <2> QED  BY <2>1, <2>2, <2>3
<1>3. CASE ~(n > MinCapacity /\ Len(s) * 4 = n)
  <2>1. shrinkIfExcess(r) = r
    BY <1>1, <1>3 DEF shrinkIfExcess
  <2> QED  BY <1>1, <2>1
<1> QED  BY <1>2, <1>3

\* Slot i from the head before or after h is slot i + 1 or i - 1 from h.
LEMMA PlacesShift ==
  ASSUME NEW n \in Nat, NEW h \in 0..(n - 1), NEW i \in 0..(n - 1)
  PROVE  /\ PlaceAt(PlaceAt(h, 1, n), i, n) = PlaceAt(h, i + 1, n)
         /\ PlaceAt(PlaceBefore(h, 1, n), i + 1, n) = PlaceAt(h, i, n)
         /\ PlaceAt(PlaceBefore(h, 1, n), 0, n) = PlaceBefore(h, 1, n)
         /\ PlaceAt(PlaceAt(h, i, n), 1, n) = PlaceAt(h, i + 1, n)
         /\ PlaceBefore(PlaceAt(h, i + 1, n), 1, n) = PlaceAt(h, i, n)
         /\ PlaceAt(h, 0, n) = h
<1>1. PlaceAt(PlaceAt(h, 1, n), i, n) = PlaceAt(h, i + 1, n)
  BY DEF PlaceAt
<1>2. PlaceAt(PlaceBefore(h, 1, n), i + 1, n) = PlaceAt(h, i, n)
  BY DEF PlaceAt, PlaceBefore
<1>3. PlaceAt(PlaceBefore(h, 1, n), 0, n) = PlaceBefore(h, 1, n)
  BY DEF PlaceAt, PlaceBefore
<1>4. PlaceAt(PlaceAt(h, i, n), 1, n) = PlaceAt(h, i + 1, n)
  BY DEF PlaceAt
<1>5. PlaceBefore(PlaceAt(h, i + 1, n), 1, n) = PlaceAt(h, i, n)
  BY DEF PlaceAt, PlaceBefore
<1>6. PlaceAt(h, 0, n) = h
  BY DEF PlaceAt
<1> QED  BY <1>1, <1>2, <1>3, <1>4, <1>5, <1>6

\* An element is written to the tail, and the tail moves on.
LEMMA AddBack ==
  ASSUME NEW r, NEW s, NEW n, Holds(r, s, n), Len(s) < n, NEW e, NEW t \in Seq(Elems),
         Len(t) = Len(s) + 1, \A i \in 1..Len(s) : t[i] = s[i], t[Len(s) + 1] = e
  PROVE  Holds([r EXCEPT !.buf[r.tail] = e, !.tail = next(r, r.tail), !.count = @ + 1], t, n)
<1>1. PICK h, m, b, c : /\ h = r.head /\ m = Len(s) /\ b = [r.buf EXCEPT ![r.tail] = e]
                        /\ c = [r EXCEPT !.buf = b, !.tail = next(r, r.tail), !.count = @ + 1]
  OBVIOUS
<1>2. n \in Nat /\ m \in Nat /\ m < n /\ h \in 0..(n - 1) /\ r.tail = PlaceAt(h, m, n) /\ r.tail \in 0..(n - 1)
  BY <1>1, HoldsFacts DEF Holds
<1>3. DOMAIN r.buf = 0..(n - 1) /\ DOMAIN r = RingFields /\ r.count = m
  BY <1>1 DEF Holds, Shape
<1>4. next(r, r.tail) = PlaceAt(h, m + 1, n)
  <2>1. next(r, r.tail) = PlaceAt(r.tail, 1, n)
    BY <1>2, <1>3, StepFacts
  <2>2. m \in 0..(n - 1)
    BY <1>2
  <2>3. PlaceAt(PlaceAt(h, m, n), 1, n) = PlaceAt(h, m + 1, n)
    BY <1>2, <2>2 DEF PlaceAt
  <2> QED  BY <1>2, <2>1, <2>3
<1>5. DOMAIN c = RingFields /\ c.buf = b /\ c.head = h /\ c.tail = PlaceAt(h, m + 1, n) /\ c.count = m + 1
  BY <1>1, <1>3, <1>4 DEF RingFields
<1>6. DOMAIN b = 0..(n - 1) /\ b[r.tail] = e /\ \A i \in 0..(n - 1) : i # r.tail => b[i] = r.buf[i]
  BY <1>1, <1>2, <1>3
<1>7. ASSUME NEW i \in 1..(m + 1) PROVE b[PlaceAt(h, i - 1, n)] = t[i]
  <2>1. CASE i = m + 1
    <3>1. i - 1 = m
      BY <1>2, <2>1
    <3> QED  BY <1>1, <1>2, <1>6, <2>1, <3>1
  <2>2. CASE i # m + 1
    <3>1. i \in 1..m /\ i - 1 \in 0..n /\ m \in 0..n /\ i - 1 # m /\ ~(i - 1 = 0 /\ m = n) /\ ~(i - 1 = n /\ m = 0)
      BY <1>2, <2>2
    <3>2. PlaceAt(h, i - 1, n) # PlaceAt(h, m, n) /\ PlaceAt(h, i - 1, n) \in 0..(n - 1)
      BY <1>2, <3>1 DEF PlaceAt
    <3>3. r.buf[PlaceAt(h, i - 1, n)] = s[i]
      BY <1>1, <3>1 DEF Holds
    <3> QED  BY <1>1, <1>2, <1>6, <3>1, <3>2, <3>3
  <2> QED  BY <2>1, <2>2
<1>8. Shape(c, n)
  BY <1>2, <1>5, <1>6 DEF Shape
<1>9. Holds(c, t, n)
  <2>1. m + 1 <= n /\ Len(t) = m + 1
    BY <1>1, <1>2
  <2> QED  BY <1>5, <1>7, <1>8, <2>1 DEF Holds
<1> QED  BY <1>1, <1>9

\* The head moves back, and an element is written there.
LEMMA AddFront ==
  ASSUME NEW r, NEW s, NEW n, Holds(r, s, n), Len(s) < n, NEW e, NEW t \in Seq(Elems),
         Len(t) = Len(s) + 1, \A i \in 1..Len(s) : t[i + 1] = s[i], t[1] = e, NEW h, h = prev(r, r.head)
  PROVE  Holds([r EXCEPT !.head = h, !.buf[h] = e, !.count = @ + 1], t, n)
<1>1. PICK g, m, b, c : /\ g = r.head /\ m = Len(s) /\ b = [r.buf EXCEPT ![h] = e]
                        /\ c = [r EXCEPT !.head = h, !.buf = b, !.count = @ + 1]
  OBVIOUS
<1>2. n \in Nat /\ m \in Nat /\ m < n /\ g \in 0..(n - 1) /\ r.tail = PlaceAt(g, m, n)
  BY <1>1, HoldsFacts DEF Holds
<1>3. DOMAIN r.buf = 0..(n - 1) /\ DOMAIN r = RingFields /\ r.count = m
  BY <1>1 DEF Holds, Shape
<1>4. h = PlaceBefore(g, 1, n) /\ h \in 0..(n - 1)
  BY <1>1, <1>2, <1>3, StepFacts
<1>5. DOMAIN c = RingFields /\ c.buf = b /\ c.head = h /\ c.tail = r.tail /\ c.count = m + 1
  BY <1>1, <1>3 DEF RingFields
<1>6. DOMAIN b = 0..(n - 1) /\ b[h] = e /\ \A i \in 0..(n - 1) : i # h => b[i] = r.buf[i]
  BY <1>1, <1>3, <1>4
<1>7. c.tail = PlaceAt(h, m + 1, n)
  <2>1. m \in 0..(n - 1)
    BY <1>2
  <2> QED  BY <1>2, <1>4, <1>5, <2>1, PlacesShift
<1>8. ASSUME NEW i \in 1..(m + 1) PROVE b[PlaceAt(h, i - 1, n)] = t[i]
  <2>1. CASE i = 1
    <3>1. PlaceAt(h, i - 1, n) = h
      BY <1>2, <1>4, <2>1 DEF PlaceAt
    <3> QED  BY <1>6, <2>1, <3>1
  <2>2. CASE i # 1
    <3>1. i - 1 \in 1..m /\ (i - 1) + 1 = i /\ i - 2 \in 0..(n - 1) /\ (i - 2) + 1 = i - 1 /\ (i - 1) - 1 = i - 2
      BY <1>2, <2>2
    <3>2. PlaceAt(h, i - 1, n) = PlaceAt(g, i - 2, n)
      BY <1>2, <1>4, <3>1, PlacesShift
    <3>3. r.buf[PlaceAt(g, i - 2, n)] = s[i - 1]
      BY <1>1, <3>1 DEF Holds
    <3>4. PlaceAt(h, i - 1, n) # h /\ PlaceAt(h, i - 1, n) \in 0..(n - 1)
      BY <1>2, <1>4, <3>1 DEF PlaceAt
    <3>5. t[i] = s[i - 1]
      BY <1>1, <3>1
    <3> QED  BY <1>6, <3>2, <3>3, <3>4, <3>5
  <2> QED  BY <2>1, <2>2
<1>9. Shape(c, n)
  BY <1>2, <1>4, <1>5, <1>6 DEF Shape
<1>10. Holds(c, t, n)
  <2>1. m + 1 <= n /\ Len(t) = m + 1
    BY <1>1, <1>2
  <2> QED  BY <1>5, <1>7, <1>8, <1>9, <2>1 DEF Holds
<1> QED  BY <1>1, <1>10

\* The first element is taken.
LEMMA TakeFront ==
  ASSUME NEW r, NEW s, NEW n, Holds(r, s, n), Len(s) > 0, NEW t \in Seq(Elems),
         Len(t) = Len(s) - 1, \A i \in 1..Len(t) : t[i] = s[i + 1]
  PROVE  /\ n > 0
         /\ Holds([r EXCEPT !.buf[r.head] = Zero, !.head = next(r, r.head), !.count = @ - 1], t, n)
<1>1. PICK h, g, m, b, c : /\ h = r.head /\ g = next(r, h) /\ m = Len(s) /\ b = [r.buf EXCEPT ![h] = Zero]
                           /\ c = [r EXCEPT !.buf = b, !.head = g, !.count = @ - 1]
  OBVIOUS
<1>2. n \in Nat /\ m \in Nat /\ m > 0 /\ m <= n /\ h \in 0..(n - 1) /\ r.tail = PlaceAt(h, m, n)
  BY <1>1, HoldsFacts DEF Holds
<1>3. DOMAIN r.buf = 0..(n - 1) /\ DOMAIN r = RingFields /\ r.count = m
  BY <1>1 DEF Holds, Shape
<1>4. g = PlaceAt(h, 1, n) /\ g \in 0..(n - 1)
  BY <1>1, <1>2, <1>3, StepFacts
<1>5. DOMAIN c = RingFields /\ c.buf = b /\ c.head = g /\ c.tail = r.tail /\ c.count = m - 1
  BY <1>1, <1>3 DEF RingFields
<1>6. DOMAIN b = 0..(n - 1) /\ \A i \in 0..(n - 1) : i # h => b[i] = r.buf[i]
  BY <1>1, <1>3
<1>7. c.tail = PlaceAt(g, m - 1, n)
  <2>1. m - 1 \in 0..(n - 1) /\ (m - 1) + 1 = m
    BY <1>2
  <2> QED  BY <1>2, <1>4, <1>5, <2>1, PlacesShift
<1>8. ASSUME NEW i \in 1..(m - 1) PROVE b[PlaceAt(g, i - 1, n)] = t[i]
  <2>1. i - 1 \in 0..(n - 1) /\ (i - 1) + 1 = i /\ i \in 0..n /\ i # 0 /\ i # n /\ i + 1 \in 1..m /\ (i + 1) - 1 = i
    BY <1>2
  <2>2. PlaceAt(g, i - 1, n) = PlaceAt(h, i, n)
    BY <1>2, <1>4, <2>1, PlacesShift
  <2>3. r.buf[PlaceAt(h, i, n)] = s[i + 1]
    BY <1>1, <2>1 DEF Holds
  <2>4. PlaceAt(h, i, n) # h /\ PlaceAt(h, i, n) \in 0..(n - 1)
    <3>1. i \in 1..(n - 1)
      BY <1>2
    <3>2. n \in Nat /\ h \in 0..(n - 1)
      BY <1>2
    <3> QED  BY <3>1, <3>2 DEF PlaceAt
  <2>5. t[i] = s[i + 1]
    BY <1>1
  <2> QED  BY <1>6, <2>2, <2>3, <2>4, <2>5
<1>9. Shape(c, n)
  BY <1>2, <1>4, <1>5, <1>6 DEF Shape
<1>10. Holds(c, t, n)
  <2>1. m - 1 <= n /\ Len(t) = m - 1
    BY <1>1, <1>2
  <2> QED  BY <1>5, <1>7, <1>8, <1>9, <2>1 DEF Holds
<1> QED  BY <1>1, <1>2, <1>10

\* The last element is taken.
LEMMA TakeBack ==
  ASSUME NEW r, NEW s, NEW n, Holds(r, s, n), Len(s) > 0, NEW t \in Seq(Elems),
         Len(t) = Len(s) - 1, \A i \in 1..Len(t) : t[i] = s[i], NEW g, g = prev(r, r.tail)
  PROVE  /\ n > 0
         /\ Holds([r EXCEPT !.tail = g, !.buf[g] = Zero, !.count = @ - 1], t, n)
<1>1. PICK h, m, b, c : /\ h = r.head /\ m = Len(s) /\ b = [r.buf EXCEPT ![g] = Zero]
                        /\ c = [r EXCEPT !.tail = g, !.buf = b, !.count = @ - 1]
  OBVIOUS
<1>2. /\ n \in Nat /\ m \in Nat /\ m > 0 /\ m <= n /\ h \in 0..(n - 1)
      /\ r.tail = PlaceAt(h, m, n) /\ r.tail \in 0..(n - 1)
  BY <1>1, HoldsFacts DEF Holds
<1>3. DOMAIN r.buf = 0..(n - 1) /\ DOMAIN r = RingFields /\ r.count = m
  BY <1>1 DEF Holds, Shape
<1>4. g = PlaceAt(h, m - 1, n)
  <2>1. g = PlaceBefore(r.tail, 1, n)
    BY <1>2, <1>3, StepFacts
  <2>2. m - 1 \in 0..(n - 1) /\ (m - 1) + 1 = m
    BY <1>2
  <2> QED  BY <1>2, <2>1, <2>2, PlacesShift
<1>5. DOMAIN c = RingFields /\ c.buf = b /\ c.head = h /\ c.tail = g /\ c.count = m - 1
  BY <1>1, <1>3 DEF RingFields
<1>6. DOMAIN b = 0..(n - 1) /\ \A i \in 0..(n - 1) : i # g => b[i] = r.buf[i]
  BY <1>1, <1>3
<1>7. ASSUME NEW i \in 1..(m - 1) PROVE b[PlaceAt(h, i - 1, n)] = t[i]
  <2>1. /\ i - 1 \in 0..n /\ m - 1 \in 0..n /\ i - 1 # m - 1 /\ i \in 1..m
        /\ ~(i - 1 = 0 /\ m - 1 = n) /\ ~(i - 1 = n /\ m - 1 = 0)
    BY <1>2
  <2>2. PlaceAt(h, i - 1, n) # g /\ PlaceAt(h, i - 1, n) \in 0..(n - 1)
    BY <1>2, <1>4, <2>1 DEF PlaceAt
  <2>3. r.buf[PlaceAt(h, i - 1, n)] = s[i]
    BY <1>1, <2>1 DEF Holds
  <2>4. t[i] = s[i]
    BY <1>1
  <2> QED  BY <1>6, <2>2, <2>3, <2>4
<1>8. Shape(c, n)
  BY <1>2, <1>5, <1>6 DEF Shape
<1>9. Holds(c, t, n)
  <2>1. m - 1 <= n /\ Len(t) = m - 1
    BY <1>1, <1>2
  <2> QED  BY <1>2, <1>4, <1>5, <1>7, <1>8, <2>1 DEF Holds
<1> QED  BY <1>1, <1>2, <1>9
-----------------------------------------------------------------------------
\* An SQueue of n slots holds items after its head, and the cursor has yielded
\* all of them but rest.
SHolds(r, s, n) ==
  /\ DOMAIN r = RingFields /\ n \in Nat /\ DOMAIN r.buf = 0..(n - 1) /\ r.head \in 0..(n - 1)
  /\ s \in Seq(Elems) /\ Len(s) < n /\ r.tail = PlaceAt(r.head, Len(s), n)
  /\ \A i \in 1..Len(s) : r.buf[PlaceAt(r.head, i, n)] = s[i]
CursorAt(c, r, s, n) ==
  /\ DOMAIN c = {"pos", "rest"} /\ c.rest \in Seq(Elems) /\ Len(c.rest) <= Len(s)
  /\ c.pos = PlaceAt(r.head, Len(s) - Len(c.rest), n)
  /\ \A i \in 1..Len(c.rest) : c.rest[i] = s[Len(s) - Len(c.rest) + i]

\* The sequence s is start after some rounds of Rotate, is rest with e at p.
TurnedTo(s, start, k, right) ==
  /\ start \in Seq(Elems) /\ Len(s) = Len(start)
  /\ \A i \in 1..Len(s) : s[i] = Rotated(start, k, right)[i]
MovedTo(s, rest, p, e) ==
  /\ rest \in Seq(Elems) /\ Len(s) = Len(rest) + 1 /\ p \in 1..Len(s) /\ e \in Elems
  /\ \A i \in 1..Len(s) : s[i] = IF i < p THEN rest[i] ELSE IF i = p THEN e ELSE rest[i - 1]

LoopInv(l, s, n) ==
  \/ l = NoLoop
  \/ /\ DOMAIN l = {"op", "right", "base", "done", "goal"} /\ l.op = "turn" /\ l.right \in BOOLEAN
     /\ l.done \in Nat /\ l.goal \in Nat /\ l.done < l.goal /\ l.goal < Len(s) /\ Len(s) < n
     /\ TurnedTo(s, l.base, l.done, l.right)
  \/ /\ DOMAIN l = {"op", "elem", "rest", "pos", "goal", "then"} /\ l.op = "move" /\ l.goal \in 1..Len(s)
     /\ MovedTo(s, l.rest, l.pos, l.elem)
     /\ \/ l.then = "stays" /\ l.pos # l.goal
        \/ l.then = "popFront" /\ l.goal = 1
        \/ l.then = "popBack" /\ l.goal = Len(s)

DequeInv ==
  \/ /\ kind = "squeue" /\ loop = NoLoop
     /\ SHolds(q, items, MaxLength + 1) /\ CursorAt(cursor, q, items, MaxLength + 1)
  \/ kind = "queue" /\ loop = NoLoop /\ \E n \in Nat : n > 0 /\ Holds(q, items, n)
  \/ kind = "deque" /\ \E n \in Nat : Holds(q, items, n) /\ LoopInv(loop, items, n)
-----------------------------------------------------------------------------
\* What the operations make of a ring that holds s: t is what users then see.
AddedBack(s, t, e) == t \in Seq(Elems) /\ Len(t) = Len(s) + 1 /\ t[Len(s) + 1] = e /\ \A i \in 1..Len(s) : t[i] = s[i]
AddedFront(s, t, e) == t \in Seq(Elems) /\ Len(t) = Len(s) + 1 /\ t[1] = e /\ \A i \in 1..Len(s) : t[i + 1] = s[i]
TakenFront(s, t) == t \in Seq(Elems) /\ Len(s) > 0 /\ Len(t) = Len(s) - 1 /\ \A i \in 1..Len(t) : t[i] = s[i + 1]
TakenBack(s, t) == t \in Seq(Elems) /\ Len(s) > 0 /\ Len(t) = Len(s) - 1 /\ \A i \in 1..Len(t) : t[i] = s[i]
HeldBy(r, s) == \E m \in Nat : m > 0 /\ Holds(r, s, m)

LEMMA PushedBackFacts ==
  ASSUME NEW r, NEW s, NEW n, Holds(r, s, n), NEW e, NEW t, AddedBack(s, t, e)
  PROVE  HeldBy(PushedBack(r, e), t)
<1>0. PICK c : c = growIfFull(r)
  OBVIOUS
<1>1. PICK m \in Nat : Holds(c, s, m) /\ Len(s) < m
  BY <1>0, GrowFacts
<1>2. Holds([c EXCEPT !.buf[c.tail] = e, !.tail = next(c, c.tail), !.count = @ + 1], t, m)
  BY <1>1, AddBack DEF AddedBack
<1>3. m > 0
  BY <1>1, HoldsFacts
<1> QED  BY <1>0, <1>1, <1>2, <1>3 DEF PushedBack, HeldBy

LEMMA PushedFrontFacts ==
  ASSUME NEW r, NEW s, NEW n, Holds(r, s, n), NEW e, NEW t, AddedFront(s, t, e)
  PROVE  HeldBy(PushedFront(r, e), t)
<1>0. PICK c : c = growIfFull(r)
  OBVIOUS
<1>1. PICK m \in Nat : Holds(c, s, m) /\ Len(s) < m
  BY <1>0, GrowFacts
<1>2. PICK h : h = prev(c, c.head)
  OBVIOUS
<1>3. Holds([c EXCEPT !.head = h, !.buf[h] = e, !.count = @ + 1], t, m)
  BY <1>1, <1>2, AddFront DEF AddedFront
<1>4. m > 0
  BY <1>1, HoldsFacts
<1> QED  BY <1>0, <1>1, <1>2, <1>3, <1>4 DEF PushedFront, HeldBy

LEMMA PoppedFrontFacts ==
  ASSUME NEW r, NEW s, NEW n, Holds(r, s, n), NEW t, TakenFront(s, t)
  PROVE  HeldBy(PoppedFront(r), t)
<1>1. PICK c : c = [r EXCEPT !.buf[r.head] = Zero, !.head = next(r, r.head), !.count = @ - 1]
  OBVIOUS
<1>2. n > 0 /\ Holds(c, t, n)
  BY <1>1, TakeFront DEF TakenFront
<1>3. \E m \in Nat : Holds(shrinkIfExcess(c), t, m) /\ m > 0
  BY <1>2, ShrinkFacts
<1> QED  BY <1>1, <1>3 DEF PoppedFront, HeldBy

LEMMA PoppedBackFacts ==
  ASSUME NEW r, NEW s, NEW n, Holds(r, s, n), NEW t, TakenBack(s, t)
  PROVE  HeldBy(PoppedBack(r), t)
<1>1. PICK g, c : g = prev(r, r.tail) /\ c = [r EXCEPT !.tail = g, !.buf[g] = Zero, !.count = @ - 1]
  OBVIOUS
<1>2. n > 0 /\ Holds(c, t, n)
  BY <1>1, TakeBack DEF TakenBack
<1>3. \E m \in Nat : Holds(shrinkIfExcess(c), t, m) /\ m > 0
  BY <1>2, ShrinkFacts
<1> QED  BY <1>1, <1>3 DEF PoppedBack, HeldBy

\* Elements are replaced and the slots stay where they are.
LEMMA WriteSlots ==
  ASSUME NEW r, NEW s, NEW n, Holds(r, s, n), NEW t \in Seq(Elems), Len(t) = Len(s), NEW b,
         DOMAIN b = 0..(n - 1), \A i \in 1..Len(s) : b[PlaceAt(r.head, i - 1, n)] = t[i]
  PROVE  Holds([r EXCEPT !.buf = b], t, n)
<1>1. PICK c : c = [r EXCEPT !.buf = b]
  OBVIOUS
<1>2. DOMAIN c = RingFields /\ c.buf = b /\ c.head = r.head /\ c.tail = r.tail /\ c.count = r.count
  BY <1>1 DEF Holds, Shape, RingFields
<1>3. Shape(c, n)
  BY <1>2 DEF Holds, Shape
<1>4. Holds(c, t, n)
  BY <1>2, <1>3 DEF Holds
<1> QED  BY <1>1, <1>4

\* Where the elements are, and that no two share a slot.
LEMMA SlotFacts ==
  ASSUME NEW r, NEW s, NEW n, Holds(r, s, n), NEW i \in 1..Len(s)
  PROVE  /\ n > 0 /\ (r.head + i - 1) % n = PlaceAt(r.head, i - 1, n) /\ PlaceAt(r.head, i - 1, n) \in 0..(n - 1)
         /\ \A j \in 1..Len(s) : i # j => PlaceAt(r.head, i - 1, n) # PlaceAt(r.head, j - 1, n)
<1>1. PICK h, m : h = r.head /\ m = Len(s)
  OBVIOUS
<1>2. n \in Nat /\ m \in Nat /\ m <= n /\ i \in 1..m /\ n > 0 /\ h \in 0..(n - 1)
  <2>1. n \in Nat /\ m \in Nat /\ m <= n /\ i \in 1..m
    BY <1>1, HoldsFacts DEF Holds
  <2>2. n > 0
    BY <2>1
  <2> QED  BY <1>1, <2>1, <2>2, HoldsFacts
<1>3. i - 1 \in 0..n /\ h + i - 1 = h + (i - 1)
  BY <1>2
<1>4. (h + (i - 1)) % n = PlaceAt(h, i - 1, n) /\ PlaceAt(h, i - 1, n) \in 0..(n - 1)
  BY <1>2, <1>3, PlaceFacts
<1>5. ASSUME NEW j \in 1..m, i # j PROVE PlaceAt(h, i - 1, n) # PlaceAt(h, j - 1, n)
  BY <1>2, <1>5 DEF PlaceAt
<1> QED  BY <1>1, <1>2, <1>3, <1>4, <1>5

LEMMA SetFacts ==
  ASSUME NEW r, NEW s, NEW n, Holds(r, s, n), NEW i \in Nat, i < Len(s), NEW e \in Elems
  PROVE  Holds([r EXCEPT !.buf[(r.head + i) % CapOf(r)] = e], [s EXCEPT ![i + 1] = e], n)
<1>1. PICK p, b, t : p = PlaceAt(r.head, i, n) /\ b = [r.buf EXCEPT ![p] = e] /\ t = [s EXCEPT ![i + 1] = e]
  OBVIOUS
<1>2. CapOf(r) = n /\ n \in Nat /\ Len(s) \in Nat /\ s \in Seq(Elems)
  BY HoldsFacts DEF Holds
<1>3. i + 1 \in 1..Len(s) /\ (i + 1) - 1 = i
  BY <1>2
<1>4. n > 0 /\ p \in 0..(n - 1)
      /\ \A j \in 1..Len(s) : i + 1 # j => p # PlaceAt(r.head, j - 1, n)
  BY <1>1, <1>3, SlotFacts
<1>5. (r.head + i) % n = p
  <2>1. r.head \in 0..(n - 1)
    BY <1>4, HoldsFacts
  <2>2. i \in 0..n
    BY <1>2, <1>3 DEF Holds
  <2> QED  BY <1>1, <1>2, <2>1, <2>2, PlaceFacts
<1>6. t \in Seq(Elems) /\ Len(t) = Len(s) /\ t[i + 1] = e /\ \A j \in 1..Len(s) : j # i + 1 => t[j] = s[j]
  BY <1>1, <1>2, <1>3
<1>7. DOMAIN b = 0..(n - 1) /\ b[p] = e /\ \A j \in 0..(n - 1) : j # p => b[j] = r.buf[j]
  BY <1>1, <1>4 DEF Holds, Shape
<1>8. ASSUME NEW j \in 1..Len(s) PROVE b[PlaceAt(r.head, j - 1, n)] = t[j]
  <2>1. CASE j = i + 1
    BY <1>1, <1>3, <1>6, <1>7, <2>1
  <2>2. CASE j # i + 1
    <3>1. PlaceAt(r.head, j - 1, n) \in 0..(n - 1) /\ PlaceAt(r.head, j - 1, n) # p
      BY <1>4, <2>2, SlotFacts
    <3>2. r.buf[PlaceAt(r.head, j - 1, n)] = s[j]
      BY DEF Holds
    <3> QED  BY <1>6, <1>7, <2>2, <3>1, <3>2
  <2> QED  BY <2>1, <2>2
<1>9. Holds([r EXCEPT !.buf = b], t, n)
  BY <1>6, <1>7, <1>8, WriteSlots
<1> QED  BY <1>1, <1>2, <1>5, <1>9

\* The elements at i and j change places.
LEMMA SwapFacts ==
  ASSUME NEW r, NEW s, NEW n, Holds(r, s, n), NEW i \in 1..Len(s), NEW j \in 1..Len(s), i # j,
         NEW t \in Seq(Elems), Len(t) = Len(s), t[i] = s[j], t[j] = s[i],
         \A k \in 1..Len(s) : k # i /\ k # j => t[k] = s[k]
  PROVE  Holds(Swapped(r, (r.head + i - 1) % CapOf(r), (r.head + j - 1) % CapOf(r)), t, n)
<1>1. PICK x, y, b : /\ x = PlaceAt(r.head, i - 1, n) /\ y = PlaceAt(r.head, j - 1, n)
                     /\ b = [r.buf EXCEPT ![x] = r.buf[y], ![y] = r.buf[x]]
  OBVIOUS
<1>2. CapOf(r) = n /\ DOMAIN r.buf = 0..(n - 1) /\ \A k \in 1..Len(s) : r.buf[PlaceAt(r.head, k - 1, n)] = s[k]
  BY HoldsFacts DEF Holds, Shape
<1>3. (r.head + i - 1) % n = x /\ x \in 0..(n - 1) /\ x # y
  BY <1>1, SlotFacts
<1>4. (r.head + j - 1) % n = y /\ y \in 0..(n - 1)
  BY <1>1, SlotFacts
<1>5. /\ DOMAIN b = 0..(n - 1) /\ b[x] = r.buf[y] /\ b[y] = r.buf[x]
      /\ \A k \in 0..(n - 1) : k # x /\ k # y => b[k] = r.buf[k]
  BY <1>1, <1>2, <1>3, <1>4
<1>6. ASSUME NEW k \in 1..Len(s) PROVE b[PlaceAt(r.head, k - 1, n)] = t[k]
  <2>1. CASE k = i
    BY <1>1, <1>2, <1>5, <2>1
  <2>2. CASE k = j
    BY <1>1, <1>2, <1>5, <2>2
  <2>3. CASE k # i /\ k # j
    <3>1. PlaceAt(r.head, k - 1, n) \in 0..(n - 1) /\ PlaceAt(r.head, k - 1, n) # x /\ PlaceAt(r.head, k - 1, n) # y
      BY <1>1, <2>3, SlotFacts
    <3> QED  BY <1>2, <1>5, <2>3, <3>1
  <2> QED  BY <2>1, <2>2, <2>3
<1>7. Holds([r EXCEPT !.buf = b], t, n)
  BY <1>5, <1>6, WriteSlots
<1>8. Swapped(r, x, y) = [r EXCEPT !.buf = b]
  BY <1>1 DEF Swapped
<1> QED  BY <1>2, <1>3, <1>4, <1>7, <1>8

\* A round of Rotate: the first element becomes the last, or the last the first.
LEMMA TurnedFacts ==
  ASSUME NEW r, NEW s, NEW n, Holds(r, s, n), Len(s) < n, Len(s) > 0, NEW t \in Seq(Elems), Len(t) = Len(s),
         NEW right \in BOOLEAN,
         right => t[Len(s)] = s[1] /\ \A i \in 1..(Len(s) - 1) : t[i] = s[i + 1],
         ~right => t[1] = s[Len(s)] /\ \A i \in 1..(Len(s) - 1) : t[i + 1] = s[i]
  PROVE  Holds(Turned(r, right), t, n)
<1>1. PICK g, m, z, c : g = r.head /\ m = Len(s) /\ z = r.tail /\ c = Turned(r, right)
  OBVIOUS
<1>2. /\ n \in Nat /\ m \in Nat /\ m > 0 /\ m < n /\ g \in 0..(n - 1) /\ z \in 0..(n - 1)
      /\ z = PlaceAt(g, m, n)
  BY <1>1, HoldsFacts DEF Holds
<1>3. /\ DOMAIN r.buf = 0..(n - 1) /\ DOMAIN r = RingFields /\ r.count = m
      /\ \A i \in 1..m : r.buf[PlaceAt(g, i - 1, n)] = s[i]
  BY <1>1 DEF Holds, Shape
<1>4. /\ next(r, g) = PlaceAt(g, 1, n) /\ prev(r, g) = PlaceBefore(g, 1, n)
      /\ next(r, z) = PlaceAt(z, 1, n) /\ prev(r, z) = PlaceBefore(z, 1, n)
  BY <1>2, <1>3, StepFacts
<1>5. CASE right
  <2>1. PICK h, b : h = PlaceAt(g, 1, n) /\ b = [r.buf EXCEPT ![z] = r.buf[g], ![g] = Zero]
    OBVIOUS
  <2>2. c = [r EXCEPT !.buf = b, !.head = h, !.tail = PlaceAt(z, 1, n)]
    BY <1>1, <1>4, <1>5, <2>1 DEF Turned
  <2>3. DOMAIN c = RingFields /\ c.buf = b /\ c.head = h /\ c.tail = PlaceAt(z, 1, n) /\ c.count = m
    BY <1>3, <2>2 DEF RingFields
  <2>4. h \in 0..(n - 1) /\ z # g /\ PlaceAt(z, 1, n) = PlaceAt(h, m, n)
    BY <1>2, <2>1 DEF PlaceAt
  <2>5. DOMAIN b = 0..(n - 1) /\ b[z] = r.buf[g] /\ \A i \in 0..(n - 1) : i # z /\ i # g => b[i] = r.buf[i]
    BY <1>2, <1>3, <2>1, <2>4
  <2>6. ASSUME NEW i \in 1..m PROVE b[PlaceAt(h, i - 1, n)] = t[i]
    <3>1. CASE i = m
      <4>1. PlaceAt(h, i - 1, n) = z /\ PlaceAt(g, 1 - 1, n) = g /\ 1 \in 1..m
        BY <1>2, <2>1, <3>1 DEF PlaceAt
      <4>2. t[i] = s[1]
        BY <1>1, <1>5, <3>1
      <4> QED  BY <1>3, <2>5, <4>1, <4>2
    <3>2. CASE i # m
      <4>1. i \in 1..(m - 1) /\ i + 1 \in 1..m /\ (i + 1) - 1 = i
        BY <1>2, <3>2
      <4>2. PlaceAt(h, i - 1, n) = PlaceAt(g, i, n) /\ PlaceAt(g, i, n) \in 0..(n - 1)
            /\ PlaceAt(g, i, n) # z /\ PlaceAt(g, i, n) # g
        BY <1>2, <2>1, <4>1 DEF PlaceAt
      <4>3. t[i] = s[i + 1]
        BY <1>1, <1>5, <4>1
      <4>4. r.buf[PlaceAt(g, i, n)] = s[i + 1]
        BY <1>3, <4>1
      <4> QED  BY <2>5, <4>2, <4>3, <4>4
    <3> QED  BY <3>1, <3>2
  <2>7. Shape(c, n)
    BY <1>2, <2>3, <2>4, <2>5 DEF Shape
  <2>8. m <= n /\ Len(t) = m
    BY <1>1, <1>2
  <2> QED  BY <1>1, <2>3, <2>4, <2>6, <2>7, <2>8 DEF Holds
<1>6. CASE ~right
  <2>1. PICK h, y, b : /\ h = PlaceBefore(g, 1, n) /\ y = PlaceBefore(z, 1, n)
                       /\ b = [r.buf EXCEPT ![h] = r.buf[y], ![y] = Zero]
    OBVIOUS
  <2>2. c = [r EXCEPT !.buf = b, !.head = h, !.tail = y]
    BY <1>1, <1>4, <1>6, <2>1 DEF Turned
  <2>3. DOMAIN c = RingFields /\ c.buf = b /\ c.head = h /\ c.tail = y /\ c.count = m
    BY <1>3, <2>2 DEF RingFields
  <2>4. h \in 0..(n - 1) /\ y \in 0..(n - 1) /\ y # h /\ y = PlaceAt(h, m, n)
    BY <1>2, <2>1 DEF PlaceAt, PlaceBefore
  <2>5. DOMAIN b = 0..(n - 1) /\ b[h] = r.buf[y] /\ \A i \in 0..(n - 1) : i # h /\ i # y => b[i] = r.buf[i]
    BY <1>2, <1>3, <2>1, <2>4
  <2>6. ASSUME NEW i \in 1..m PROVE b[PlaceAt(h, i - 1, n)] = t[i]
    <3>1. CASE i = 1
      <4>1. PlaceAt(h, i - 1, n) = h /\ PlaceAt(g, m - 1, n) = y /\ m \in 1..m
        BY <1>2, <2>1, <3>1 DEF PlaceAt, PlaceBefore
      <4>2. t[i] = s[m]
        BY <1>1, <1>6, <3>1
      <4> QED  BY <1>3, <2>5, <4>1, <4>2
    <3>2. CASE i # 1
      <4>1. i - 1 \in 1..(m - 1) /\ (i - 1) + 1 = i /\ i - 1 \in 1..m
        BY <1>2, <3>2
      <4>2. PlaceAt(h, i - 1, n) = PlaceAt(g, (i - 1) - 1, n) /\ PlaceAt(h, i - 1, n) \in 0..(n - 1)
            /\ PlaceAt(h, i - 1, n) # h /\ PlaceAt(h, i - 1, n) # y
        BY <1>2, <2>1, <4>1 DEF PlaceAt, PlaceBefore
      <4>3. t[i] = s[i - 1]
        BY <1>1, <1>6, <4>1
      <4>4. r.buf[PlaceAt(g, (i - 1) - 1, n)] = s[i - 1]
        BY <1>3, <4>1
      <4> QED  BY <2>5, <4>2, <4>3, <4>4
    <3> QED  BY <3>1, <3>2
  <2>7. Shape(c, n)
    BY <1>2, <2>3, <2>4, <2>5 DEF Shape
  <2>8. m <= n /\ Len(t) = m
    BY <1>1, <1>2
  <2> QED  BY <1>1, <2>3, <2>4, <2>6, <2>7, <2>8 DEF Holds
<1> QED  BY <1>5, <1>6

\* Where the elements of a rotated sequence come from.
LEMMA RotatedFacts ==
  ASSUME NEW s \in Seq(Elems), NEW k \in 0..Len(s), NEW right \in BOOLEAN, Len(s) > 0
  PROVE  /\ Rotated(s, k, right) \in Seq(Elems) /\ Len(Rotated(s, k, right)) = Len(s)
         /\ \A i \in 1..Len(s) :
              Rotated(s, k, right)[i] = s[PlaceAt(i - 1, IF right THEN k ELSE Len(s) - k, Len(s)) + 1]
<1>1. PICK m, j : m = Len(s) /\ j = IF right THEN k ELSE m - k
  OBVIOUS
<1>2. m \in Nat /\ m > 0 /\ j \in 0..m
  <2>1. m \in Nat /\ m > 0 /\ k \in 0..m
    BY <1>1, LenProperties
  <2> QED  BY <1>1, <2>1
<1>3. Rotated(s, k, right) = [i \in 1..m |-> s[((i - 1 + j) % m) + 1]]
  BY <1>1 DEF Rotated, Shifted
<1>4. ASSUME NEW i \in 1..m
      PROVE  (i - 1 + j) % m = PlaceAt(i - 1, j, m) /\ s[PlaceAt(i - 1, j, m) + 1] \in Elems
  <2>1. i - 1 \in 0..(m - 1)
    BY <1>2
  <2>2. (i - 1 + j) % m = PlaceAt(i - 1, j, m) /\ PlaceAt(i - 1, j, m) \in 0..(m - 1)
    BY <1>2, <2>1, PlaceFacts
  <2>3. PlaceAt(i - 1, j, m) + 1 \in 1..m
    BY <1>2, <2>2
  <2> QED  BY <1>1, <2>2, <2>3, ElementOfSeq
<1>5. PICK t : t = Rotated(s, k, right)
  OBVIOUS
<1>6. t = [i \in 1..m |-> s[PlaceAt(i - 1, j, m) + 1]]
  BY <1>3, <1>4, <1>5
<1>7. t \in [1..m -> Elems]
  BY <1>4, <1>6
<1>8. t \in Seq(Elems) /\ Len(t) = m
  BY <1>2, <1>7
<1>9. \A i \in 1..m : t[i] = s[PlaceAt(i - 1, j, m) + 1]
  BY <1>6
<1> QED  BY <1>1, <1>5, <1>8, <1>9

\* A full ring only moves its head and tail.
LEMMA FullTurn ==
  ASSUME NEW r, NEW s, Holds(r, s, Len(s)), Len(s) > 0, NEW k \in 0..(Len(s) - 1), NEW right \in BOOLEAN, NEW h,
         h = IF right THEN PlaceAt(r.head, k, Len(s)) ELSE PlaceBefore(r.head, k, Len(s))
  PROVE  Holds([r EXCEPT !.head = h, !.tail = h], Rotated(s, k, right), Len(s))
<1>1. PICK g, m, j, c, t : /\ g = r.head /\ m = Len(s) /\ j = (IF right THEN k ELSE m - k)
                           /\ c = [r EXCEPT !.head = h, !.tail = h] /\ t = Rotated(s, k, right)
  OBVIOUS
<1>2. m \in Nat /\ m > 0 /\ g \in 0..(m - 1) /\ s \in Seq(Elems) /\ k \in 0..m /\ k \in 0..(m - 1)
  <2>1. m \in Nat /\ m > 0 /\ g \in 0..(m - 1) /\ s \in Seq(Elems) /\ k \in 0..(m - 1)
    BY <1>1, HoldsFacts DEF Holds
  <2> QED  BY <2>1
<1>3. /\ DOMAIN r.buf = 0..(m - 1) /\ DOMAIN r = RingFields /\ r.count = m
      /\ \A i \in 1..m : r.buf[PlaceAt(g, i - 1, m)] = s[i]
  BY <1>1 DEF Holds, Shape
<1>4. DOMAIN c = RingFields /\ c.buf = r.buf /\ c.head = h /\ c.tail = h /\ c.count = m
  BY <1>1, <1>3 DEF RingFields
<1>5. t \in Seq(Elems) /\ Len(t) = m /\ \A i \in 1..m : t[i] = s[PlaceAt(i - 1, j, m) + 1]
  BY <1>1, <1>2, RotatedFacts
<1>6. h \in 0..(m - 1) /\ h = PlaceAt(h, m, m)
  BY <1>1, <1>2 DEF PlaceAt, PlaceBefore
<1>7. ASSUME NEW i \in 1..m PROVE c.buf[PlaceAt(h, i - 1, m)] = t[i]
  <2>1. PICK p : p = PlaceAt(i - 1, j, m)
    OBVIOUS
  <2>2. p + 1 \in 1..m /\ (p + 1) - 1 = p /\ PlaceAt(h, i - 1, m) = PlaceAt(g, p, m)
    <3>1. CASE right
      <4>1. h = PlaceAt(g, k, m) /\ p = PlaceAt(i - 1, k, m)
        BY <1>1, <2>1, <3>1
      <4> QED  BY <1>2, <4>1 DEF PlaceAt
    <3>2. CASE ~right
      <4>1. h = PlaceBefore(g, k, m) /\ p = PlaceAt(i - 1, m - k, m)
        BY <1>1, <2>1, <3>2
      <4> QED  BY <1>2, <4>1 DEF PlaceAt, PlaceBefore
    <3> QED  BY <3>1, <3>2
  <2> QED  BY <1>3, <1>4, <1>5, <2>1, <2>2
<1>8. Shape(c, m)
  BY <1>2, <1>3, <1>4, <1>6 DEF Shape
<1>9. Holds(c, t, m)
  <2>1. m <= m
    BY <1>2
  <2> QED  BY <1>4, <1>5, <1>6, <1>7, <1>8, <2>1 DEF Holds
<1> QED  BY <1>1, <1>9

\* One more round: the sequence t of m elements is a turned by one place.
TurnedOnce(a, t, m, right) ==
  /\ t \in Seq(Elems) /\ Len(t) = m
  /\ right => t[m] = a[1] /\ \A i \in 1..(m - 1) : t[i] = a[i + 1]
  /\ ~right => t[1] = a[m] /\ \A i \in 1..(m - 1) : t[i + 1] = a[i]

LEMMA RotatedMore ==
  ASSUME NEW s \in Seq(Elems), NEW k \in Nat, k + 1 < Len(s), NEW right \in BOOLEAN, NEW a, NEW t,
         a = Rotated(s, k, right), t = Rotated(s, k + 1, right)
  PROVE  TurnedOnce(a, t, Len(s), right)
<1>1. PICK m, x, y : m = Len(s) /\ x = (IF right THEN k ELSE m - k) /\ y = (IF right THEN k + 1 ELSE m - (k + 1))
  OBVIOUS
<1>2. m \in Nat /\ m > 0 /\ k + 1 < m /\ k \in 0..m /\ k + 1 \in 0..m
  <2>1. m \in Nat /\ k + 1 < m
    BY <1>1, LenProperties
  <2> QED  BY <2>1
<1>3. \A i \in 1..m : a[i] = s[PlaceAt(i - 1, x, m) + 1]
  BY <1>1, <1>2, RotatedFacts
<1>4. t \in Seq(Elems) /\ Len(t) = m /\ \A i \in 1..m : t[i] = s[PlaceAt(i - 1, y, m) + 1]
  BY <1>1, <1>2, RotatedFacts
<1>5. CASE right
  <2>1. PlaceAt(m - 1, y, m) = PlaceAt(1 - 1, x, m) /\ m \in 1..m /\ 1 \in 1..m
    BY <1>1, <1>2, <1>5 DEF PlaceAt
  <2>2. ASSUME NEW i \in 1..(m - 1) PROVE t[i] = a[i + 1]
    <3>1. PlaceAt(i - 1, y, m) = PlaceAt((i + 1) - 1, x, m) /\ i \in 1..m /\ i + 1 \in 1..m
      BY <1>1, <1>2, <1>5 DEF PlaceAt
    <3> QED  BY <1>3, <1>4, <3>1
  <2>3. t[m] = a[1]
    BY <1>3, <1>4, <2>1
  <2> QED  BY <1>1, <1>4, <1>5, <2>2, <2>3 DEF TurnedOnce
<1>6. CASE ~right
  <2>1. PlaceAt(1 - 1, y, m) = PlaceAt(m - 1, x, m) /\ m \in 1..m /\ 1 \in 1..m
    BY <1>1, <1>2, <1>6 DEF PlaceAt
  <2>2. ASSUME NEW i \in 1..(m - 1) PROVE t[i + 1] = a[i]
    <3>1. PlaceAt((i + 1) - 1, y, m) = PlaceAt(i - 1, x, m) /\ i \in 1..m /\ i + 1 \in 1..m
      BY <1>1, <1>2, <1>6 DEF PlaceAt
    <3> QED  BY <1>3, <1>4, <3>1
  <2>3. t[1] = a[m]
    BY <1>3, <1>4, <2>1
  <2> QED  BY <1>1, <1>4, <1>6, <2>2, <2>3 DEF TurnedOnce
<1> QED  BY <1>5, <1>6

\* Inserting an element leaves it among the others.
LEMMA InsertedFacts ==
  ASSUME NEW s \in Seq(Elems), NEW e \in Elems, NEW p \in 1..(Len(s) + 1)
  PROVE  MovedTo(InsertAt(s, p, e), s, p, e) /\ InsertAt(s, p, e) \in Seq(Elems)
<1>1. InsertAt(s, p, e) \in Seq(Elems) /\ Len(InsertAt(s, p, e)) = Len(s) + 1
      /\ \A i \in 1..(Len(s) + 1) : InsertAt(s, p, e)[i] = IF i < p THEN s[i] ELSE IF i = p THEN e ELSE s[i - 1]
  BY InsertAtFacts
<1> QED  BY <1>1 DEF MovedTo

\* What users see is taken from either end, or added to it.
LEMMA SequenceFacts ==
  ASSUME NEW s \in Seq(Elems), NEW e \in Elems
  PROVE  /\ AddedBack(s, Append(s, e), e) /\ AddedFront(s, <<e>> \o s, e)
         /\ AddedFront(s, InsertAt(s, 1, e), e) /\ AddedBack(s, InsertAt(s, Len(s) + 1, e), e)
<1>1. Len(s) \in Nat
  BY LenProperties
<1>2. AddedBack(s, Append(s, e), e)
  BY AppendProperties DEF AddedBack
<1>3. AddedFront(s, <<e>> \o s, e)
  <2>1. PICK o, t, m : o = <<e>> /\ t = o \o s /\ m = Len(s)
    OBVIOUS
  <2>2. o \in Seq(Elems) /\ Len(o) = 1 /\ o[1] = e /\ m \in Nat
    BY <1>1, <2>1
  <2>3. t \in Seq(Elems) /\ Len(t) = 1 + m
        /\ \A i \in 1..(1 + m) : t[i] = IF i <= 1 THEN o[i] ELSE s[i - 1]
    BY <2>1, <2>2, ConcatProperties
  <2>4. Len(t) = m + 1 /\ t[1] = e
    BY <2>2, <2>3
  <2>5. ASSUME NEW i \in 1..m PROVE t[i + 1] = s[i]
    <3>1. i + 1 \in 1..(1 + m) /\ ~(i + 1 <= 1) /\ (i + 1) - 1 = i
      BY <2>2
    <3> QED  BY <2>3, <3>1
  <2> QED  BY <2>1, <2>3, <2>4, <2>5 DEF AddedFront
<1>4. AddedFront(s, InsertAt(s, 1, e), e)
  <2>1. PICK t, m : t = InsertAt(s, 1, e) /\ m = Len(s)
    OBVIOUS
  <2>2. 1 \in 1..(m + 1) /\ m \in Nat
    BY <1>1, <2>1
  <2>3. t \in Seq(Elems) /\ Len(t) = m + 1
        /\ \A i \in 1..(m + 1) : t[i] = IF i < 1 THEN s[i] ELSE IF i = 1 THEN e ELSE s[i - 1]
    BY <2>1, <2>2, InsertAtFacts
  <2>4. t[1] = e
    BY <2>2, <2>3
  <2>5. ASSUME NEW i \in 1..m PROVE t[i + 1] = s[i]
    <3>1. i + 1 \in 1..(m + 1) /\ ~(i + 1 < 1) /\ i + 1 # 1 /\ (i + 1) - 1 = i
      BY <2>2
    <3> QED  BY <2>3, <3>1
  <2> QED  BY <2>1, <2>3, <2>4, <2>5 DEF AddedFront
<1>5. AddedBack(s, InsertAt(s, Len(s) + 1, e), e)
  <2>1. PICK t, m, p : t = InsertAt(s, p, e) /\ m = Len(s) /\ p = Len(s) + 1
    OBVIOUS
  <2>2. m \in Nat /\ p = m + 1 /\ p \in 1..(Len(s) + 1)
    BY <1>1, <2>1
  <2>3. t \in Seq(Elems) /\ Len(t) = Len(s) + 1
        /\ \A i \in 1..(Len(s) + 1) : t[i] = IF i < p THEN s[i] ELSE IF i = p THEN e ELSE s[i - 1]
    BY <2>1, <2>2, InsertAtFacts
  <2>4. t[p] = e
    BY <2>2, <2>3
  <2>5. ASSUME NEW i \in 1..m PROVE t[i] = s[i]
    <3>1. i \in 1..(Len(s) + 1) /\ i < p
      BY <2>1, <2>2
    <3> QED  BY <2>3, <3>1
  <2> QED  BY <2>1, <2>3, <2>4, <2>5 DEF AddedBack
<1> QED  BY <1>2, <1>3, <1>4, <1>5

LEMMA TailFacts ==
  ASSUME NEW s \in Seq(Elems), Len(s) > 0
  PROVE  TakenFront(s, Tail(s)) /\ TakenBack(s, Front(s))
<1>1. Len(s) \in Nat /\ s # << >>
  BY LenProperties, EmptySeq
<1>2. TakenFront(s, Tail(s))
  BY <1>1, HeadTailProperties DEF TakenFront
<1>3. TakenBack(s, Front(s))
  <2>1. PICK m, t : m = Len(s) /\ t = SubSeq(s, 1, m - 1)
    OBVIOUS
  <2>2. m \in Nat /\ m > 0 /\ \A i \in 1..(m - 1) : s[i] \in Elems
    BY <1>1, <2>1, ElementOfSeq
  <2>3. t \in Seq(Elems) /\ Len(t) = (IF 1 <= m - 1 THEN m - 1 - 1 + 1 ELSE 0)
        /\ \A i \in 1..(m - 1 - 1 + 1) : t[i] = s[1 + i - 1]
    <3>1. 1 \in Int /\ m - 1 \in Int
      BY <2>2
    <3> QED  BY <2>1, <2>2, <3>1, SubSeqProperties
  <2>4. Len(t) = m - 1 /\ \A i \in 1..(m - 1) : t[i] = s[i]
    BY <2>2, <2>3
  <2>5. Front(s) = t
    BY <2>1 DEF Front
  <2> QED  BY <1>1, <2>1, <2>3, <2>4, <2>5 DEF TakenBack
<1> QED  BY <1>2, <1>3

\* A ring without elements.
LEMMA EmptyHolds ==
  ASSUME NEW r, NEW n \in Nat, DOMAIN r = RingFields, DOMAIN r.buf = 0..(n - 1),
         r.head = 0, r.tail = 0, r.count = 0
  PROVE  Holds(r, << >>, n)
<1>1. << >> \in Seq(Elems) /\ Len(<< >>) = 0
  OBVIOUS
<1>2. n > 0 => 0 = PlaceAt(0, 0, n) /\ 0 \in 0..(n - 1)
  BY DEF PlaceAt
<1>3. Shape(r, n)
  BY <1>2 DEF Shape
<1>4. 0 <= n /\ 1..0 = {}
  OBVIOUS
<1> QED  BY <1>1, <1>2, <1>3, <1>4 DEF Holds

\* An element one place further along rest.
LEMMA MovedOn ==
  ASSUME NEW r, NEW s, NEW n, Holds(r, s, n), NEW rest, NEW p, NEW e, MovedTo(s, rest, p, e),
         NEW z \in 1..Len(s), z = p + 1 \/ z = p - 1
  PROVE  /\ Holds(Swapped(r, (r.head + p - 1) % CapOf(r), (r.head + z - 1) % CapOf(r)), InsertAt(rest, z, e), n)
         /\ MovedTo(InsertAt(rest, z, e), rest, z, e)
<1>1. PICK m, t : m = Len(s) /\ t = InsertAt(rest, z, e)
  OBVIOUS
<1>2. m \in Nat /\ m = Len(rest) + 1 /\ p \in 1..m /\ z \in 1..m /\ z # p /\ rest \in Seq(Elems) /\ e \in Elems
  <2>1. m \in Nat /\ m = Len(rest) + 1 /\ p \in 1..m /\ rest \in Seq(Elems) /\ e \in Elems
    BY <1>1, HoldsFacts DEF MovedTo
  <2> QED  BY <1>1, <2>1
<1>3. t \in Seq(Elems) /\ Len(t) = m
      /\ \A i \in 1..m : t[i] = IF i < z THEN rest[i] ELSE IF i = z THEN e ELSE rest[i - 1]
  <2>1. z \in 1..(Len(rest) + 1) /\ rest \in Seq(Elems) /\ e \in Elems
    BY <1>2
  <2>2. MovedTo(t, rest, z, e) /\ t \in Seq(Elems)
    BY <1>1, <2>1, InsertedFacts
  <2> QED  BY <1>2, <2>2 DEF MovedTo
<1>4. \A i \in 1..m : s[i] = IF i < p THEN rest[i] ELSE IF i = p THEN e ELSE rest[i - 1]
  BY <1>1 DEF MovedTo
<1>5. MovedTo(t, rest, z, e)
  BY <1>2, <1>3 DEF MovedTo
<1>6. t[z] = s[p]
  BY <1>2, <1>3, <1>4
<1>7. t[p] = s[z]
  <2>1. CASE z = p + 1
    <3>1. ~(z < p) /\ z # p /\ z - 1 = p /\ p < z
      BY <1>2, <2>1
    <3> QED  BY <1>2, <1>3, <1>4, <3>1
  <2>2. CASE z = p - 1
    <3>1. z < p /\ ~(p < z) /\ p # z /\ p - 1 = z
      BY <1>2, <2>2
    <3> QED  BY <1>2, <1>3, <1>4, <3>1
  <2> QED  BY <2>1, <2>2
<1>8. ASSUME NEW i \in 1..m, i # p, i # z PROVE t[i] = s[i]
  <2>1. i < p <=> i < z
    BY <1>2, <1>8
  <2> QED  BY <1>3, <1>4, <1>8, <2>1
<1>9. Holds(Swapped(r, (r.head + p - 1) % CapOf(r), (r.head + z - 1) % CapOf(r)), t, n)
  <2>1. p \in 1..Len(s) /\ z \in 1..Len(s) /\ p # z /\ Len(t) = Len(s) /\ t \in Seq(Elems)
        /\ \A k \in 1..Len(s) : k # p /\ k # z => t[k] = s[k]
    BY <1>1, <1>2, <1>3, <1>8
  <2> QED  BY <1>6, <1>7, <2>1, SwapFacts
<1> QED  BY <1>1, <1>5, <1>9

LEMMA DropFacts ==
  ASSUME NEW s \in Seq(Elems), NEW k \in 0..Len(s), NEW t, t = SubSeq(s, k + 1, Len(s))
  PROVE  t \in Seq(Elems) /\ Len(t) = Len(s) - k /\ \A j \in 1..(Len(s) - k) : t[j] = s[k + j]
<1>1. PICK m : m = Len(s)
  OBVIOUS
<1>2. m \in Nat /\ k \in 0..m /\ \A j \in 1..m : s[j] \in Elems
  BY <1>1, LenProperties, ElementOfSeq
<1>3. k + 1 \in Int /\ m \in Int /\ \A j \in (k + 1)..m : s[j] \in Elems
  BY <1>2
<1>4. t \in Seq(Elems) /\ Len(t) = (IF k + 1 <= m THEN m - (k + 1) + 1 ELSE 0)
      /\ \A j \in 1..(m - (k + 1) + 1) : t[j] = s[(k + 1) + j - 1]
  BY <1>1, <1>3, SubSeqProperties
<1>5. Len(t) = m - k
  BY <1>2, <1>4
<1>6. ASSUME NEW j \in 1..(m - k) PROVE t[j] = s[k + j]
  <2>1. j \in 1..(m - (k + 1) + 1) /\ (k + 1) + j - 1 = k + j
    BY <1>2
  <2> QED  BY <1>4, <2>1
<1> QED  BY <1>1, <1>4, <1>5, <1>6
-----------------------------------------------------------------------------
\* What the invariant says of the ring the step is about.
LEMMA DequeState ==
  ASSUME DequeInv, kind = "deque"
  PROVE  \E n \in Nat : Holds(q, items, n) /\ LoopInv(loop, items, n)
BY DEF DequeInv

LEMMA QueueState ==
  ASSUME DequeInv, kind = "queue"
  PROVE  loop = NoLoop /\ \E n \in Nat : n > 0 /\ Holds(q, items, n)
BY DEF DequeInv

LEMMA SQueueState ==
  ASSUME DequeInv, kind = "squeue"
  PROVE  loop = NoLoop /\ SHolds(q, items, MaxLength + 1) /\ CursorAt(cursor, q, items, MaxLength + 1)
BY DEF DequeInv

LEMMA RingDone ==
  ASSUME kind' = "deque" \/ kind' = "queue", loop' = NoLoop, HeldBy(q', items')
  PROVE  DequeInv'
BY DEF DequeInv, HeldBy, LoopInv

LEMMA EndsStep ==
  ASSUME DequeInv, NEW e, (e \in Elems /\ (PushBack(e) \/ PushFront(e))) \/ PopFront \/ PopBack
  PROVE  DequeInv'
<1>1. kind = "deque" /\ kind' = "deque" /\ loop' = NoLoop
  BY DEF PushBack, PushFront, PopFront, PopBack, IsDeque, Of
<1>2. PICK n \in Nat : Holds(q, items, n)
  BY <1>1, DequeState
<1>3. items \in Seq(Elems) /\ q.count = Len(items)
  BY <1>2 DEF Holds
<1>4. CASE e \in Elems /\ PushBack(e)
  <2>1. q' = PushedBack(q, e) /\ AddedBack(items, items', e)
    BY <1>3, <1>4, SequenceFacts DEF PushBack
  <2>2. HeldBy(q', items')
    BY <1>2, <2>1, PushedBackFacts
  <2> QED  BY <1>1, <2>2, RingDone
<1>5. CASE e \in Elems /\ PushFront(e)
  <2>1. q' = PushedFront(q, e) /\ AddedFront(items, items', e)
    BY <1>3, <1>5, SequenceFacts DEF PushFront
  <2>2. HeldBy(q', items')
    BY <1>2, <2>1, PushedFrontFacts
  <2> QED  BY <1>1, <2>2, RingDone
<1>6. CASE PopFront
  <2>1. q' = PoppedFront(q) /\ TakenFront(items, items')
    BY <1>3, <1>6, TailFacts DEF PopFront
  <2>2. HeldBy(q', items')
    BY <1>2, <2>1, PoppedFrontFacts
  <2> QED  BY <1>1, <2>2, RingDone
<1>7. CASE PopBack
  <2>1. q' = PoppedBack(q) /\ TakenBack(items, items')
    BY <1>3, <1>7, TailFacts DEF PopBack
  <2>2. HeldBy(q', items')
    BY <1>2, <2>1, PoppedBackFacts
  <2> QED  BY <1>1, <2>2, RingDone
<1> QED  BY <1>4, <1>5, <1>6, <1>7

LEMMA SetClearStep ==
  ASSUME DequeInv, NEW e, NEW i \in 0..MaxLength, (e \in Elems /\ DequeSet(i, e)) \/ DequeClear
  PROVE  DequeInv'
<1>1. kind = "deque" /\ kind' = "deque" /\ loop' = NoLoop
  BY DEF DequeSet, DequeClear, IsDeque, Of
<1>2. PICK n \in Nat : Holds(q, items, n)
  BY <1>1, DequeState
<1>3. CASE e \in Elems /\ DequeSet(i, e)
  <2>1. i \in Nat /\ i < Len(items)
    BY <1>2, <1>3, DequeAssumption DEF DequeSet, Holds
  <2>2. Holds(q', items', n)
    BY <1>2, <1>3, <2>1, SetFacts DEF DequeSet
  <2> QED  BY <1>1, <2>2 DEF DequeInv, LoopInv
<1>4. CASE DequeClear
  <2>1. DOMAIN q.buf = 0..(n - 1)
    BY <1>2 DEF Holds, Shape
  <2>2. /\ DOMAIN q' = RingFields /\ DOMAIN q'.buf = 0..(n - 1)
        /\ q'.head = 0 /\ q'.tail = 0 /\ q'.count = 0 /\ items' = << >>
    BY <1>4, <2>1 DEF DequeClear, RingFields
  <2>3. Holds(q', items', n)
    <3>1. PICK c : c = q'
      OBVIOUS
    <3> QED  BY <2>2, <3>1, EmptyHolds
  <2> QED  BY <1>1, <2>3 DEF DequeInv, LoopInv
<1> QED  BY <1>3, <1>4

LEMMA QueueStep ==
  ASSUME DequeInv, NEW e, (e \in Elems /\ QueueAdd(e)) \/ QueuePop
  PROVE  DequeInv'
<1>1. kind = "queue" /\ kind' = "queue" /\ loop' = NoLoop
  BY DEF QueueAdd, QueuePop, Of
<1>2. PICK n \in Nat : n > 0 /\ Holds(q, items, n)
  BY <1>1, QueueState
<1>3. items \in Seq(Elems) /\ q.count = Len(items) /\ CapOf(q) = n
  BY <1>2, HoldsFacts DEF Holds
<1>4. CASE e \in Elems /\ QueueAdd(e)
  <2>1. AddedBack(items, items', e)
    BY <1>3, <1>4, SequenceFacts DEF QueueAdd
  <2>2. growIfFull(q) = IF q.count = CapOf(q) THEN resize(q) ELSE q
    BY <1>2, <1>3 DEF growIfFull
  <2>3. q' = PushedBack(q, e)
    BY <1>4, <2>2 DEF QueueAdd, PushedBack
  <2>4. HeldBy(q', items')
    BY <1>2, <2>1, <2>3, PushedBackFacts
  <2> QED  BY <1>1, <2>4, RingDone
<1>5. CASE QueuePop
  <2>1. q' = PoppedFront(q) /\ TakenFront(items, items')
    BY <1>3, <1>5, TailFacts DEF QueuePop
  <2>2. HeldBy(q', items')
    BY <1>2, <2>1, PoppedFrontFacts
  <2> QED  BY <1>1, <2>2, RingDone
<1> QED  BY <1>4, <1>5

LEMMA RotateStep ==
  ASSUME DequeInv, NEW k \in Int, Rotate(k)
  PROVE  DequeInv'
<1>1. kind = "deque" /\ kind' = "deque"
  BY DEF Rotate, LoopBegins
<1>2. PICK n \in Nat : Holds(q, items, n)
  BY <1>1, DequeState
<1>3. PICK m, g : m = Len(items) /\ g = (IF k < 0 THEN -k ELSE k) % m
  OBVIOUS
<1>4. /\ m \in Nat /\ m <= n /\ q.count = m /\ CapOf(q) = n /\ items \in Seq(Elems) /\ m > 1 /\ g # 0
      /\ q.head \in 0..(n - 1) /\ q.tail = PlaceAt(q.head, m, n)
  <2>1. m \in Nat /\ m <= n /\ q.count = m /\ CapOf(q) = n /\ items \in Seq(Elems)
    BY <1>2, <1>3, HoldsFacts DEF Holds
  <2>2. m > 1 /\ g # 0
    BY <1>3, <2>1 DEF Rotate
  <2>3. n > 0
    BY <2>1, <2>2
  <2> QED  BY <1>2, <1>3, <2>1, <2>2, <2>3, HoldsFacts DEF Holds
<1>5. g \in 0..(m - 1)
  <2>1. \A x \in Nat : \A y \in Nat \ {0} : x % y \in 0..(y - 1)
    OBVIOUS
  <2>2. (IF k < 0 THEN -k ELSE k) \in Nat /\ m \in Nat \ {0}
    BY <1>4
  <2> QED  BY <1>3, <2>1, <2>2
<1>6. CASE q.head = q.tail
  <2>1. m = n
    BY <1>4, <1>6 DEF PlaceAt
  <2>2. PICK h : h = (q.head + (IF k < 0 THEN -g ELSE g)) % n
    OBVIOUS
  <2>3. q' = [q EXCEPT !.head = h, !.tail = h] /\ items' = Rotated(items, g, k > 0) /\ loop' = NoLoop
    BY <1>3, <1>4, <1>6, <2>2 DEF Rotate, LoopBegins
  <2>4. h = IF k > 0 THEN PlaceAt(q.head, g, n) ELSE PlaceBefore(q.head, g, n)
    <3>1. g \in 0..n
      BY <1>4, <1>5
    <3>2. (q.head + g) % n = PlaceAt(q.head, g, n) /\ (q.head - g) % n = PlaceBefore(q.head, g, n)
      BY <1>4, <3>1, PlaceFacts
    <3>3. CASE k > 0
      BY <2>2, <3>2, <3>3
    <3>4. CASE k < 0
      <4>1. q.head + (-g) = q.head - g
        BY <1>4, <3>1
      <4> QED  BY <2>2, <3>2, <3>4, <4>1
    <3>5. k # 0
      <4>1. ASSUME k = 0 PROVE FALSE
        <5>1. 0 % m = 0
          BY <1>4
        <5> QED  BY <1>3, <1>4, <4>1, <5>1
      <4> QED  BY <4>1
    <3> QED  BY <3>3, <3>4, <3>5
  <2>5. Holds(q', items', n)
    <3>0. (k > 0) \in BOOLEAN
      OBVIOUS
    <3>1. PICK right \in BOOLEAN : right = (k > 0)
      BY <3>0, Zenon
    <3>2. h = IF right THEN PlaceAt(q.head, g, Len(items)) ELSE PlaceBefore(q.head, g, Len(items))
      BY <1>3, <2>1, <2>4, <3>1
    <3>3. Holds(q, items, Len(items)) /\ Len(items) > 0 /\ g \in 0..(Len(items) - 1)
      BY <1>2, <1>3, <1>4, <1>5, <2>1
    <3>4. Holds([q EXCEPT !.head = h, !.tail = h], Rotated(items, g, right), m)
      BY <1>3, <3>2, <3>3, FullTurn
    <3> QED  BY <2>1, <2>3, <3>1, <3>4
  <2> QED  BY <1>1, <2>3, <2>5 DEF DequeInv, LoopInv
<1>7. CASE q.head # q.tail
  <2>1. m < n
    BY <1>4, <1>7 DEF PlaceAt
  <2>2. PICK l : l = [op |-> "turn", right |-> k > 0, base |-> items, done |-> 0, goal |-> g]
    OBVIOUS
  <2>3. q' = q /\ items' = items /\ loop' = l
    BY <1>3, <1>4, <1>7, <2>2 DEF Rotate, LoopBegins
  <2>4. /\ DOMAIN l = {"op", "right", "base", "done", "goal"} /\ l.op = "turn" /\ l.right \in BOOLEAN
        /\ l.base = items /\ l.done = 0 /\ l.goal = g
    BY <2>2
  <2>5. 0 \in Nat /\ g \in Nat /\ 0 < g /\ g < m
    BY <1>4, <1>5
  <2>6. TurnedTo(items, items, 0, l.right)
    <3>1. 0 \in 0..m /\ m > 0
      BY <1>4
    <3>2. ASSUME NEW i \in 1..m PROVE items[i] = Rotated(items, 0, l.right)[i]
      <4>1. Rotated(items, 0, l.right)[i] = items[PlaceAt(i - 1, IF l.right THEN 0 ELSE m - 0, m) + 1]
        BY <1>3, <1>4, <2>4, <3>1, RotatedFacts
      <4>2. PlaceAt(i - 1, IF l.right THEN 0 ELSE m - 0, m) + 1 = i
        BY <1>4 DEF PlaceAt
      <4> QED  BY <4>1, <4>2
    <3> QED  BY <1>3, <1>4, <3>2 DEF TurnedTo
  <2>7. LoopInv(l, items, n)
    BY <1>3, <2>1, <2>4, <2>5, <2>6 DEF LoopInv
  <2> QED  BY <1>1, <1>2, <2>3, <2>7 DEF DequeInv
<1> QED  BY <1>6, <1>7

LEMMA RotateRoundStep ==
  ASSUME DequeInv, RotateRound
  PROVE  DequeInv'
<1>1. kind = "deque" /\ kind' = "deque" /\ loop.op = "turn"
  BY DEF RotateRound, InLoop
<1>2. PICK n \in Nat : Holds(q, items, n) /\ LoopInv(loop, items, n)
  BY <1>1, DequeState
<1>3. PICK m, k, start, right, goal :
        m = Len(items) /\ k = loop.done /\ start = loop.base /\ right = loop.right /\ goal = loop.goal
  OBVIOUS
<1>4. /\ DOMAIN loop = {"op", "right", "base", "done", "goal"} /\ right \in BOOLEAN
      /\ k \in Nat /\ goal \in Nat /\ k < goal /\ goal < m /\ m < n /\ TurnedTo(items, start, k, right)
  <2>1. loop # NoLoop
    BY <1>1 DEF NoLoop
  <2> QED  BY <1>1, <1>2, <1>3, <2>1 DEF LoopInv
<1>5. q' = Turned(q, right) /\ items' = Rotated(start, k + 1, right)
      /\ loop' = IF k + 1 = goal THEN NoLoop ELSE [loop EXCEPT !.done = k + 1]
  BY <1>3 DEF RotateRound
<1>6. /\ start \in Seq(Elems) /\ Len(start) = m /\ m \in Nat /\ m > 0 /\ k + 1 < m /\ k \in 0..m /\ k + 1 \in 0..m
      /\ k + 1 \in Nat
  <2>1. start \in Seq(Elems) /\ Len(start) = m /\ m \in Nat
    BY <1>2, <1>3, <1>4, HoldsFacts DEF TurnedTo
  <2> QED  BY <1>4, <2>1
<1>7. PICK a, t : a = Rotated(start, k, right) /\ t = Rotated(start, k + 1, right)
  OBVIOUS
<1>8. /\ t \in Seq(Elems) /\ Len(t) = m
      /\ right => t[m] = a[1] /\ \A i \in 1..(m - 1) : t[i] = a[i + 1]
      /\ ~right => t[1] = a[m] /\ \A i \in 1..(m - 1) : t[i + 1] = a[i]
  <2>1. start \in Seq(Elems) /\ k \in Nat /\ k + 1 < Len(start) /\ right \in BOOLEAN
    BY <1>4, <1>6
  <2>2. TurnedOnce(a, t, Len(start), right)
    BY <1>7, <2>1, RotatedMore
  <2> QED  BY <1>6, <2>2 DEF TurnedOnce
<1>9. \A i \in 1..m : items[i] = a[i]
  BY <1>3, <1>4, <1>7 DEF TurnedTo
<1>10. \A i \in 1..(m - 1) : i \in 1..m /\ i + 1 \in 1..m
  BY <1>6
<1>11. /\ right => t[m] = items[1] /\ \A i \in 1..(m - 1) : t[i] = items[i + 1]
       /\ ~right => t[1] = items[m] /\ \A i \in 1..(m - 1) : t[i + 1] = items[i]
  <2>1. 1 \in 1..m /\ m \in 1..m
    BY <1>6
  <2> QED  BY <1>8, <1>9, <1>10, <2>1
<1>12. Holds(Turned(q, right), t, n)
  <2>1. Len(items) < n /\ Len(items) > 0 /\ Len(t) = Len(items)
    BY <1>3, <1>4, <1>6, <1>8
  <2> QED  BY <1>2, <1>3, <1>4, <1>8, <1>11, <2>1, TurnedFacts
<1>13. Holds(q', items', n)
  BY <1>5, <1>7, <1>12
<1>14. LoopInv(loop', t, n)
  <2>1. CASE k + 1 = goal
    BY <1>5, <2>1 DEF LoopInv
  <2>2. CASE k + 1 # goal
    <3>1. PICK l : l = [loop EXCEPT !.done = k + 1]
      OBVIOUS
    <3>2. /\ DOMAIN l = {"op", "right", "base", "done", "goal"} /\ l.op = "turn" /\ l.right = right
          /\ l.base = start /\ l.done = k + 1 /\ l.goal = goal
      BY <1>1, <1>3, <1>4, <3>1
    <3>3. TurnedTo(t, start, k + 1, right)
      BY <1>6, <1>7, <1>8 DEF TurnedTo
    <3>4. k + 1 < goal
      BY <1>4, <1>6, <2>2
    <3>5. LoopInv(l, t, n)
      BY <1>4, <1>6, <1>8, <3>2, <3>3, <3>4 DEF LoopInv
    <3> QED  BY <1>5, <2>2, <3>1, <3>5
  <2> QED  BY <2>1, <2>2
<1> QED  BY <1>1, <1>5, <1>7, <1>13, <1>14 DEF DequeInv

LEMMA InsertStep ==
  ASSUME DequeInv, NEW i \in 0..MaxLength, NEW e \in Elems, DequeInsert(i, e)
  PROVE  DequeInv'
<1>1. kind = "deque" /\ kind' = "deque"
  BY DEF DequeInsert, LoopBegins
<1>2. PICK n \in Nat : Holds(q, items, n)
  BY <1>1, DequeState
<1>3. PICK m, s, at : m = Len(s) /\ s = items /\ at = i + 1
  OBVIOUS
<1>4. m \in Nat /\ q.count = m /\ s \in Seq(Elems) /\ at \in 1..(m + 1)
  <2>1. m \in Nat /\ q.count = m /\ s \in Seq(Elems)
    BY <1>2, <1>3, HoldsFacts DEF Holds
  <2>2. i <= m /\ i \in Nat
    BY <2>1, DequeAssumption DEF DequeInsert
  <2> QED  BY <1>3, <2>1, <2>2
<1>5. PICK p : p = IF i * 2 < m THEN 1 ELSE m + 1
  OBVIOUS
<1>6. p \in 1..(m + 1)
  BY <1>4, <1>5
<1>7. /\ items' = InsertAt(s, p, e) /\ loop' = (IF p = at THEN NoLoop ELSE Moving(e, s, p, at, "stays"))
      /\ q' = IF i * 2 < m THEN PushedFront(q, e) ELSE PushedBack(q, e)
  BY <1>3, <1>4, <1>5 DEF DequeInsert, LoopBegins
<1>8. HeldBy(q', items')
  <2>1. CASE i * 2 < m
    <3>1. p = 1
      BY <1>5, <2>1
    <3>2. AddedFront(items, items', e)
      BY <1>3, <1>4, <1>7, <3>1, SequenceFacts
    <3> QED  BY <1>2, <1>7, <2>1, <3>2, PushedFrontFacts
  <2>2. CASE ~(i * 2 < m)
    <3>1. p = Len(s) + 1
      BY <1>3, <1>5, <2>2
    <3>2. AddedBack(items, items', e)
      BY <1>3, <1>4, <1>7, <3>1, SequenceFacts
    <3> QED  BY <1>2, <1>7, <2>2, <3>2, PushedBackFacts
  <2> QED  BY <2>1, <2>2
<1>9. PICK t : t = InsertAt(s, p, e)
  OBVIOUS
<1>10. MovedTo(t, s, p, e) /\ Len(t) = m + 1
  <2>1. p \in 1..(Len(s) + 1)
    BY <1>3, <1>6
  <2>2. MovedTo(t, s, p, e)
    BY <1>4, <1>9, <2>1, InsertedFacts
  <2> QED  BY <1>3, <2>2 DEF MovedTo
<1>11. ASSUME NEW k \in Nat PROVE LoopInv(loop', t, k)
  <2>1. CASE p = at
    BY <1>7, <2>1 DEF LoopInv
  <2>2. CASE p # at
    <3>1. PICK l : l = Moving(e, s, p, at, "stays")
      OBVIOUS
    <3>2. /\ DOMAIN l = {"op", "elem", "rest", "pos", "goal", "then"} /\ l.op = "move" /\ l.elem = e
          /\ l.rest = s /\ l.pos = p /\ l.goal = at /\ l.then = "stays"
      BY <3>1 DEF Moving
    <3>3. at \in 1..Len(t)
      BY <1>4, <1>10
    <3>4. LoopInv(l, t, k)
      BY <1>10, <2>2, <3>2, <3>3 DEF LoopInv
    <3> QED  BY <1>7, <2>2, <3>1, <3>4
  <2> QED  BY <2>1, <2>2
<1> QED  BY <1>1, <1>7, <1>8, <1>9, <1>11 DEF DequeInv, HeldBy

LEMMA RemoveStep ==
  ASSUME DequeInv, NEW i \in 0..MaxLength, DequeRemove(i)
  PROVE  DequeInv'
<1>1. kind = "deque" /\ kind' = "deque" /\ q' = q /\ items' = items
  BY DEF DequeRemove, LoopBegins
<1>2. PICK n \in Nat : Holds(q, items, n)
  BY <1>1, DequeState
<1>3. PICK m, s, at, e, rest : m = Len(s) /\ s = items /\ at = i + 1 /\ e = s[at] /\ rest = RemoveAt(s, at)
  OBVIOUS
<1>4. m \in Nat /\ q.count = m /\ s \in Seq(Elems) /\ at \in 1..m /\ e \in Elems
  <2>1. m \in Nat /\ q.count = m /\ s \in Seq(Elems)
    BY <1>2, <1>3, HoldsFacts DEF Holds
  <2>2. i < m /\ i \in Nat
    BY <2>1, DequeAssumption DEF DequeRemove
  <2>3. at \in 1..m
    BY <1>3, <2>1, <2>2
  <2> QED  BY <1>3, <2>1, <2>3, ElementOfSeq
<1>5. rest \in Seq(Elems) /\ Len(rest) = m - 1 /\ \A j \in 1..(m - 1) : rest[j] = IF j < at THEN s[j] ELSE s[j + 1]
  BY <1>3, <1>4, RemoveAtFacts
<1>6. PICK goal, end : /\ goal = (IF i * 2 < m THEN 1 ELSE m)
                       /\ end = (IF i * 2 < m THEN "popFront" ELSE "popBack")
  OBVIOUS
<1>7. PICK l : l = Moving(e, rest, at, goal, end)
  OBVIOUS
<1>8. loop' = l
  BY <1>3, <1>4, <1>6, <1>7 DEF DequeRemove, LoopBegins
<1>9. /\ DOMAIN l = {"op", "elem", "rest", "pos", "goal", "then"} /\ l.op = "move" /\ l.elem = e
      /\ l.rest = rest /\ l.pos = at /\ l.goal = goal /\ l.then = end
  BY <1>7 DEF Moving
<1>10. MovedTo(s, rest, at, e)
  <2>1. m = Len(rest) + 1
    BY <1>4, <1>5
  <2>2. ASSUME NEW j \in 1..m PROVE s[j] = IF j < at THEN rest[j] ELSE IF j = at THEN e ELSE rest[j - 1]
    <3>1. CASE j < at
      <4>1. j \in 1..(m - 1)
        BY <1>4, <3>1
      <4> QED  BY <1>5, <3>1, <4>1
    <3>2. CASE j = at
      BY <1>3, <1>4, <3>2
    <3>3. CASE j > at
      <4>1. j - 1 \in 1..(m - 1) /\ ~(j - 1 < at) /\ (j - 1) + 1 = j /\ ~(j < at) /\ j # at
        BY <1>4, <3>3
      <4> QED  BY <1>5, <4>1
    <3> QED  BY <1>4, <3>1, <3>2, <3>3
  <2> QED  BY <1>3, <1>4, <1>5, <2>1, <2>2 DEF MovedTo
<1>11. goal \in 1..m /\ ((end = "popFront" /\ goal = 1) \/ (end = "popBack" /\ goal = m))
  BY <1>4, <1>6
<1>12. LoopInv(l, s, n)
  BY <1>3, <1>9, <1>10, <1>11 DEF LoopInv
<1> QED  BY <1>1, <1>2, <1>3, <1>8, <1>12 DEF DequeInv

LEMMA SwapRoundStep ==
  ASSUME DequeInv, SwapRound
  PROVE  DequeInv'
<1>1. kind = "deque" /\ kind' = "deque" /\ loop.op = "move"
  BY DEF SwapRound, InLoop
<1>2. PICK n \in Nat : Holds(q, items, n) /\ LoopInv(loop, items, n)
  BY <1>1, DequeState
<1>3. PICK m, p, goal, rest, e, end, z :
        /\ m = Len(items) /\ p = loop.pos /\ goal = loop.goal /\ rest = loop.rest
        /\ e = loop.elem /\ end = loop.then /\ z = IF p < goal THEN p + 1 ELSE p - 1
  OBVIOUS
<1>4. /\ DOMAIN loop = {"op", "elem", "rest", "pos", "goal", "then"} /\ goal \in 1..m /\ MovedTo(items, rest, p, e)
      /\ \/ end = "stays"
         \/ end = "popFront" /\ goal = 1
         \/ end = "popBack" /\ goal = m
  <2>1. loop # NoLoop
    BY <1>1 DEF NoLoop
  <2> QED  BY <1>1, <1>2, <1>3, <2>1 DEF LoopInv
<1>5. m \in Nat /\ p \in 1..m /\ p # goal
  BY <1>2, <1>3, <1>4, HoldsFacts DEF MovedTo, SwapRound
<1>6. z \in 1..m /\ (z = p + 1 \/ z = p - 1)
  BY <1>3, <1>4, <1>5
<1>7. /\ q' = Swapped(q, (q.head + p - 1) % CapOf(q), (q.head + z - 1) % CapOf(q))
      /\ items' = InsertAt(rest, z, e)
      /\ loop' = IF z = goal /\ end = "stays" THEN NoLoop ELSE [loop EXCEPT !.pos = z]
  BY <1>3 DEF SwapRound
<1>8. Holds(q', items', n) /\ MovedTo(items', rest, z, e)
  <2>1. PICK r, s : r = q /\ s = items
    OBVIOUS
  <2>2. /\ Holds(Swapped(r, (r.head + p - 1) % CapOf(r), (r.head + z - 1) % CapOf(r)), InsertAt(rest, z, e), n)
        /\ MovedTo(InsertAt(rest, z, e), rest, z, e)
    BY <1>2, <1>3, <1>4, <1>6, <2>1, MovedOn
  <2> QED  BY <1>7, <2>1, <2>2
<1>9. Len(items') = m
  BY <1>3, <1>4, <1>8 DEF MovedTo
<1>10. LoopInv(loop', items', n)
  <2>1. CASE z = goal /\ end = "stays"
    BY <1>7, <2>1 DEF LoopInv
  <2>2. CASE ~(z = goal /\ end = "stays")
    <3>1. PICK l, t : l = [loop EXCEPT !.pos = z] /\ t = items'
      OBVIOUS
    <3>2. /\ DOMAIN l = {"op", "elem", "rest", "pos", "goal", "then"} /\ l.op = "move" /\ l.elem = e
          /\ l.rest = rest /\ l.pos = z /\ l.goal = goal /\ l.then = end
      BY <1>1, <1>3, <1>4, <3>1
    <3>3. goal \in 1..Len(t) /\ MovedTo(t, rest, z, e) /\ Len(t) = m
      BY <1>4, <1>8, <1>9, <3>1
    <3>4. LoopInv(l, t, n)
      BY <1>4, <2>2, <3>2, <3>3 DEF LoopInv
    <3> QED  BY <1>7, <2>2, <3>1, <3>4
  <2> QED  BY <2>1, <2>2
<1> QED  BY <1>1, <1>8, <1>10 DEF DequeInv

LEMMA RemoveEndsStep ==
  ASSUME DequeInv, RemoveEnds
  PROVE  DequeInv'
<1>1. kind = "deque" /\ kind' = "deque" /\ loop.op = "move" /\ loop' = NoLoop
  BY DEF RemoveEnds, InLoop
<1>2. PICK n \in Nat : Holds(q, items, n) /\ LoopInv(loop, items, n)
  BY <1>1, DequeState
<1>3. PICK m, p, rest, e, end :
        m = Len(items) /\ p = loop.pos /\ rest = loop.rest /\ e = loop.elem /\ end = loop.then
  OBVIOUS
<1>4. /\ MovedTo(items, rest, p, e)
      /\ (end = "popFront" /\ p = 1) \/ (end = "popBack" /\ p = m)
  <2>1. loop # NoLoop /\ loop.pos = loop.goal
    BY <1>1 DEF NoLoop, RemoveEnds
  <2> QED  BY <1>1, <1>2, <1>3, <2>1 DEF LoopInv
<1>5. q' = (IF end = "popFront" THEN PoppedFront(q) ELSE PoppedBack(q)) /\ items' = rest
  BY <1>3 DEF RemoveEnds
<1>6. /\ m \in Nat /\ rest \in Seq(Elems) /\ Len(rest) \in Nat /\ m = Len(rest) + 1 /\ p \in 1..m
      /\ \A i \in 1..m : items[i] = IF i < p THEN rest[i] ELSE IF i = p THEN e ELSE rest[i - 1]
  BY <1>2, <1>3, <1>4, HoldsFacts, LenProperties DEF MovedTo
<1>7. CASE end = "popFront" /\ p = 1
  <2>1. ASSUME NEW i \in 1..Len(rest) PROVE rest[i] = items[i + 1]
    <3>1. i + 1 \in 1..m /\ ~(i + 1 < p) /\ i + 1 # p /\ (i + 1) - 1 = i
      BY <1>6, <1>7
    <3> QED  BY <1>6, <3>1
  <2>2. TakenFront(items, rest)
    <3>1. Len(items) > 0 /\ Len(rest) = Len(items) - 1
      BY <1>3, <1>6
    <3> QED  BY <1>6, <2>1, <3>1 DEF TakenFront
  <2>3. HeldBy(PoppedFront(q), rest)
    BY <1>2, <2>2, PoppedFrontFacts
  <2>4. HeldBy(q', items')
    BY <1>5, <1>7, <2>3
  <2> QED  BY <1>1, <2>4, RingDone
<1>8. CASE end = "popBack" /\ p = m
  <2>1. ASSUME NEW i \in 1..Len(rest) PROVE rest[i] = items[i]
    <3>1. i \in 1..m /\ i < p
      BY <1>6, <1>8
    <3> QED  BY <1>6, <3>1
  <2>2. TakenBack(items, rest)
    <3>1. Len(items) > 0 /\ Len(rest) = Len(items) - 1
      BY <1>3, <1>6
    <3> QED  BY <1>6, <2>1, <3>1 DEF TakenBack
  <2>3. HeldBy(PoppedBack(q), rest)
    BY <1>2, <2>2, PoppedBackFacts
  <2>4. HeldBy(q', items')
    BY <1>5, <1>8, <2>3
  <2> QED  BY <1>1, <2>4, RingDone
<1> QED  BY <1>4, <1>7, <1>8

\* What an SQueue of n slots is made of.
LEMMA SHoldsFacts ==
  ASSUME NEW r, NEW s, NEW n, SHolds(r, s, n)
  PROVE  /\ CapOf(r) = n /\ n \in Nat /\ n > 0 /\ Len(s) \in Nat /\ Len(s) < n
         /\ r.head \in 0..(n - 1) /\ r.tail = PlaceAt(r.head, Len(s), n) /\ r.tail \in 0..(n - 1)
         /\ (r.tail + 1) % n = PlaceAt(r.tail, 1, n)
<1>1. /\ CapOf(r) = n /\ n \in Nat /\ Len(s) \in Nat /\ Len(s) < n
      /\ r.head \in 0..(n - 1) /\ r.tail = PlaceAt(r.head, Len(s), n)
  BY CapFacts, LenProperties DEF SHolds
<1>2. n > 0 /\ Len(s) \in 0..n /\ 1 \in 0..n
  BY <1>1
<1>3. r.tail \in 0..(n - 1)
  BY <1>1, <1>2, PlaceFacts
<1>4. (r.tail + 1) % n = PlaceAt(r.tail, 1, n)
  BY <1>1, <1>2, <1>3, PlaceFacts
<1> QED  BY <1>1, <1>2, <1>3, <1>4

\* The slot after the last is the head when it is full, and len counts the elements.
LEMMA SLenFacts ==
  ASSUME NEW r, NEW s, NEW n, SHolds(r, s, n)
  PROVE  /\ (r.tail + 1) % n = r.head <=> Len(s) = n - 1
         /\ r.head = r.tail <=> Len(s) = 0
         /\ (IF r.head <= r.tail THEN r.tail - r.head ELSE n - r.head + r.tail) = Len(s)
<1>1. PICK h, t, m : h = r.head /\ t = r.tail /\ m = Len(s)
  OBVIOUS
<1>2. n \in Nat /\ n > 0 /\ m \in Nat /\ m < n /\ h \in 0..(n - 1) /\ t = PlaceAt(h, m, n)
      /\ (t + 1) % n = PlaceAt(t, 1, n)
  BY <1>1, SHoldsFacts
<1>3. PlaceAt(t, 1, n) = h <=> m = n - 1
  BY <1>2 DEF PlaceAt
<1>4. h = t <=> m = 0
  BY <1>2 DEF PlaceAt
<1>5. (IF h <= t THEN t - h ELSE n - h + t) = m
  BY <1>2 DEF PlaceAt
<1> QED  BY <1>1, <1>2, <1>3, <1>4, <1>5

LEMMA SPushFacts ==
  ASSUME NEW r, NEW s, NEW n, SHolds(r, s, n), NEW c, CursorAt(c, r, s, n), NEW e \in Elems,
         NEW z, z = (r.tail + 1) % n, z # r.head
  PROVE  /\ SHolds([r EXCEPT !.tail = z, !.buf[z] = e], Append(s, e), n)
         /\ CursorAt([c EXCEPT !.rest = Append(@, e)], [r EXCEPT !.tail = z, !.buf[z] = e], Append(s, e), n)
<1>1. PICK h, m, b, d, t, k, f : /\ h = r.head /\ m = Len(s) /\ b = [r.buf EXCEPT ![z] = e]
                                 /\ d = [r EXCEPT !.tail = z, !.buf = b] /\ t = Append(s, e)
                                 /\ k = Append(c.rest, e) /\ f = [c EXCEPT !.rest = k]
  OBVIOUS
<1>2. /\ n \in Nat /\ m \in Nat /\ m < n /\ h \in 0..(n - 1) /\ r.tail = PlaceAt(h, m, n)
      /\ z = PlaceAt(r.tail, 1, n)
  BY <1>1, SHoldsFacts
<1>3. /\ DOMAIN r = RingFields /\ DOMAIN r.buf = 0..(n - 1) /\ s \in Seq(Elems)
      /\ \A i \in 1..m : r.buf[PlaceAt(h, i, n)] = s[i]
  BY <1>1 DEF SHolds
<1>4. m + 1 < n
  <2>1. (r.tail + 1) % n = r.head <=> Len(s) = n - 1
    BY SLenFacts
  <2>2. m # n - 1
    BY <1>1, <2>1
  <2> QED  BY <1>2, <2>2
<1>5. z = PlaceAt(h, m + 1, n) /\ z \in 0..(n - 1)
  BY <1>2, <1>4 DEF PlaceAt
<1>6. DOMAIN d = RingFields /\ d.buf = b /\ d.head = h /\ d.tail = z
  BY <1>1, <1>3 DEF RingFields
<1>7. DOMAIN b = 0..(n - 1) /\ b[z] = e /\ \A i \in 0..(n - 1) : i # z => b[i] = r.buf[i]
  BY <1>1, <1>3, <1>5
<1>8. t \in Seq(Elems) /\ Len(t) = m + 1 /\ t[m + 1] = e /\ \A i \in 1..m : t[i] = s[i]
  BY <1>1, <1>3, AppendProperties
<1>9. ASSUME NEW i \in 1..(m + 1) PROVE b[PlaceAt(h, i, n)] = t[i]
  <2>1. CASE i = m + 1
    BY <1>5, <1>7, <1>8, <2>1
  <2>2. CASE i # m + 1
    <3>1. i \in 1..m
      BY <1>2, <2>2
    <3>2. PlaceAt(h, i, n) \in 0..(n - 1) /\ PlaceAt(h, i, n) # z
      BY <1>2, <1>4, <1>5, <3>1 DEF PlaceAt
    <3> QED  BY <1>3, <1>7, <1>8, <3>1, <3>2
  <2> QED  BY <2>1, <2>2
<1>10. SHolds(d, t, n)
  <2>1. Len(t) < n /\ d.tail = PlaceAt(d.head, Len(t), n) /\ \A i \in 1..Len(t) : d.buf[PlaceAt(d.head, i, n)] = t[i]
    BY <1>4, <1>5, <1>6, <1>8, <1>9
  <2> QED  BY <1>2, <1>6, <1>7, <1>8, <2>1 DEF SHolds
<1>11. PICK x : x = Len(c.rest)
  OBVIOUS
<1>12. /\ c.rest \in Seq(Elems) /\ x \in Nat /\ x <= m /\ c.pos = PlaceAt(h, m - x, n)
       /\ \A i \in 1..x : c.rest[i] = s[m - x + i]
  BY <1>1, <1>11, LenProperties DEF CursorAt
<1>13. DOMAIN f = {"pos", "rest"} /\ f.rest = k /\ f.pos = c.pos
  BY <1>1 DEF CursorAt
<1>14. k \in Seq(Elems) /\ Len(k) = x + 1 /\ k[x + 1] = e /\ \A i \in 1..x : k[i] = c.rest[i]
  BY <1>1, <1>11, <1>12, AppendProperties
<1>15. (m + 1) - (x + 1) = m - x /\ x + 1 <= m + 1
  BY <1>2, <1>12
<1>16. ASSUME NEW i \in 1..(x + 1) PROVE k[i] = t[m - x + i]
  <2>1. CASE i = x + 1
    <3>1. m - x + i = m + 1
      BY <1>2, <1>12, <2>1
    <3> QED  BY <1>8, <1>14, <2>1, <3>1
  <2>2. CASE i # x + 1
    <3>1. i \in 1..x /\ m - x + i \in 1..m
      BY <1>2, <1>12, <2>2
    <3> QED  BY <1>8, <1>12, <1>14, <3>1
  <2> QED  BY <2>1, <2>2
<1>17. CursorAt(f, d, t, n)
  BY <1>6, <1>8, <1>12, <1>13, <1>14, <1>15, <1>16 DEF CursorAt
<1> QED  BY <1>1, <1>10, <1>17

\* Places add up.
LEMMA PlacesAdd ==
  ASSUME NEW n \in Nat, NEW g \in 0..(n - 1), NEW k \in Nat, NEW i \in Nat, k + i <= n
  PROVE  PlaceAt(PlaceAt(g, k, n), i, n) = PlaceAt(g, k + i, n)
BY DEF PlaceAt

\* The first k elements go, and the cursor is at the first of the others.
LEMMA SDropFacts ==
  ASSUME NEW r, NEW s, NEW n, SHolds(r, s, n), NEW k \in 0..Len(s), NEW h, h = (r.head + k) % n,
         NEW t \in Seq(Elems), Len(t) = Len(s) - k, \A i \in 1..Len(t) : t[i] = s[k + i]
  PROVE  /\ SHolds([r EXCEPT !.head = h], t, n)
         /\ CursorAt([pos |-> h, rest |-> t], [r EXCEPT !.head = h], t, n)
<1>1. PICK g, m, c, f : g = r.head /\ m = Len(s) /\ c = [r EXCEPT !.head = h] /\ f = [pos |-> h, rest |-> t]
  OBVIOUS
<1>2. n \in Nat /\ n > 0 /\ m \in Nat /\ m < n /\ g \in 0..(n - 1) /\ r.tail = PlaceAt(g, m, n) /\ k \in 0..m
  BY <1>1, SHoldsFacts
<1>3. /\ DOMAIN r = RingFields /\ DOMAIN r.buf = 0..(n - 1)
      /\ \A i \in 1..m : r.buf[PlaceAt(g, i, n)] = s[i]
  BY <1>1 DEF SHolds
<1>4. h = PlaceAt(g, k, n) /\ h \in 0..(n - 1)
  <2>1. k \in 0..n
    BY <1>2
  <2> QED  BY <1>1, <1>2, <2>1, PlaceFacts
<1>5. DOMAIN c = RingFields /\ c.buf = r.buf /\ c.head = h /\ c.tail = r.tail
  BY <1>1, <1>3 DEF RingFields
<1>6. c.tail = PlaceAt(h, m - k, n) /\ m - k < n
  <2>1. k \in Nat /\ m - k \in Nat /\ k + (m - k) = m /\ m <= n /\ m - k < n
    BY <1>2
  <2> QED  BY <1>2, <1>4, <1>5, <2>1, PlacesAdd
<1>7. ASSUME NEW i \in 1..(m - k) PROVE c.buf[PlaceAt(h, i, n)] = t[i]
  <2>1. k + i \in 1..m /\ PlaceAt(h, i, n) = PlaceAt(g, k + i, n)
    <3>1. k \in Nat /\ i \in Nat /\ k + i <= n /\ k + i \in 1..m
      BY <1>2
    <3> QED  BY <1>2, <1>4, <3>1, PlacesAdd
  <2>2. t[i] = s[k + i]
    BY <1>1
  <2> QED  BY <1>3, <1>5, <2>1, <2>2
<1>8. Len(t) = m - k
  BY <1>1
<1>9. SHolds(c, t, n)
  BY <1>2, <1>3, <1>4, <1>5, <1>6, <1>7, <1>8 DEF SHolds
<1>10. CursorAt(f, c, t, n)
  <2>1. DOMAIN f = {"pos", "rest"} /\ f.rest = t /\ f.pos = h
    BY <1>1
  <2>2. PICK x : x = Len(t)
    OBVIOUS
  <2>3. x \in Nat /\ x - x = 0 /\ x <= x /\ h = PlaceAt(h, 0, n) /\ \A i \in 1..x : t[i] = t[x - x + i]
    <3>1. x \in Nat
      BY <2>2, LenProperties
    <3>2. x - x = 0 /\ x <= x /\ \A i \in 1..x : x - x + i = i
      BY <3>1
    <3>3. h = PlaceAt(h, 0, n)
      BY <1>2, <1>4 DEF PlaceAt
    <3> QED  BY <3>1, <3>2, <3>3
  <2> QED  BY <1>5, <2>1, <2>2, <2>3 DEF CursorAt
<1> QED  BY <1>1, <1>9, <1>10

LEMMA CursorNextFacts ==
  ASSUME NEW r, NEW s, NEW n, SHolds(r, s, n), NEW c, CursorAt(c, r, s, n)
  PROVE  /\ c.pos = r.tail <=> Len(c.rest) = 0
         /\ Len(c.rest) > 0 => /\ r.buf[(c.pos + 1) % n] = c.rest[1]
                               /\ CursorAt([pos |-> (c.pos + 1) % n, rest |-> Tail(c.rest)], r, s, n)
<1>1. PICK h, m, x, p : h = r.head /\ m = Len(s) /\ x = Len(c.rest) /\ p = c.pos
  OBVIOUS
<1>2. /\ n \in Nat /\ n > 0 /\ m \in Nat /\ m < n /\ h \in 0..(n - 1) /\ r.tail = PlaceAt(h, m, n)
      /\ \A i \in 1..m : r.buf[PlaceAt(h, i, n)] = s[i]
  BY <1>1, SHoldsFacts DEF SHolds
<1>3. /\ c.rest \in Seq(Elems) /\ x \in Nat /\ x <= m /\ p = PlaceAt(h, m - x, n)
      /\ \A i \in 1..x : c.rest[i] = s[m - x + i]
  BY <1>1, LenProperties DEF CursorAt
<1>4. p = r.tail <=> x = 0
  BY <1>2, <1>3 DEF PlaceAt
<1>5. ASSUME x > 0
      PROVE  /\ r.buf[(p + 1) % n] = c.rest[1]
             /\ CursorAt([pos |-> (p + 1) % n, rest |-> Tail(c.rest)], r, s, n)
  <2>1. p \in 0..(n - 1) /\ 1 \in 0..n
    BY <1>2, <1>3 DEF PlaceAt
  <2>2. (p + 1) % n = PlaceAt(p, 1, n)
    BY <1>2, <2>1, PlaceFacts
  <2>3. PlaceAt(p, 1, n) = PlaceAt(h, m - x + 1, n) /\ m - x + 1 \in 1..m /\ 1 \in 1..x
    BY <1>2, <1>3, <1>5 DEF PlaceAt
  <2>4. r.buf[(p + 1) % n] = c.rest[1]
    BY <1>2, <1>3, <2>2, <2>3
  <2>5. PICK t, f : t = Tail(c.rest) /\ f = [pos |-> (p + 1) % n, rest |-> t]
    OBVIOUS
  <2>6. TakenFront(c.rest, t)
    BY <1>1, <1>3, <1>5, <2>5, TailFacts
  <2>7. t \in Seq(Elems) /\ Len(t) = x - 1 /\ \A i \in 1..(x - 1) : t[i] = c.rest[i + 1]
    BY <1>1, <2>6 DEF TakenFront
  <2>8. m - (x - 1) = m - x + 1 /\ x - 1 <= m
    BY <1>2, <1>3
  <2>9. ASSUME NEW i \in 1..(x - 1) PROVE t[i] = s[m - (x - 1) + i]
    <3>1. i + 1 \in 1..x /\ m - x + (i + 1) = m - (x - 1) + i
      BY <1>2, <1>3
    <3> QED  BY <1>3, <2>7, <3>1
  <2>10. DOMAIN f = {"pos", "rest"} /\ f.rest = t /\ f.pos = PlaceAt(h, m - (x - 1), n)
    BY <2>2, <2>3, <2>5, <2>8
  <2>11. CursorAt(f, r, s, n)
    BY <1>1, <2>7, <2>8, <2>9, <2>10 DEF CursorAt
  <2> QED  BY <2>4, <2>5, <2>11
<1> QED  BY <1>1, <1>4, <1>5

LEMMA SQueueStep ==
  ASSUME DequeInv, NEW e, NEW i \in 0..MaxLength,
         (e \in Elems /\ SQueuePush(e)) \/ RemoveElement(i) \/ SQueuePop \/ CursorNext
  PROVE  DequeInv'
<1>1. kind = "squeue" /\ kind' = "squeue" /\ loop' = NoLoop
  BY DEF SQueuePush, RemoveElement, SQueuePop, CursorNext, Of
<1>2. PICK n, r, s, c : n = MaxLength + 1 /\ r = q /\ s = items /\ c = cursor
  OBVIOUS
<1>3. SHolds(r, s, n) /\ CursorAt(c, r, s, n)
  BY <1>1, <1>2, SQueueState
<1>4. CapOf(r) = n /\ n \in Nat /\ n > 0 /\ Len(s) \in Nat /\ Len(s) < n /\ s \in Seq(Elems)
  BY <1>3, SHoldsFacts DEF SHolds
<1>5. len = Len(s)
  <2>1. (IF r.head <= r.tail THEN r.tail - r.head ELSE n - r.head + r.tail) = Len(s)
    BY <1>3, SLenFacts
  <2> QED  BY <1>2, <1>4, <2>1 DEF len
<1> SUFFICES SHolds(q', items', n) /\ CursorAt(cursor', q', items', n)
  BY <1>1, <1>2 DEF DequeInv
<1>6. CASE e \in Elems /\ SQueuePush(e)
  <2>1. PICK z : z = (r.tail + 1) % n
    OBVIOUS
  <2>2. CASE z = r.head
    <3>1. q' = r /\ items' = s /\ cursor' = c
      BY <1>2, <1>4, <1>6, <2>1, <2>2 DEF SQueuePush
    <3> QED  BY <1>3, <3>1
  <2>3. CASE z # r.head
    <3>1. /\ q' = [r EXCEPT !.tail = z, !.buf[z] = e] /\ items' = Append(s, e)
          /\ cursor' = [c EXCEPT !.rest = Append(@, e)]
      BY <1>2, <1>4, <1>6, <2>1, <2>3 DEF SQueuePush
    <3>2. /\ SHolds([r EXCEPT !.tail = z, !.buf[z] = e], Append(s, e), n)
          /\ CursorAt([c EXCEPT !.rest = Append(@, e)], [r EXCEPT !.tail = z, !.buf[z] = e], Append(s, e), n)
      BY <1>3, <1>6, <2>1, <2>3, SPushFacts
    <3> QED  BY <3>1, <3>2
  <2> QED  BY <2>2, <2>3
<1>7. ASSUME NEW k \in 0..Len(s), NEW t \in Seq(Elems), Len(t) = Len(s) - k, \A j \in 1..Len(t) : t[j] = s[k + j],
             NEW h, h = (r.head + k) % n, q' = [r EXCEPT !.head = h], items' = t, cursor' = CursorFirst
      PROVE  SHolds(q', items', n) /\ CursorAt(cursor', q', items', n)
  <2>1. SHolds([r EXCEPT !.head = h], t, n) /\ CursorAt([pos |-> h, rest |-> t], [r EXCEPT !.head = h], t, n)
    BY <1>3, <1>7, SDropFacts
  <2>2. [r EXCEPT !.head = h].head = h
    BY <1>3 DEF SHolds, RingFields
  <2>3. cursor' = [pos |-> h, rest |-> t]
    BY <1>7, <2>2 DEF CursorFirst
  <2> QED  BY <1>7, <2>1, <2>3
<1>8. CASE RemoveElement(i)
  <2>1. PICK k, t, h, m : /\ k = (IF i > Len(s) THEN Len(s) ELSE i) /\ t = SubSeq(s, k + 1, Len(s))
                          /\ h = (r.head + k) % n /\ m = Len(s)
    OBVIOUS
  <2>2. q' = [r EXCEPT !.head = h] /\ items' = t /\ cursor' = CursorFirst
    BY <1>2, <1>4, <1>5, <1>8, <2>1 DEF RemoveElement
  <2>3. k \in 0..m /\ m \in Nat
    <3>1. i \in Nat /\ m \in Nat
      BY <1>4, <2>1, DequeAssumption
    <3> QED  BY <2>1, <3>1
  <2>4. k \in 0..Len(s)
    BY <2>1, <2>3
  <2>5. t \in Seq(Elems) /\ Len(t) = Len(s) - k /\ \A j \in 1..(Len(s) - k) : t[j] = s[k + j]
    BY <1>4, <2>1, <2>4, DropFacts
  <2> QED  BY <1>7, <2>1, <2>2, <2>4, <2>5
<1>9. CASE SQueuePop
  <2>1. PICK t, h : t = Tail(s) /\ h = (r.head + 1) % n
    OBVIOUS
  <2>2. q' = [r EXCEPT !.head = h] /\ items' = t /\ cursor' = CursorFirst /\ r.head # r.tail
    BY <1>2, <1>4, <1>9, <2>1 DEF SQueuePop
  <2>3. Len(s) > 0
    <3>1. r.head = r.tail <=> Len(s) = 0
      BY <1>3, SLenFacts
    <3> QED  BY <1>4, <2>2, <3>1
  <2>4. TakenFront(s, t)
    BY <1>4, <2>1, <2>3, TailFacts
  <2>5. t \in Seq(Elems) /\ Len(t) = Len(s) - 1 /\ \A j \in 1..Len(t) : t[j] = s[1 + j]
    <3>1. t \in Seq(Elems) /\ Len(t) = Len(s) - 1 /\ \A j \in 1..Len(t) : t[j] = s[j + 1]
      BY <2>4 DEF TakenFront
    <3>2. \A j \in 1..Len(t) : j + 1 = 1 + j
      OBVIOUS
    <3> QED  BY <3>1, <3>2
  <2>6. 1 \in 0..Len(s)
    BY <1>4, <2>3
  <2> QED  BY <1>7, <2>1, <2>2, <2>5, <2>6
<1>10. CASE CursorNext
  <2>1. /\ q' = r /\ items' = s /\ c.pos # r.tail
        /\ cursor' = [pos |-> (c.pos + 1) % n, rest |-> Tail(c.rest)]
    BY <1>2, <1>4, <1>10 DEF CursorNext, NextPos
  <2>2. Len(c.rest) \in Nat
    BY <1>3, LenProperties DEF CursorAt
  <2>3. /\ c.pos = r.tail <=> Len(c.rest) = 0
        /\ Len(c.rest) > 0 => /\ r.buf[(c.pos + 1) % n] = c.rest[1]
                              /\ CursorAt([pos |-> (c.pos + 1) % n, rest |-> Tail(c.rest)], r, s, n)
    BY <1>3, CursorNextFacts
  <2>4. Len(c.rest) > 0
    BY <2>1, <2>2, <2>3
  <2> QED  BY <1>3, <2>1, <2>3, <2>4
<1> QED  BY <1>6, <1>8, <1>9, <1>10
-----------------------------------------------------------------------------
LEMMA DequeInvInit ==
  DequeInit => DequeInv
<1> SUFFICES ASSUME DequeInit PROVE DequeInv
  OBVIOUS
<1>1. kind \in {"deque", "queue", "squeue"} /\ MaxLength \in Nat /\ MinCapacity \in Nat /\ MinCapacity > 0
  BY DequeAssumption DEF DequeInit
<1>2. PICK n : n = CASE kind = "deque" -> 0 [] kind = "queue" -> MinCapacity [] kind = "squeue" -> MaxLength + 1
  OBVIOUS
<1>3. n \in Nat /\ (kind = "queue" => n > 0) /\ (kind = "squeue" => n = MaxLength + 1)
  BY <1>1, <1>2
<1>4. /\ DOMAIN q = RingFields /\ DOMAIN q.buf = 0..(n - 1) /\ q.head = 0 /\ q.tail = 0 /\ q.count = 0
      /\ items = << >> /\ loop = NoLoop
  BY <1>2 DEF DequeInit, Blank, RingFields
<1>5. Holds(q, items, n)
  BY <1>3, <1>4, EmptyHolds
<1>6. CASE kind = "deque"
  BY <1>3, <1>4, <1>5, <1>6 DEF DequeInv, LoopInv
<1>7. CASE kind = "queue"
  BY <1>3, <1>4, <1>5, <1>7 DEF DequeInv
<1>8. CASE kind = "squeue"
  <2>1. items \in Seq(Elems) /\ Len(items) = 0 /\ n > 0 /\ 0 \in 0..(n - 1) /\ 0 < n /\ 1..0 = {}
    BY <1>1, <1>3, <1>4, <1>8
  <2>2. PlaceAt(0, 0, n) = 0 /\ 0 - 0 = 0 /\ 0 <= 0
    BY <1>3, <2>1 DEF PlaceAt
  <2>3. SHolds(q, items, n)
    BY <1>3, <1>4, <2>1, <2>2 DEF SHolds
  <2>4. DOMAIN cursor = {"pos", "rest"} /\ cursor.pos = 0 /\ cursor.rest = items
    BY <1>4 DEF DequeInit
  <2>5. CursorAt(cursor, q, items, n)
    BY <1>4, <2>1, <2>2, <2>4 DEF CursorAt
  <2> QED  BY <1>3, <1>4, <1>8, <2>3, <2>5 DEF DequeInv
<1> QED  BY <1>1, <1>6, <1>7, <1>8

LEMMA DequeInvNext ==
  DequeInv /\ [DequeNext]_dequeVars => DequeInv'
<1> SUFFICES ASSUME DequeInv, [DequeNext]_dequeVars PROVE DequeInv'
  OBVIOUS
<1>0. 0 \in 0..MaxLength
  BY DequeAssumption
<1>1. CASE UNCHANGED dequeVars
  BY <1>1 DEF DequeInv, dequeVars
<1>2. ASSUME NEW e \in Elems, PushBack(e) \/ PushFront(e) \/ QueueAdd(e) \/ SQueuePush(e) PROVE DequeInv'
  BY <1>0, <1>2, EndsStep, QueueStep, SQueueStep
<1>3. ASSUME NEW e \in Elems, NEW i \in 0..MaxLength, DequeSet(i, e) \/ DequeInsert(i, e) PROVE DequeInv'
  BY <1>3, SetClearStep, InsertStep
<1>4. ASSUME NEW i \in 0..MaxLength, DequeRemove(i) \/ RemoveElement(i) PROVE DequeInv'
  BY <1>4, RemoveStep, SQueueStep
<1>5. ASSUME NEW k \in (-MaxLength)..MaxLength, Rotate(k) PROVE DequeInv'
  <2>1. k \in Int
    BY DequeAssumption
  <2> QED  BY <1>5, <2>1, RotateStep
<1>6. CASE RotateRound \/ SwapRound \/ RemoveEnds
  BY <1>6, RotateRoundStep, SwapRoundStep, RemoveEndsStep
<1>7. CASE PopFront \/ PopBack \/ DequeClear \/ QueuePop \/ SQueuePop \/ CursorNext
  BY <1>0, <1>7, EndsStep, SetClearStep, QueueStep, SQueueStep
<1> QED  BY <1>1, <1>2, <1>3, <1>4, <1>5, <1>6, <1>7 DEF DequeNext

(* What RingIsSequence says follows from the invariant in every state.       *)
LEMMA DequeInvShows ==
  DequeInv => RingIsSequence
<1> SUFFICES ASSUME DequeInv PROVE RingIsSequence
  OBVIOUS
<1>1. CASE kind = "squeue"
  <2>1. PICK n, r, s, c : n = MaxLength + 1 /\ r = q /\ s = items /\ c = cursor
    OBVIOUS
  <2>2. SHolds(r, s, n) /\ CursorAt(c, r, s, n)
    BY <1>1, <2>1, SQueueState
  <2>3. CapOf(r) = n /\ n \in Nat /\ n > 0 /\ Len(s) \in Nat /\ Len(s) < n /\ r.head \in 0..(n - 1) /\ MaxLength \in Nat
    BY <2>2, SHoldsFacts, DequeAssumption
  <2>4. /\ (r.tail + 1) % n = r.head <=> Len(s) = n - 1
        /\ (IF r.head <= r.tail THEN r.tail - r.head ELSE n - r.head + r.tail) = Len(s)
    BY <2>2, SLenFacts
  <2>5. len = Len(items)
    BY <2>1, <2>3, <2>4 DEF len
  <2>6. next(q, q.tail) = q.head <=> len = MaxLength
    <3>1. n - 1 = MaxLength
      BY <2>1, <2>3
    <3> QED  BY <2>1, <2>3, <2>4, <2>5, <3>1 DEF next
  <2>7. ASSUME NEW i \in 1..len PROVE Slot(q, i) = items[i]
    <3>1. i \in 0..n /\ i \in 1..Len(s)
      BY <2>1, <2>3, <2>5
    <3>2. (r.head + i) % n = PlaceAt(r.head, i, n)
      BY <2>3, <3>1, PlaceFacts
    <3>3. r.buf[PlaceAt(r.head, i, n)] = s[i]
      BY <2>2, <3>1 DEF SHolds
    <3> QED  BY <2>1, <2>3, <3>2, <3>3 DEF Slot
  <2>8. /\ c.pos = r.tail <=> Len(c.rest) = 0
        /\ Len(c.rest) > 0 => /\ r.buf[(c.pos + 1) % n] = c.rest[1]
                              /\ CursorAt([pos |-> (c.pos + 1) % n, rest |-> Tail(c.rest)], r, s, n)
    BY <2>2, CursorNextFacts
  <2>9. c.rest \in Seq(Elems) /\ Len(c.rest) \in Nat /\ (c.rest = << >> <=> Len(c.rest) = 0)
    BY <2>2, LenProperties, EmptySeq DEF CursorAt
  <2>10. cursor.pos = q.tail <=> cursor.rest = << >>
    BY <2>1, <2>8, <2>9
  <2>11. ASSUME cursor.rest # << >> PROVE q.buf[NextPos] = Head(cursor.rest)
    <3>1. Len(c.rest) > 0 /\ Head(c.rest) = c.rest[1]
      BY <2>1, <2>9, <2>11
    <3> QED  BY <2>1, <2>3, <2>8, <3>1 DEF NextPos
  <2> QED  BY <1>1, <2>5, <2>6, <2>7, <2>10, <2>11 DEF RingIsSequence
<1>2. CASE kind # "squeue"
  <2>1. PICK n \in Nat : Holds(q, items, n)
    BY <1>2 DEF DequeInv
  <2>2. q.count = Len(items) /\ CapOf(q) = n
    BY <2>1, HoldsFacts DEF Holds
  <2>3. ASSUME NEW i \in 1..q.count PROVE Slot(q, i - 1) = items[i]
    <3>1. i \in 1..Len(items)
      BY <2>2
    <3>2. n > 0 /\ (q.head + i - 1) % n = PlaceAt(q.head, i - 1, n)
      BY <2>1, <3>1, SlotFacts
    <3>3. q.head \in 0..(n - 1)
      BY <2>1, <3>2, HoldsFacts
    <3>4. q.head + (i - 1) = q.head + i - 1
      BY <3>3
    <3>5. q.buf[PlaceAt(q.head, i - 1, n)] = items[i]
      BY <2>1, <3>1 DEF Holds
    <3> QED  BY <2>2, <3>2, <3>4, <3>5 DEF Slot
  <2> QED  BY <1>2, <2>2, <2>3 DEF RingIsSequence
<1> QED  BY <1>1, <1>2

(* In a ring of any size, with any least capacity and for any elements, every  *)
(* push, pop, Set, Clear, Insert, Remove and Rotate of a Deque, every Add and  *)
(* Pop of a Queue and every operation of an SQueue and its cursor leaves the   *)
(* ring holding the sequence its users see.                                    *)
THEOREM RingsHoldTheirSequences == DequeSpec => []RingIsSequence
<1>1. DequeSpec => []DequeInv
  BY DequeInvInit, DequeInvNext, PTL DEF DequeSpec
<1> QED  BY <1>1, DequeInvShows, PTL
-----------------------------------------------------------------------------
(* The frame timer.                                                         *)

\* Every set of natural numbers has a least member.
LEMMA LeastNat ==
  ASSUME NEW S \in SUBSET Nat, S # {}
  PROVE  \E x \in S : \A y \in S : x <= y
<1> DEFINE R == {p \in Nat \X Nat : p[1] < p[2]}
<1>1. IsWellFoundedOn(R, Nat)
  BY NatLessThanWellFounded DEF OpToRel
<1>1a. S \subseteq Nat OBVIOUS
<1> HIDE DEF R
<1>2. PICK x \in S : \A y \in S : ~(<<y, x>> \in R)
  BY <1>1, <1>1a, WFMin
<1>3. ASSUME NEW y \in S PROVE x <= y
  <2>1. ~(<<y, x>> \in R) BY <1>2
  <2>2. x \in Nat /\ y \in Nat BY <1>1a
  <2>3. ~(y < x) BY <2>1, <2>2 DEF R
  <2> QED BY <2>2, <2>3
<1> QED BY <1>3

\* The longest delay and the frames a group can be registered for.
LEMMA HorizonFacts ==
  /\ Max(Delays) \in Nat /\ Max(Delays) \in Delays /\ \A d \in Delays : d <= Max(Delays)
  /\ MaxFrame \in Nat /\ 0 \in Horizon
  /\ \A f \in Nat : f <= MaxFrame + Max(Delays) => f \in Horizon
  /\ \A f \in Horizon : f \in Nat
<1>1. Delays \subseteq Nat /\ \E d \in Delays : \A e \in Delays : e <= d
  BY FrameAssumption
<1>2. \E d \in Delays : \A e \in Delays : d >= e
  BY <1>1
<1>3. Max(Delays) \in Delays /\ \A e \in Delays : Max(Delays) >= e
  BY <1>2 DEF Max
<1> HIDE DEF Max
<1>4. MaxFrame \in Nat
  BY FrameAssumption
<1>5. Max(Delays) \in Nat
  BY <1>1, <1>3
<1>6. \A d \in Delays : d <= Max(Delays)
  BY <1>1, <1>3, <1>5
<1> QED  BY <1>3, <1>4, <1>5, <1>6 DEF Horizon

FTimer == [timerID : Nat, frameNum : Nat, tickerFrameNum : Delays \cup {0}]
FGroup ==
  [timers : SUBSET FTimer, preTickGlobalFrameNum : Nat, preGlobalFrameNum : Horizon,
   frameNum : Nat, pause : BOOLEAN, multiple : Multiples]

\* No timer of a group lies behind its frame, and none further ahead than the
\* longest delay; the group was last ticked at a frame that has been.
Ahead(s, gl) ==
  /\ s.preTickGlobalFrameNum <= gl
  /\ \A t \in s.timers : s.frameNum <= t.frameNum /\ t.frameNum <= s.frameNum + Max(Delays)

LEMMA LeastFacts ==
  ASSUME NEW T \in SUBSET FTimer, T # {}
  PROVE  /\ Least(T) \in Nat /\ \E t \in T : Least(T) = t.frameNum
         /\ \A t \in T : Least(T) <= t.frameNum
<1> DEFINE N == {t.frameNum : t \in T}
<1>1. N \in SUBSET Nat /\ N # {}
  BY DEF FTimer
<1> HIDE DEF N
<1>2. \E x \in N : \A y \in N : x <= y
  BY <1>1, LeastNat
<1>3. Min(N) \in N /\ \A y \in N : Min(N) <= y
  BY <1>2 DEF Min
<1>4. Least(T) = Min(N)
  BY DEF Least, N
<1> HIDE DEF Min
<1> QED  BY <1>1, <1>3, <1>4 DEF N

LEMMA DivFacts ==
  ASSUME NEW x \in Nat, NEW m \in Nat \ {0}
  PROVE  x \div m \in Nat /\ x \div m <= x
<1>1. x \div m \in Int
  OBVIOUS
<1>2. x = m * (x \div m) + (x % m) /\ x % m \in 0..(m - 1)
  OBVIOUS
<1>3. PICK qq, r : qq = x \div m /\ r = x % m
  OBVIOUS
<1>4. qq \in Int /\ r \in Nat /\ r < m /\ x = m * qq + r
  BY <1>1, <1>2, <1>3
<1>5. qq >= 0
  <2>1. ASSUME qq <= -1 PROVE FALSE
    <3>1. m * qq <= m * (-1)
      BY <2>1, <1>4
    <3> QED  BY <3>1, <1>4
  <2> QED  BY <2>1, <1>4
<1>6. m * qq >= qq
  BY <1>4, <1>5
<1>7. m * qq \in Int
  BY <1>4
<1>8. qq <= x
  BY <1>4, <1>6, <1>7
<1> QED  BY <1>3, <1>4, <1>5, <1>8

\* The frame refreshMinFrame registers a group for, at frame gl.
Wakeup(s, gl) == gl + (Least(s.timers) - s.frameNum) \div s.multiple

LEMMA WakeupFacts ==
  ASSUME NEW s \in FGroup, s.timers # {}, s.multiple # 0, NEW gl \in 0..MaxFrame, Ahead(s, gl)
  PROVE  Wakeup(s, gl) \in Horizon /\ Wakeup(s, gl) \in Nat /\ gl <= Wakeup(s, gl)
<1>1. PICK m : m = s.multiple
  OBVIOUS
<1>2. m \in Nat \ {0}
  BY <1>1, FrameAssumption DEF FGroup
<1>3. s.timers \in SUBSET FTimer /\ s.frameNum \in Nat
  BY DEF FGroup
<1>4. PICK t \in s.timers : Least(s.timers) = t.frameNum
  BY <1>3, LeastFacts
<1>5. PICK x : x = Least(s.timers) - s.frameNum
  OBVIOUS
<1>6. x \in Nat /\ x <= Max(Delays)
  BY <1>3, <1>4, <1>5, LeastFacts, HorizonFacts DEF Ahead
<1>7. x \div m \in Nat /\ x \div m <= x
  BY <1>2, <1>6, DivFacts
<1>8. PICK qq : qq = x \div m
  OBVIOUS
<1>9. Wakeup(s, gl) = gl + qq
  BY <1>1, <1>5, <1>8 DEF Wakeup
<1>10. gl + qq \in Nat /\ gl <= gl + qq /\ gl + qq <= MaxFrame + Max(Delays)
  BY <1>6, <1>7, <1>8, HorizonFacts
<1> QED  BY <1>9, <1>10, HorizonFacts

\* Group g is registered as WakeupArmed says; seen is the next frame that the
\* frame goroutine looks at.
Nowhere(map, g) == \A f \in Horizon : g \notin map[f]
Once(map, s, g) == \A f \in Horizon : g \in map[f] => f = s.preGlobalFrameNum
Armed(map, s, g, gl, seen) ==
  IF ~Registers(s) THEN Nowhere(map, g)
  ELSE s.multiple # 0 =>
       /\ \A f \in Horizon : g \in map[f] <=> f = s.preGlobalFrameNum
       /\ seen <= s.preGlobalFrameNum /\ s.preGlobalFrameNum <= Wakeup(s, gl)

FMap == [Horizon -> SUBSET Groups]
\* map2 differs from map for no group but g.
OnlyOf(map, map2, g) ==
  map2 \in FMap /\ \A f \in Horizon, h \in Groups : h # g => (h \in map2[f] <=> h \in map[f])

LEMMA RemoveFacts ==
  ASSUME NEW map \in FMap, NEW g \in Groups, NEW f \in Horizon,
         \A e \in Horizon : g \in map[e] => e = f
  PROVE  /\ OnlyOf(map, removeGroup(map, g, f), g)
         /\ Nowhere(removeGroup(map, g, f), g)
  BY DEF FMap, OnlyOf, Nowhere, removeGroup

\* A registration that moves to frame f.
LEMMA MoveFacts ==
  ASSUME NEW map \in FMap, NEW g \in Groups, NEW s \in FGroup, Once(map, s, g), NEW f \in Horizon,
         NEW map2, map2 = refreshGroupMinFrame(map, g, s.preGlobalFrameNum, f)
  PROVE  OnlyOf(map, map2, g) /\ \A e \in Horizon : g \in map2[e] <=> e = f
<1>1. PICK m1 : m1 = removeGroup(map, g, s.preGlobalFrameNum)
  OBVIOUS
<1>2. s.preGlobalFrameNum \in Horizon
  BY DEF FGroup
<1>3. OnlyOf(map, m1, g) /\ Nowhere(m1, g)
  BY <1>1, <1>2, RemoveFacts DEF Once
<1>4. m1 \in FMap /\ \A e \in Horizon : g \notin m1[e]
  BY <1>3 DEF OnlyOf, Nowhere
<1>5. map2 \in FMap /\ \A e \in Horizon : map2[e] = IF e = f THEN m1[e] \cup {g} ELSE m1[e]
  BY <1>1, <1>4 DEF FMap, refreshGroupMinFrame
<1>6. \A e \in Horizon : g \in map2[e] <=> e = f
  BY <1>4, <1>5
<1>7. \A e \in Horizon, h \in Groups : h # g => (h \in map2[e] <=> h \in map[e])
  BY <1>3, <1>5 DEF OnlyOf
<1> QED  BY <1>5, <1>6, <1>7 DEF OnlyOf

\* Armed and the rest do not depend on the frame of the last tick.
LEMMA PreTickFree ==
  ASSUME NEW map, NEW s \in FGroup, NEW g, NEW gl \in Nat, NEW seen, NEW p \in Nat, p <= gl, Ahead(s, gl),
         NEW qq, qq = [s EXCEPT !.preTickGlobalFrameNum = p]
  PROVE  /\ qq \in FGroup /\ Ahead(qq, gl) /\ qq.pause = s.pause
         /\ Once(map, s, g) => Once(map, qq, g)
         /\ Armed(map, s, g, gl, seen) => Armed(map, qq, g, gl, seen)
<1>1. /\ qq \in FGroup /\ qq.timers = s.timers /\ qq.pause = s.pause /\ qq.frameNum = s.frameNum
      /\ qq.multiple = s.multiple /\ qq.preGlobalFrameNum = s.preGlobalFrameNum
      /\ qq.preTickGlobalFrameNum = p
  BY DEF FGroup
<1>2. Wakeup(qq, gl) = Wakeup(s, gl)
  BY <1>1 DEF Wakeup
<1>3. Ahead(qq, gl)
  BY <1>1 DEF Ahead
<1>4. Registers(qq) <=> Registers(s)
  BY <1>1 DEF Registers
<1>5. Once(map, s, g) => Once(map, qq, g)
  BY <1>1 DEF Once
<1>6. Armed(map, s, g, gl, seen) => Armed(map, qq, g, gl, seen)
  BY <1>1, <1>2, <1>4 DEF Armed
<1> QED  BY <1>1, <1>3, <1>5, <1>6

\* What refreshMinFrame leaves.
LEMMA RefreshFacts ==
  ASSUME NEW map \in FMap, NEW g \in Groups, NEW s \in FGroup,
         globalFrameNum \in 0..MaxFrame, Ahead(s, globalFrameNum), Once(map, s, g),
         NEW r, r = refreshMinFrame([map |-> map, fg |-> s], g)
  PROVE  /\ OnlyOf(map, r.map, g)
         /\ r.fg \in FGroup /\ Ahead(r.fg, globalFrameNum) /\ Once(r.map, r.fg, g)
         /\ r.fg.pause = s.pause
         /\ s.pause /\ Nowhere(map, g) => Nowhere(r.map, g)
         /\ Registers(s) \/ Nowhere(map, g) =>
              \A seen \in Nat : seen <= globalFrameNum => Armed(r.map, r.fg, g, globalFrameNum, seen)
<1>1. CASE ~Registers(s) \/ Divides(s)
  <2>1. r = [map |-> map, fg |-> s]
    BY <1>1 DEF refreshMinFrame
  <2>2. r.map = map /\ r.fg = s
    BY <2>1
  <2>3. OnlyOf(map, map, g)
    BY DEF OnlyOf
  <2>4. Registers(s) \/ Nowhere(map, g) =>
              \A seen \in Nat : seen <= globalFrameNum => Armed(map, s, g, globalFrameNum, seen)
    BY <1>1 DEF Armed, Divides
  <2> QED  BY <2>2, <2>3, <2>4
<1>2. CASE ~(~Registers(s) \/ Divides(s))
  <2>1. PICK f : f = Wakeup(s, globalFrameNum)
    OBVIOUS
  <2>1a. s.timers # {} /\ s.multiple # 0 /\ ~s.pause /\ Registers(s)
    BY <1>2 DEF Registers, Divides
  <2>2. f \in Horizon /\ f \in Nat /\ globalFrameNum <= f
    BY <2>1, <2>1a, WakeupFacts
  <2>3. PICK m2, s1 : m2 = refreshGroupMinFrame(map, g, s.preGlobalFrameNum, f)
                      /\ s1 = [s EXCEPT !.preGlobalFrameNum = f]
    OBVIOUS
  <2>4. r = [map |-> m2, fg |-> s1]
    BY <1>2, <2>1, <2>3 DEF refreshMinFrame, convertGlobalFrameNum, Wakeup
  <2>5. r.map = m2 /\ r.fg = s1
    BY <2>4
  <2>6. OnlyOf(map, m2, g) /\ \A e \in Horizon : g \in m2[e] <=> e = f
    BY <2>2, <2>3, MoveFacts
  <2>7. s1 \in FGroup /\ Ahead(s1, globalFrameNum) /\ s1.preGlobalFrameNum = f /\ s1.timers = s.timers
        /\ s1.pause = s.pause /\ s1.frameNum = s.frameNum /\ s1.multiple = s.multiple
    BY <2>2, <2>3 DEF FGroup, Ahead
  <2>8. Wakeup(s1, globalFrameNum) = f
    BY <2>1, <2>7 DEF Wakeup
  <2>9. globalFrameNum \in Nat
    BY HorizonFacts
  <2>10. \A seen \in Nat : seen <= globalFrameNum => Armed(m2, s1, g, globalFrameNum, seen)
    BY <2>1a, <2>2, <2>6, <2>7, <2>8, <2>9 DEF Armed, Registers
  <2>11. Once(m2, s1, g)
    BY <2>6, <2>7 DEF Once
  <2> QED  BY <2>1a, <2>5, <2>6, <2>7, <2>10, <2>11
<1> QED  BY <1>1, <1>2

Seen == IF phase = "raised" THEN globalFrameNum - 1 ELSE globalFrameNum
FCall == [op : {"none", "SetMultiple", "Close"}, on : SUBSET Groups, met : BOOLEAN, frame : Horizon]

FrameTypeOK ==
  /\ globalFrameNum \in 0..MaxFrame /\ (phase = "raised" => globalFrameNum > 0)
  /\ phase \in {"sleep", "raised", "locked", "crashed"}
  /\ round \in [frame : Nat, left : SUBSET Groups]
  /\ phase \in {"sleep", "raised"} => round.left = {}
  /\ mapFrameGroup \in FMap /\ mapGroup \subseteq Groups
  /\ fg \in [Groups -> FGroup]
  /\ maxTimerID \in Nat /\ late \subseteq Groups

\* The call under way: one that met no locked frameTick has a frame that is still
\* right, or has left nothing of the group's registration.
CallRight ==
  /\ call \in FCall /\ call.on \subseteq mapGroup /\ (call.op = "none" => call.on = {})
  /\ phase \in {"locked", "crashed"} /\ call.op # "none" => call.met
  /\ call.op = "SetMultiple" => \A g \in call.on : ~fg[g].pause
  /\ call.op = "SetMultiple" /\ ~call.met => \A g \in call.on :
       /\ Registers(fg[g]) /\ fg[g].multiple # 0
       /\ Seen <= call.frame /\ call.frame <= Wakeup(fg[g], globalFrameNum)
  /\ call.op = "Close" /\ ~call.met => \A g \in call.on : Nowhere(mapFrameGroup, g)

GroupRight(map, s, g, gl, seen, made, loose) ==
  /\ s \in FGroup /\ Ahead(s, gl) /\ Once(map, s, g)
  /\ g \in made /\ s.pause => Nowhere(map, g)
  /\ loose \/ IF g \in made THEN Armed(map, s, g, gl, seen) ELSE Nowhere(map, g)

Loose(g) == g \in late \/ Touched(g)

FrameInv ==
  /\ FrameTypeOK /\ CallRight
  /\ \A g \in Groups : GroupRight(mapFrameGroup, fg[g], g, globalFrameNum, Seen, mapGroup, Loose(g))
  /\ \A g \in round.left : g \notin late /\ g \notin call.on => Nowhere(mapFrameGroup, g)

\* Armed speaks of one group's registrations.
LEMMA ArmedOther ==
  ASSUME NEW map, NEW map2, NEW g \in Groups, NEW h \in Groups, g # h, OnlyOf(map, map2, g),
         NEW s, NEW gl, NEW seen, NEW made, NEW made2, h \in made <=> h \in made2,
         NEW loose \in BOOLEAN, NEW loose2 \in BOOLEAN, loose => loose2,
         GroupRight(map, s, h, gl, seen, made, loose)
  PROVE  GroupRight(map2, s, h, gl, seen, made2, loose2)
<1>1. \A f \in Horizon : h \in map2[f] <=> h \in map[f]
  BY DEF OnlyOf
<1> QED  BY <1>1 DEF GroupRight, Armed, Nowhere, Once

LEMMA SeenFacts ==
  ASSUME FrameTypeOK
  PROVE  Seen \in Nat /\ Seen <= globalFrameNum /\ globalFrameNum \in Nat
<1>1. globalFrameNum \in Nat /\ (phase = "raised" => globalFrameNum > 0)
  BY HorizonFacts DEF FrameTypeOK
<1> QED  BY <1>1 DEF Seen

\* A locking call runs while no group is touched.
LEMMA LocksFacts ==
  ASSUME FrameInv, Locks
  PROVE  round.left = {} /\ call.on = {} /\ call.op = "none" /\ \A g \in Groups : Loose(g) <=> g \in late
  BY DEF FrameInv, FrameTypeOK, CallRight, Locks, NoOther, Loose, Touched

\* An operation with the lock keeps the invariant when it leaves its group right.
LEMMA GroupStep ==
  ASSUME FrameInv, Locks, NEW g \in Groups, NEW map2, NEW s2, NEW made2,
         mapFrameGroup' = map2, fg' = [fg EXCEPT ![g] = s2], mapGroup' = made2, made2 \subseteq Groups,
         OnlyOf(mapFrameGroup, map2, g), \A h \in Groups : h # g => (h \in made2 <=> h \in mapGroup),
         late' \subseteq Groups, \A h \in Groups : h # g => (h \in late' <=> h \in late),
         GroupRight(map2, s2, g, globalFrameNum, Seen, made2, g \in late'),
         UNCHANGED <<globalFrameNum, phase, round, call>>, maxTimerID' \in Nat
  PROVE  FrameInv'
<1>1. Seen' = Seen
  BY DEF Seen
<1>2. fg' \in [Groups -> FGroup] /\ fg'[g] = s2 /\ \A h \in Groups : h # g => fg'[h] = fg[h]
  BY DEF FrameInv, FrameTypeOK, GroupRight
<1>3. FrameTypeOK'
  BY <1>2 DEF FrameInv, FrameTypeOK, OnlyOf
<1>4. round.left = {} /\ call.on = {} /\ call.op = "none" /\ \A h \in Groups : Loose(h) <=> h \in late
  BY LocksFacts
<1>5. \A h \in Groups : Loose(h)' <=> h \in late'
  BY <1>4 DEF Loose, Touched
<1>6. ASSUME NEW h \in Groups
      PROVE  GroupRight(map2, fg'[h], h, globalFrameNum, Seen, made2, Loose(h)')
  <2>1. CASE h = g
    BY <1>2, <1>5, <2>1 DEF GroupRight
  <2>2. CASE h # g
    <3>1. GroupRight(mapFrameGroup, fg[h], h, globalFrameNum, Seen, mapGroup, h \in late)
      BY <1>4 DEF FrameInv, GroupRight
    <3>1a. (h \in made2 <=> h \in mapGroup) /\ \A f \in Horizon : h \in map2[f] <=> h \in mapFrameGroup[f]
      BY <2>2 DEF OnlyOf
    <3>2. GroupRight(map2, fg[h], h, globalFrameNum, Seen, made2, h \in late)
      BY <3>1, <3>1a DEF GroupRight, Armed, Nowhere, Once
    <3>3. h \in late <=> Loose(h)'
      BY <1>5, <2>2
    <3> QED  BY <1>2, <2>2, <3>2, <3>3 DEF GroupRight
  <2> QED  BY <2>1, <2>2
<1>7. CallRight'
  BY <1>4 DEF FrameInv, CallRight
<1> QED  BY <1>1, <1>3, <1>4, <1>6, <1>7 DEF FrameInv

\* One that ends in refreshMinFrame leaves it right.
LEMMA RefreshedStep ==
  ASSUME FrameInv, Locks, NEW g \in mapGroup, NEW map, NEW s \in FGroup, OnlyOf(mapFrameGroup, map, g),
         Ahead(s, globalFrameNum), Once(map, s, g), s.pause => Nowhere(map, g),
         Registers(s) \/ Nowhere(map, g), late' = late \ {g},
         Refreshed(map, s, g), UNCHANGED <<globalFrameNum, phase, round, call, mapGroup>>, maxTimerID' \in Nat
  PROVE  FrameInv'
<1>1. PICK r : r = refreshMinFrame([map |-> map, fg |-> s], g)
  OBVIOUS
<1>2. mapFrameGroup' = r.map /\ fg' = [fg EXCEPT ![g] = r.fg]
  BY <1>1 DEF Refreshed, Install
<1>3. FrameTypeOK /\ g \in Groups /\ mapGroup \subseteq Groups /\ map \in FMap /\ globalFrameNum \in 0..MaxFrame
      /\ late \subseteq Groups
  BY DEF FrameInv, FrameTypeOK, OnlyOf
<1>4. /\ OnlyOf(map, r.map, g) /\ r.fg \in FGroup /\ Ahead(r.fg, globalFrameNum) /\ Once(r.map, r.fg, g)
      /\ r.fg.pause = s.pause /\ (s.pause /\ Nowhere(map, g) => Nowhere(r.map, g))
      /\ \A seen \in Nat : seen <= globalFrameNum => Armed(r.map, r.fg, g, globalFrameNum, seen)
  BY <1>1, <1>3, RefreshFacts
<1>5. GroupRight(r.map, r.fg, g, globalFrameNum, Seen, mapGroup, g \in late')
  BY <1>3, <1>4, SeenFacts DEF GroupRight
<1>6. OnlyOf(mapFrameGroup, r.map, g)
  BY <1>4 DEF OnlyOf
<1>7. late' \subseteq Groups /\ \A h \in Groups : h # g => (h \in late' <=> h \in late)
  BY <1>3
<1> QED  BY <1>2, <1>3, <1>5, <1>6, <1>7, GroupStep

LEMMA FrameInitInv ==
  ASSUME FrameInit
  PROVE  FrameInv
<1>1. NewFrameGroup \in FGroup /\ Ahead(NewFrameGroup, 0)
  BY HorizonFacts, FrameAssumption DEF NewFrameGroup, FGroup, Ahead
<1>2. mapFrameGroup \in FMap /\ \A g \in Groups : Nowhere(mapFrameGroup, g)
  BY DEF FrameInit, FMap, Nowhere
<1>3. FrameTypeOK
  <2>1. MaxFrame \in Nat
    BY HorizonFacts
  <2>2. fg \in [Groups -> FGroup]
    BY <1>1 DEF FrameInit
  <2>3. globalFrameNum \in 0..MaxFrame /\ phase = "sleep" /\ mapGroup = {} /\ maxTimerID \in Nat
        /\ round \in [frame : Nat, left : SUBSET Groups] /\ round.left = {} /\ late = {}
    BY <2>1 DEF FrameInit, NoRound
  <2> QED  BY <1>2, <2>2, <2>3 DEF FrameTypeOK
<1>4. CallRight
  BY HorizonFacts DEF FrameInit, NoCall, CallRight, FCall
<1>5. \A g \in Groups : Once(mapFrameGroup, fg[g], g)
  BY <1>2 DEF Once, Nowhere
<1> QED  BY <1>1, <1>2, <1>3, <1>4, <1>5 DEF FrameInit, FrameInv, GroupRight, NoRound

LEMMA NewGroupStep ==
  ASSUME FrameInv, NEW g \in Groups, NewGroup(g)
  PROVE  FrameInv'
<1>1. FrameTypeOK /\ mapFrameGroup \in FMap /\ mapGroup \subseteq Groups /\ late \subseteq Groups
  BY DEF FrameInv, FrameTypeOK
<1>2. Nowhere(mapFrameGroup, g)
  BY DEF NewGroup, Nowhere
<1>3. NewFrameGroup \in FGroup /\ NewFrameGroup.timers = {} /\ NewFrameGroup.preTickGlobalFrameNum = 0
      /\ ~Registers(NewFrameGroup)
  BY HorizonFacts, FrameAssumption DEF NewFrameGroup, FGroup, Registers
<1>4. Ahead(NewFrameGroup, globalFrameNum)
  BY <1>1, <1>3, SeenFacts DEF Ahead
<1>5. GroupRight(mapFrameGroup, NewFrameGroup, g, globalFrameNum, Seen, mapGroup \cup {g}, g \in late')
  BY <1>2, <1>3, <1>4 DEF GroupRight, Armed, Once, Nowhere
<1>6. OnlyOf(mapFrameGroup, mapFrameGroup, g)
  BY <1>1 DEF OnlyOf
<1>7. maxTimerID' \in Nat /\ late' \subseteq Groups /\ \A h \in Groups : h # g => (h \in late' <=> h \in late)
  BY <1>1 DEF NewGroup, FrameTypeOK
<1>8. /\ Locks /\ mapGroup' = mapGroup \cup {g} /\ fg' = [fg EXCEPT ![g] = NewFrameGroup]
      /\ UNCHANGED <<globalFrameNum, phase, round, mapFrameGroup, call>>
  BY DEF NewGroup
<1>9. mapGroup \cup {g} \subseteq Groups /\ \A h \in Groups : h # g => (h \in mapGroup \cup {g} <=> h \in mapGroup)
  BY <1>1
<1> QED  BY <1>5, <1>6, <1>7, <1>8, <1>9, GroupStep

\* What the invariant says of a group that is made.
LEMMA MadeFacts ==
  ASSUME FrameInv, NEW g \in mapGroup
  PROVE  /\ FrameTypeOK /\ g \in Groups /\ mapFrameGroup \in FMap /\ fg[g] \in FGroup
         /\ Ahead(fg[g], globalFrameNum) /\ maxTimerID \in Nat
         /\ OnlyOf(mapFrameGroup, mapFrameGroup, g)
         /\ Once(mapFrameGroup, fg[g], g)
         /\ fg[g].pause => Nowhere(mapFrameGroup, g)
         /\ ~Loose(g) => Armed(mapFrameGroup, fg[g], g, globalFrameNum, Seen)
<1>1. FrameTypeOK /\ g \in Groups
      /\ GroupRight(mapFrameGroup, fg[g], g, globalFrameNum, Seen, mapGroup, Loose(g))
  BY DEF FrameInv, FrameTypeOK
<1>2. OnlyOf(mapFrameGroup, mapFrameGroup, g)
  BY <1>1 DEF OnlyOf, FrameTypeOK
<1> QED  BY <1>1, <1>2 DEF GroupRight, FrameTypeOK

LEMMA AddTimerStep ==
  ASSUME FrameInv, NEW g \in Groups, NEW frame \in Delays, NEW ticker, addTimer(g, frame, ticker)
  PROVE  FrameInv'
<1>1. g \in mapGroup
  BY DEF addTimer
<1>2. PICK t : t = [timerID |-> maxTimerID + 1, frameNum |-> fg[g].frameNum + frame,
                    tickerFrameNum |-> IF ticker THEN frame ELSE 0]
  OBVIOUS
<1>3. PICK s : s = [fg[g] EXCEPT !.timers = @ \cup {t}]
  OBVIOUS
<1>4. Refreshed(mapFrameGroup, s, g) /\ maxTimerID' = maxTimerID + 1 /\ Locks /\ late' = late \ {g}
      /\ UNCHANGED <<globalFrameNum, phase, round, call, mapGroup>>
  BY <1>2, <1>3 DEF addTimer
<1>5. frame \in Nat /\ frame <= Max(Delays) /\ Max(Delays) \in Nat /\ fg[g].frameNum \in Nat /\ maxTimerID \in Nat
  BY <1>1, MadeFacts, HorizonFacts, FrameAssumption DEF FGroup
<1>6. t \in FTimer /\ t.frameNum = fg[g].frameNum + frame
  BY <1>2, <1>5 DEF FTimer
<1>7. fg[g] \in FGroup /\ Ahead(fg[g], globalFrameNum)
  BY <1>1, MadeFacts
<1>8. /\ s \in FGroup /\ s.timers = fg[g].timers \cup {t} /\ s.frameNum = fg[g].frameNum
      /\ s.preTickGlobalFrameNum = fg[g].preTickGlobalFrameNum
      /\ s.preGlobalFrameNum = fg[g].preGlobalFrameNum /\ s.pause = fg[g].pause
  BY <1>3, <1>6, <1>7 DEF FGroup
<1>9. fg[g].frameNum <= t.frameNum /\ t.frameNum <= fg[g].frameNum + Max(Delays)
  BY <1>5, <1>6
<1>10. Ahead(s, globalFrameNum)
  BY <1>7, <1>8, <1>9 DEF Ahead
<1>11. Once(mapFrameGroup, s, g)
  BY <1>1, <1>8, MadeFacts DEF Once
<1>12. (s.pause => Nowhere(mapFrameGroup, g)) /\ (Registers(s) \/ Nowhere(mapFrameGroup, g))
  BY <1>1, <1>8, MadeFacts DEF Registers
<1>13. maxTimerID' \in Nat /\ OnlyOf(mapFrameGroup, mapFrameGroup, g)
  BY <1>1, <1>4, <1>5, MadeFacts
<1> QED  BY <1>1, <1>4, <1>8, <1>10, <1>11, <1>12, <1>13, RefreshedStep

LEMMA PauseStep ==
  ASSUME FrameInv, NEW g \in Groups, Pause(g)
  PROVE  FrameInv'
<1>1. g \in mapGroup
  BY DEF Pause
<1>2. PICK map, s : map = removeGroup(mapFrameGroup, g, fg[g].preGlobalFrameNum)
                    /\ s = [fg[g] EXCEPT !.pause = TRUE, !.preGlobalFrameNum = 0]
  OBVIOUS
<1>3. mapFrameGroup' = map /\ fg' = [fg EXCEPT ![g] = s] /\ Locks /\ late' = late \ {g}
      /\ UNCHANGED <<globalFrameNum, phase, round, call, mapGroup, maxTimerID>>
  BY <1>2 DEF Pause, Install
<1>4. fg[g] \in FGroup /\ Ahead(fg[g], globalFrameNum) /\ mapFrameGroup \in FMap /\ mapGroup \subseteq Groups
      /\ late \subseteq Groups
  BY <1>1, MadeFacts DEF FrameTypeOK
<1>5. s \in FGroup /\ s.pause = TRUE /\ s.timers = fg[g].timers /\ s.frameNum = fg[g].frameNum
      /\ s.preTickGlobalFrameNum = fg[g].preTickGlobalFrameNum
  BY <1>2, <1>4, HorizonFacts DEF FGroup
<1>6. Ahead(s, globalFrameNum) /\ ~Registers(s)
  BY <1>4, <1>5 DEF Ahead, Registers
<1>7. fg[g].preGlobalFrameNum \in Horizon
  BY <1>4 DEF FGroup
<1>8. OnlyOf(mapFrameGroup, map, g) /\ Nowhere(map, g)
  BY <1>1, <1>2, <1>4, <1>7, MadeFacts, RemoveFacts DEF Once
<1>9. GroupRight(map, s, g, globalFrameNum, Seen, mapGroup, g \in late')
  BY <1>5, <1>6, <1>8 DEF GroupRight, Armed, Once, Nowhere
<1>10. maxTimerID' \in Nat /\ late' \subseteq Groups /\ \A h \in Groups : h # g => (h \in late' <=> h \in late)
  BY <1>1, <1>3, <1>4, MadeFacts
<1> QED  BY <1>3, <1>4, <1>8, <1>9, <1>10, GroupStep

LEMMA ResumeStep ==
  ASSUME FrameInv, NEW g \in Groups, Resume(g)
  PROVE  FrameInv'
<1>1. g \in mapGroup /\ Locks
  BY DEF Resume
<1>2. PICK s : s = [fg[g] EXCEPT !.pause = FALSE]
  OBVIOUS
<1>3. PICK r : r = refreshMinFrame([map |-> mapFrameGroup, fg |-> s], g)
  OBVIOUS
<1>4. fg[g] \in FGroup /\ Ahead(fg[g], globalFrameNum) /\ mapFrameGroup \in FMap /\ mapGroup \subseteq Groups
      /\ globalFrameNum \in 0..MaxFrame /\ FrameTypeOK /\ late \subseteq Groups
  BY <1>1, MadeFacts DEF FrameTypeOK
<1>5. /\ s \in FGroup /\ s.timers = fg[g].timers /\ s.frameNum = fg[g].frameNum /\ s.pause = FALSE
      /\ s.preTickGlobalFrameNum = fg[g].preTickGlobalFrameNum
      /\ s.preGlobalFrameNum = fg[g].preGlobalFrameNum
  BY <1>2, <1>4 DEF FGroup
<1>6. Ahead(s, globalFrameNum) /\ Once(mapFrameGroup, s, g)
  BY <1>1, <1>4, <1>5, MadeFacts DEF Ahead, Once
<1>7. g \notin late => Registers(s) \/ Nowhere(mapFrameGroup, g)
  <2>1. ~Loose(g) => Armed(mapFrameGroup, fg[g], g, globalFrameNum, Seen)
    BY <1>1, MadeFacts
  <2>2. Loose(g) <=> g \in late
    BY <1>1, <1>4, LocksFacts
  <2>3. Registers(fg[g]) => Registers(s)
    BY <1>5 DEF Registers
  <2> QED  BY <2>1, <2>2, <2>3 DEF Armed
<1>8. globalFrameNum \in Nat /\ Seen \in Nat /\ Seen <= globalFrameNum
  BY <1>4, SeenFacts
<1>9. /\ OnlyOf(mapFrameGroup, r.map, g)
      /\ r.fg \in FGroup /\ Ahead(r.fg, globalFrameNum) /\ Once(r.map, r.fg, g) /\ r.fg.pause = s.pause
      /\ g \notin late => Armed(r.map, r.fg, g, globalFrameNum, Seen)
  BY <1>3, <1>4, <1>5, <1>6, <1>7, <1>8, RefreshFacts
<1>10. PICK qq : qq = [r.fg EXCEPT !.preTickGlobalFrameNum = globalFrameNum]
  OBVIOUS
<1>11. GroupRight(r.map, r.fg, g, globalFrameNum, Seen, mapGroup, g \in late)
  BY <1>1, <1>5, <1>9 DEF GroupRight
<1>12. GroupRight(r.map, qq, g, globalFrameNum, Seen, mapGroup, g \in late)
  <2>1. /\ qq \in FGroup /\ Ahead(qq, globalFrameNum) /\ qq.pause = r.fg.pause
        /\ Once(r.map, r.fg, g) => Once(r.map, qq, g)
        /\ Armed(r.map, r.fg, g, globalFrameNum, Seen) => Armed(r.map, qq, g, globalFrameNum, Seen)
    BY <1>8, <1>9, <1>10, PreTickFree
  <2> QED  BY <1>1, <1>5, <1>9, <2>1 DEF GroupRight
<1>13. /\ IF Divides(s) THEN Install(r, g) ELSE Install([r EXCEPT !.fg.preTickGlobalFrameNum = globalFrameNum], g)
       /\ UNCHANGED <<globalFrameNum, phase, round, call, mapGroup, maxTimerID, late>>
  BY <1>2, <1>3 DEF Resume
<1>14. [r EXCEPT !.fg.preTickGlobalFrameNum = globalFrameNum].map = r.map
       /\ [r EXCEPT !.fg.preTickGlobalFrameNum = globalFrameNum].fg = qq
  BY <1>3, <1>10 DEF refreshMinFrame
<1>15. mapFrameGroup' = r.map /\ (fg' = [fg EXCEPT ![g] = qq] \/ fg' = [fg EXCEPT ![g] = r.fg])
  BY <1>13, <1>14 DEF Install
<1>16. maxTimerID' \in Nat
  BY <1>1, <1>13, MadeFacts
<1>17. late' = late
  BY <1>13
<1>18. ASSUME NEW q1, fg' = [fg EXCEPT ![g] = q1],
              GroupRight(r.map, q1, g, globalFrameNum, Seen, mapGroup, g \in late)
       PROVE  FrameInv'
  <2>1. GroupRight(r.map, q1, g, globalFrameNum, Seen, mapGroup, g \in late')
    BY <1>17, <1>18
  <2> QED  BY <1>1, <1>4, <1>9, <1>13, <1>15, <1>16, <1>17, <1>18, <2>1, GroupStep
<1> QED  BY <1>11, <1>12, <1>15, <1>18

LEMMA CancelTimerStep ==
  ASSUME FrameInv, NEW g \in Groups, NEW id, CancelTimer(g, id)
  PROVE  FrameInv'
<1>1. g \in mapGroup /\ Locks
  BY DEF CancelTimer
<1>2. PICK t \in fg[g].timers :
        Refreshed(removeGroup(mapFrameGroup, g, fg[g].preGlobalFrameNum),
                    [fg[g] EXCEPT !.timers = @ \ {t}, !.preGlobalFrameNum = 0], g)
  BY DEF CancelTimer
<1>3. PICK map, s : map = removeGroup(mapFrameGroup, g, fg[g].preGlobalFrameNum)
                    /\ s = [fg[g] EXCEPT !.timers = @ \ {t}, !.preGlobalFrameNum = 0]
  OBVIOUS
<1>4. fg[g] \in FGroup /\ Ahead(fg[g], globalFrameNum) /\ mapFrameGroup \in FMap /\ mapGroup \subseteq Groups
  BY <1>1, MadeFacts DEF FrameTypeOK
<1>5. s \in FGroup /\ s.timers = fg[g].timers \ {t} /\ s.frameNum = fg[g].frameNum
      /\ s.preTickGlobalFrameNum = fg[g].preTickGlobalFrameNum
  BY <1>3, <1>4, HorizonFacts DEF FGroup
<1>6. Ahead(s, globalFrameNum)
  BY <1>4, <1>5 DEF Ahead
<1>7. fg[g].preGlobalFrameNum \in Horizon
  BY <1>4 DEF FGroup
<1>8. OnlyOf(mapFrameGroup, map, g) /\ Nowhere(map, g)
  BY <1>1, <1>3, <1>4, <1>7, MadeFacts, RemoveFacts DEF Once
<1>9. Refreshed(map, s, g) /\ UNCHANGED <<globalFrameNum, phase, round, call, mapGroup, maxTimerID>>
      /\ late' = late \ {g}
  BY <1>2, <1>3 DEF CancelTimer
<1>10. maxTimerID' \in Nat
  BY <1>1, <1>9, MadeFacts
<1>11. Once(map, s, g)
  BY <1>8 DEF Nowhere, Once
<1> QED  BY <1>1, <1>5, <1>6, <1>8, <1>9, <1>10, <1>11, RefreshedStep

\* A step of one group, with or without the lock: the other groups stay as they are.
LEMMA OneGroup ==
  ASSUME FrameInv, NEW g \in Groups, NEW map2, NEW s2 \in FGroup,
         mapFrameGroup' = map2, fg' = [fg EXCEPT ![g] = s2], OnlyOf(mapFrameGroup, map2, g),
         globalFrameNum' = globalFrameNum, Seen' = Seen, FrameTypeOK', CallRight',
         \A h \in Groups : h # g =>
           /\ h \in mapGroup' <=> h \in mapGroup
           /\ h \in round'.left <=> h \in round.left
           /\ h \in late \/ h \in call.on <=> h \in late' \/ h \in call'.on,
         GroupRight(map2, s2, g, globalFrameNum, Seen, mapGroup', Loose(g)'),
         g \in round'.left /\ g \notin late' /\ g \notin call'.on => Nowhere(map2, g)
  PROVE  FrameInv'
<1>1. fg'[g] = s2 /\ \A h \in Groups : h # g => fg'[h] = fg[h]
  BY DEF FrameInv, FrameTypeOK
<1>2. ASSUME NEW h \in Groups
      PROVE  GroupRight(map2, fg'[h], h, globalFrameNum, Seen, mapGroup', Loose(h)')
  <2>1. CASE h = g
    BY <1>1, <2>1
  <2>2. CASE h # g
    <3>1. GroupRight(mapFrameGroup, fg[h], h, globalFrameNum, Seen, mapGroup, Loose(h))
      BY DEF FrameInv
    <3>2. Loose(h) <=> Loose(h)'
      BY <2>2 DEF Loose, Touched
    <3>3. Loose(h) \in BOOLEAN /\ Loose(h)' \in BOOLEAN
      BY DEF Loose
    <3>4. GroupRight(map2, fg[h], h, globalFrameNum, Seen, mapGroup', Loose(h)')
      BY <2>2, <3>1, <3>2, <3>3, ArmedOther
    <3> QED  BY <1>1, <2>2, <3>4
  <2> QED  BY <2>1, <2>2
<1>3. ASSUME NEW h \in round'.left, h \notin late', h \notin call'.on
      PROVE  Nowhere(map2, h)
  <2>0. h \in Groups
    BY <1>3 DEF FrameTypeOK
  <2>1. CASE h = g
    BY <1>3, <2>1
  <2>2. CASE h # g
    <3>1. Nowhere(mapFrameGroup, h)
      BY <1>3, <2>0, <2>2 DEF FrameInv
    <3> QED  BY <2>0, <2>2, <3>1 DEF OnlyOf, Nowhere
  <2> QED  BY <2>1, <2>2
<1> QED  BY <1>2, <1>3 DEF FrameInv

LEMMA SetMultipleStep ==
  ASSUME FrameInv, NEW g \in Groups, NEW m \in Multiples, SetMultiple(g, m)
  PROVE  FrameInv'
<1>1. g \in mapGroup /\ phase # "crashed" /\ call.op = "none" /\ call.on = {}
  BY DEF SetMultiple, NoOther, FrameInv, CallRight
<1>2. PICK s : s = [fg[g] EXCEPT !.multiple = m]
  OBVIOUS
<1>3. fg' = [fg EXCEPT ![g] = s] /\ UNCHANGED <<globalFrameNum, phase, round, mapFrameGroup, mapGroup, maxTimerID, late>>
      /\ call' = IF ~Registers(s) \/ Divides(s) THEN NoCall
                 ELSE [op |-> "SetMultiple", on |-> {g}, met |-> phase = "locked",
                       frame |-> convertGlobalFrameNum(s, Least(s.timers))]
  BY <1>2 DEF SetMultiple
<1>4. fg[g] \in FGroup /\ Ahead(fg[g], globalFrameNum) /\ FrameTypeOK /\ mapFrameGroup \in FMap
      /\ Once(mapFrameGroup, fg[g], g) /\ (fg[g].pause => Nowhere(mapFrameGroup, g))
      /\ OnlyOf(mapFrameGroup, mapFrameGroup, g)
  BY <1>1, MadeFacts
<1>5. /\ s \in FGroup /\ s.timers = fg[g].timers /\ s.frameNum = fg[g].frameNum
      /\ s.preTickGlobalFrameNum = fg[g].preTickGlobalFrameNum
      /\ s.preGlobalFrameNum = fg[g].preGlobalFrameNum /\ s.pause = fg[g].pause
  BY <1>2, <1>4 DEF FGroup
<1>6. Ahead(s, globalFrameNum) /\ Once(mapFrameGroup, s, g) /\ (Registers(s) <=> Registers(fg[g]))
  BY <1>4, <1>5 DEF Ahead, Once, Registers
<1>7. Seen' = Seen
  BY <1>3 DEF Seen
<1>8. FrameTypeOK'
  BY <1>3, <1>4, <1>5 DEF FrameTypeOK
<1>9. fg'[g] = s
  BY <1>3, <1>4 DEF FrameTypeOK
<1>10. CASE ~Registers(s) \/ Divides(s)
  <2>1. call' = NoCall
    BY <1>3, <1>10
  <2>2. call'.on = {} /\ CallRight'
    BY <2>1, HorizonFacts DEF NoCall, CallRight, FCall
  <2>3. Loose(g)' <=> Loose(g)
    BY <1>1, <1>3, <2>2 DEF Loose, Touched
  <2>4. ~Loose(g) => Armed(mapFrameGroup, s, g, globalFrameNum, Seen)
    <3>1. ~Loose(g) => Armed(mapFrameGroup, fg[g], g, globalFrameNum, Seen)
      BY <1>1, MadeFacts
    <3> QED  BY <1>6, <1>10, <3>1 DEF Armed, Divides
  <2>5. GroupRight(mapFrameGroup, s, g, globalFrameNum, Seen, mapGroup', Loose(g)')
    BY <1>1, <1>3, <1>4, <1>5, <1>6, <2>3, <2>4 DEF GroupRight
  <2>6. g \in round'.left /\ g \notin late' /\ g \notin call'.on => Nowhere(mapFrameGroup, g)
    BY <1>1, <1>3 DEF FrameInv
  <2> QED  BY <1>1, <1>3, <1>4, <1>5, <1>7, <1>8, <2>2, <2>5, <2>6, OneGroup
<1>11. CASE ~(~Registers(s) \/ Divides(s))
  <2>1. call' = [op |-> "SetMultiple", on |-> {g}, met |-> phase = "locked", frame |-> Wakeup(s, globalFrameNum)]
    BY <1>3, <1>11 DEF convertGlobalFrameNum, Wakeup
  <2>2. Registers(s) /\ s.timers # {} /\ s.multiple # 0 /\ ~s.pause
    BY <1>11 DEF Registers, Divides
  <2>3. Wakeup(s, globalFrameNum) \in Horizon /\ Wakeup(s, globalFrameNum) \in Nat
        /\ globalFrameNum <= Wakeup(s, globalFrameNum)
    BY <1>4, <1>5, <1>6, <2>2, WakeupFacts DEF FrameTypeOK
  <2>4. Seen <= Wakeup(s, globalFrameNum)
    BY <1>4, <2>3, SeenFacts
  <2>5. /\ call' \in FCall /\ call'.on = {g} /\ call'.op = "SetMultiple" /\ (call'.met <=> phase = "locked")
        /\ call'.frame = Wakeup(s, globalFrameNum)
    BY <2>1, <2>3 DEF FCall
  <2>6. CallRight'
    BY <1>1, <1>3, <1>7, <1>9, <2>2, <2>3, <2>4, <2>5 DEF CallRight
  <2>7. Loose(g)'
    BY <2>5 DEF Loose, Touched
  <2>8. GroupRight(mapFrameGroup, s, g, globalFrameNum, Seen, mapGroup', Loose(g)')
    BY <1>1, <1>3, <1>4, <1>5, <1>6, <2>7 DEF GroupRight
  <2> QED  BY <1>1, <1>3, <1>4, <1>5, <1>7, <1>8, <2>5, <2>6, <2>8, OneGroup
<1> QED  BY <1>10, <1>11

LEMMA CloseStep ==
  ASSUME FrameInv, NEW g \in Groups, Close(g)
  PROVE  FrameInv'
<1>1. g \in mapGroup /\ phase # "crashed" /\ call.op = "none" /\ call.on = {}
  BY DEF Close, NoOther, FrameInv, CallRight
<1>2. fg[g] \in FGroup /\ Ahead(fg[g], globalFrameNum) /\ mapFrameGroup \in FMap /\ FrameTypeOK
      /\ fg \in [Groups -> FGroup]
  BY <1>1, MadeFacts DEF FrameTypeOK
<1>3. fg[g].preGlobalFrameNum \in Horizon
  BY <1>2 DEF FGroup
<1>4. PICK map : map = removeGroup(mapFrameGroup, g, fg[g].preGlobalFrameNum)
  OBVIOUS
<1>5. OnlyOf(mapFrameGroup, map, g) /\ Nowhere(map, g)
  BY <1>1, <1>2, <1>3, <1>4, MadeFacts, RemoveFacts DEF Once
<1>6. /\ mapFrameGroup' = map /\ UNCHANGED <<globalFrameNum, phase, round, mapGroup, fg, maxTimerID, late>>
      /\ call' = [NoCall EXCEPT !.op = "Close", !.on = {g}, !.met = phase = "locked"]
  BY <1>4 DEF Close
<1>7. call' \in FCall /\ call'.on = {g} /\ call'.op = "Close" /\ (call'.met <=> phase = "locked")
  BY <1>6, HorizonFacts DEF FCall, NoCall
<1>8. CallRight'
  BY <1>1, <1>5, <1>6, <1>7 DEF CallRight
<1>9. Loose(g)' /\ Seen' = Seen
  BY <1>6, <1>7 DEF Loose, Touched, Seen
<1>10. GroupRight(map, fg[g], g, globalFrameNum, Seen, mapGroup', Loose(g)')
  BY <1>2, <1>5, <1>9 DEF GroupRight, Once, Nowhere
<1>11. FrameTypeOK'
  BY <1>2, <1>5, <1>6 DEF FrameTypeOK, OnlyOf
<1>12. fg' = [fg EXCEPT ![g] = fg[g]]
  BY <1>2, <1>6
<1> QED  BY <1>1, <1>2, <1>5, <1>6, <1>7, <1>8, <1>9, <1>10, <1>11, <1>12, OneGroup

\* What a call that ends leaves of the other groups.
LEMMA CallEndsFacts ==
  ASSUME FrameInv, NEW g \in Groups, NEW op \in {"SetMultiple", "Close"}, CallEnds(op, g)
  PROVE  /\ g \in mapGroup /\ FrameTypeOK /\ call.op = op /\ call.on = {g} /\ call.frame \in Horizon
         /\ call'.on = {} /\ call' = NoCall /\ (call.met <=> g \in late') /\ late' \subseteq Groups
         /\ ~call.met => round.left = {}
         /\ Seen' = Seen /\ UNCHANGED <<globalFrameNum, phase, round, maxTimerID>>
         /\ \A h \in Groups : h # g => (h \in late \/ h \in call.on <=> h \in late' \/ h \in call'.on)
         /\ CallRight'
<1>1. FrameTypeOK /\ CallRight
  BY DEF FrameInv
<1>2. call.op = op /\ call.on = {g} /\ call' = NoCall /\ UNCHANGED <<globalFrameNum, phase, round, maxTimerID>>
      /\ late' = (IF call.met THEN late \cup {g} ELSE late \ {g}) /\ phase # "crashed"
  BY DEF CallEnds
<1>3. g \in mapGroup /\ call.frame \in Horizon /\ call.met \in BOOLEAN
  BY <1>1, <1>2 DEF CallRight, FCall
<1>4. ~call.met => round.left = {}
  BY <1>1, <1>2 DEF CallRight, FrameTypeOK
<1>5. call'.on = {} /\ CallRight'
  BY <1>2, HorizonFacts DEF NoCall, CallRight, FCall
<1>6. Seen' = Seen
  BY <1>2 DEF Seen
<1>7. (call.met <=> g \in late') /\ late' \subseteq Groups
  BY <1>1, <1>2, <1>3 DEF FrameTypeOK
<1>8. \A h \in Groups : h # g => (h \in late \/ h \in call.on <=> h \in late' \/ h \in call'.on)
  BY <1>2, <1>3, <1>5
<1> QED  BY <1>1, <1>2, <1>3, <1>4, <1>5, <1>6, <1>7, <1>8

LEMMA SetMultipleEndStep ==
  ASSUME FrameInv, NEW g \in Groups, SetMultipleEnd(g)
  PROVE  FrameInv'
<1>1. CallEnds("SetMultiple", g) /\ mapGroup' = mapGroup
  BY DEF SetMultipleEnd
<1>2. /\ g \in mapGroup /\ FrameTypeOK /\ call.op = "SetMultiple" /\ call.on = {g} /\ call.frame \in Horizon
      /\ call'.on = {} /\ (call.met <=> g \in late') /\ late' \subseteq Groups
      /\ ~call.met => round.left = {}
      /\ Seen' = Seen /\ UNCHANGED <<globalFrameNum, phase, round, maxTimerID>>
      /\ \A h \in Groups : h # g => (h \in late \/ h \in call.on <=> h \in late' \/ h \in call'.on)
      /\ CallRight'
  BY <1>1, CallEndsFacts
<1>3. PICK map, s : map = refreshGroupMinFrame(mapFrameGroup, g, fg[g].preGlobalFrameNum, call.frame)
                    /\ s = [fg[g] EXCEPT !.preGlobalFrameNum = call.frame]
  OBVIOUS
<1>4. mapFrameGroup' = map /\ fg' = [fg EXCEPT ![g] = s]
  BY <1>3 DEF SetMultipleEnd, Install
<1>5. fg[g] \in FGroup /\ Ahead(fg[g], globalFrameNum) /\ mapFrameGroup \in FMap /\ Once(mapFrameGroup, fg[g], g)
  BY <1>2, MadeFacts
<1>6. OnlyOf(mapFrameGroup, map, g) /\ \A e \in Horizon : g \in map[e] <=> e = call.frame
  BY <1>2, <1>3, <1>5, MoveFacts
<1>7. /\ s \in FGroup /\ s.timers = fg[g].timers /\ s.frameNum = fg[g].frameNum /\ s.pause = fg[g].pause
      /\ s.multiple = fg[g].multiple /\ s.preGlobalFrameNum = call.frame
      /\ s.preTickGlobalFrameNum = fg[g].preTickGlobalFrameNum
  BY <1>2, <1>3, <1>5 DEF FGroup
<1>8. Ahead(s, globalFrameNum) /\ Once(map, s, g) /\ Wakeup(s, globalFrameNum) = Wakeup(fg[g], globalFrameNum)
      /\ (Registers(s) <=> Registers(fg[g]))
  BY <1>5, <1>6, <1>7 DEF Ahead, Once, Wakeup, Registers
<1>9. ~fg[g].pause /\ (~call.met => /\ Registers(fg[g]) /\ fg[g].multiple # 0 /\ Seen <= call.frame
                                     /\ call.frame <= Wakeup(fg[g], globalFrameNum))
  BY <1>2 DEF FrameInv, CallRight
<1>10. ~call.met => Armed(map, s, g, globalFrameNum, Seen)
  BY <1>6, <1>7, <1>8, <1>9 DEF Armed
<1>11. call.met => Loose(g)'
  BY <1>2 DEF Loose
<1>12. GroupRight(map, s, g, globalFrameNum, Seen, mapGroup', Loose(g)')
  BY <1>1, <1>2, <1>7, <1>8, <1>9, <1>10, <1>11 DEF GroupRight
<1>13. FrameTypeOK'
  BY <1>1, <1>2, <1>4, <1>6, <1>7 DEF FrameTypeOK, OnlyOf
<1>14. g \in round'.left /\ g \notin late' /\ g \notin call'.on => Nowhere(map, g)
  BY <1>2
<1> QED  BY <1>1, <1>2, <1>4, <1>6, <1>7, <1>12, <1>13, <1>14, OneGroup

LEMMA CloseEndStep ==
  ASSUME FrameInv, NEW g \in Groups, CloseEnd(g)
  PROVE  FrameInv'
<1>1. CallEnds("Close", g) /\ mapGroup' = mapGroup \ {g} /\ UNCHANGED <<mapFrameGroup, fg>>
  BY DEF CloseEnd
<1>2. /\ g \in mapGroup /\ FrameTypeOK /\ call.op = "Close" /\ call.on = {g} /\ call.frame \in Horizon
      /\ call'.on = {} /\ call' = NoCall /\ (call.met <=> g \in late') /\ late' \subseteq Groups
      /\ ~call.met => round.left = {}
      /\ Seen' = Seen /\ UNCHANGED <<globalFrameNum, phase, round, maxTimerID>>
      /\ \A h \in Groups : h # g => (h \in late \/ h \in call.on <=> h \in late' \/ h \in call'.on)
      /\ CallRight'
  BY <1>1, CallEndsFacts
<1>3. fg[g] \in FGroup /\ Ahead(fg[g], globalFrameNum) /\ Once(mapFrameGroup, fg[g], g)
      /\ OnlyOf(mapFrameGroup, mapFrameGroup, g)
  BY <1>2, MadeFacts
<1>4. ~call.met => Nowhere(mapFrameGroup, g)
  BY <1>2 DEF FrameInv, CallRight
<1>5. call.met => Loose(g)'
  BY <1>2 DEF Loose
<1>6. GroupRight(mapFrameGroup, fg[g], g, globalFrameNum, Seen, mapGroup', Loose(g)')
  BY <1>1, <1>3, <1>4, <1>5 DEF GroupRight
<1>7. FrameTypeOK' /\ fg' = [fg EXCEPT ![g] = fg[g]]
  BY <1>1, <1>2 DEF FrameTypeOK
<1>8. g \in round'.left /\ g \notin late' /\ g \notin call'.on => Nowhere(mapFrameGroup, g)
  BY <1>2
<1>9. \A h \in Groups : h # g => (h \in mapGroup' <=> h \in mapGroup)
  BY <1>1
<1> QED  BY <1>1, <1>2, <1>3, <1>6, <1>7, <1>8, <1>9, OneGroup

LEMMA RaiseStep ==
  ASSUME FrameInv, raiseFrame
  PROVE  FrameInv'
<1>1. FrameTypeOK /\ globalFrameNum \in Nat /\ MaxFrame \in Nat /\ phase = "sleep" /\ globalFrameNum < MaxFrame
      /\ round.left = {}
  BY SeenFacts, HorizonFacts DEF FrameInv, FrameTypeOK, raiseFrame
<1>2. /\ globalFrameNum' = globalFrameNum + 1 /\ phase' = "raised"
      /\ UNCHANGED <<round, mapFrameGroup, mapGroup, fg, maxTimerID, call, late>>
  BY DEF raiseFrame
<1>3. Seen = globalFrameNum /\ Seen' = globalFrameNum
  BY <1>1, <1>2 DEF Seen
<1>4. FrameTypeOK'
  BY <1>1, <1>2 DEF FrameTypeOK
\* The frame that the earliest timer needs moves on with the global one.
<1>5. ASSUME NEW g \in Groups, Registers(fg[g]), fg[g].multiple # 0, NEW p \in Horizon,
             p <= Wakeup(fg[g], globalFrameNum)
      PROVE  p <= Wakeup(fg[g], globalFrameNum + 1)
  <2>1. fg[g] \in FGroup /\ Ahead(fg[g], globalFrameNum) /\ globalFrameNum \in 0..MaxFrame /\ fg[g].timers # {}
    BY <1>1, <1>5 DEF FrameInv, GroupRight, FrameTypeOK, Registers
  <2>2. PICK w1, w2 : w1 = Wakeup(fg[g], globalFrameNum) /\ w2 = Wakeup(fg[g], globalFrameNum + 1)
    OBVIOUS
  <2>3. w1 \in Nat
    BY <1>5, <2>1, <2>2, WakeupFacts
  <2>4. PICK qq : qq = (Least(fg[g].timers) - fg[g].frameNum) \div fg[g].multiple
    OBVIOUS
  <2>5. w1 = globalFrameNum + qq /\ w2 = (globalFrameNum + 1) + qq
    BY <2>2, <2>4 DEF Wakeup
  <2>6. Least(fg[g].timers) \in Int /\ fg[g].frameNum \in Int /\ fg[g].multiple \in Nat \ {0}
    <3>1. fg[g].timers \in SUBSET FTimer /\ fg[g].frameNum \in Nat /\ fg[g].multiple \in Multiples
      BY <2>1 DEF FGroup
    <3>2. Least(fg[g].timers) \in Nat
      BY <2>1, <3>1, LeastFacts
    <3>3. \A m \in Multiples : m \in Nat
      BY FrameAssumption
    <3> QED  BY <1>5, <3>1, <3>2, <3>3
  <2>7. qq \in Int
    BY <2>4, <2>6
  <2>8. w2 = w1 + 1
    BY <1>1, <2>3, <2>5, <2>7
  <2>9. p \in Nat /\ p <= w1
    BY <1>5, <2>2, HorizonFacts
  <2> QED  BY <2>2, <2>3, <2>8, <2>9
<1>6. \A g \in Groups : Loose(g)' <=> Loose(g)
  BY <1>2 DEF Loose, Touched
<1>7. ASSUME NEW g \in Groups
      PROVE  GroupRight(mapFrameGroup, fg[g], g, globalFrameNum + 1, globalFrameNum, mapGroup, Loose(g))
  <2>1. GroupRight(mapFrameGroup, fg[g], g, globalFrameNum, globalFrameNum, mapGroup, Loose(g)) /\ fg[g] \in FGroup
    BY <1>3 DEF FrameInv, GroupRight
  <2>2. Ahead(fg[g], globalFrameNum + 1)
    BY <1>1, <2>1 DEF GroupRight, Ahead, FGroup
  <2>3. fg[g].preGlobalFrameNum \in Horizon
    BY <2>1 DEF FGroup
  <2>4. Armed(mapFrameGroup, fg[g], g, globalFrameNum, globalFrameNum) =>
          Armed(mapFrameGroup, fg[g], g, globalFrameNum + 1, globalFrameNum)
    BY <1>5, <2>3 DEF Armed
  <2> QED  BY <2>1, <2>2, <2>4 DEF GroupRight
<1>8. CallRight'
  <2>1. CallRight /\ mapGroup \subseteq Groups
    BY <1>1 DEF FrameInv, FrameTypeOK
  <2>2. call.frame \in Horizon
    BY <2>1 DEF CallRight, FCall
  <2>3. call.op = "SetMultiple" /\ ~call.met => \A g \in call.on :
          /\ Registers(fg[g]) /\ fg[g].multiple # 0
          /\ globalFrameNum <= call.frame /\ call.frame <= Wakeup(fg[g], globalFrameNum + 1)
    BY <1>3, <1>5, <2>1, <2>2 DEF CallRight
  <2> QED  BY <1>1, <1>2, <1>3, <2>1, <2>3 DEF CallRight
<1> QED  BY <1>1, <1>2, <1>3, <1>4, <1>6, <1>7, <1>8 DEF FrameInv, GroupRight

\* frameTick takes the groups of frame f out of the map.
LEMMA LookStep ==
  ASSUME FrameInv, NEW f \in Nat, f <= globalFrameNum, f = Seen, round.left = {}, Look(f),
         phase' = "locked", globalFrameNum <= f + 1,
         call' \in FCall, call'.op = call.op, call'.on = call.on, call.op # "none" => call'.met
  PROVE  FrameInv'
<1>1. /\ FrameTypeOK /\ f \in Horizon /\ globalFrameNum \in Nat /\ mapFrameGroup \in FMap
  BY SeenFacts, HorizonFacts DEF FrameInv, FrameTypeOK
<1>2. PICK map2 : map2 = [mapFrameGroup EXCEPT ![f] = {}]
  OBVIOUS
<1>3. /\ round' = [frame |-> f, left |-> mapFrameGroup[f]] /\ mapFrameGroup' = map2
      /\ UNCHANGED <<globalFrameNum, mapGroup, fg, maxTimerID, late>>
  BY <1>2 DEF Look
<1>4. map2 \in FMap /\ map2[f] = {} /\ \A h \in Horizon : h # f => map2[h] = mapFrameGroup[h]
  BY <1>1, <1>2 DEF FMap
<1>5. round' \in [frame : Nat, left : SUBSET Groups] /\ round'.left = mapFrameGroup[f]
  BY <1>1, <1>3 DEF FMap
<1>6. FrameTypeOK' /\ Seen' = globalFrameNum
  BY <1>1, <1>3, <1>4, <1>5 DEF FrameTypeOK, Seen
<1>7. CallRight'
  BY <1>3 DEF FrameInv, CallRight
<1>8. ASSUME NEW g \in Groups
      PROVE  /\ GroupRight(map2, fg[g], g, globalFrameNum, globalFrameNum, mapGroup, Loose(g)')
             /\ g \in mapFrameGroup[f] => Nowhere(map2, g)
  <2>1. GroupRight(mapFrameGroup, fg[g], g, globalFrameNum, f, mapGroup, Loose(g)) /\ fg[g] \in FGroup
    BY DEF FrameInv, GroupRight
  <2>2. \A h \in Horizon : g \in map2[h] => g \in mapFrameGroup[h]
    BY <1>4
  <2>3. g \in mapFrameGroup[f] => Nowhere(map2, g)
    BY <1>1, <1>4, <2>1 DEF GroupRight, Once, Nowhere
  <2>4. Nowhere(mapFrameGroup, g) => Nowhere(map2, g)
    BY <2>2 DEF Nowhere
  <2>5. Once(map2, fg[g], g)
    BY <2>1, <2>2 DEF GroupRight, Once
  <2>6. ~Loose(g)' => ~Loose(g) /\ g \notin mapFrameGroup[f]
    BY <1>3, <1>5 DEF Loose, Touched
  <2>7. ASSUME g \notin mapFrameGroup[f], Armed(mapFrameGroup, fg[g], g, globalFrameNum, f)
        PROVE  Armed(map2, fg[g], g, globalFrameNum, globalFrameNum)
    <3>1. CASE Registers(fg[g]) /\ fg[g].multiple # 0
      <4>1. PICK p : p = fg[g].preGlobalFrameNum
        OBVIOUS
      <4>2. p \in Nat /\ p \in Horizon
        BY <2>1, <4>1, HorizonFacts DEF FGroup
      <4>3. (\A h \in Horizon : g \in mapFrameGroup[h] <=> h = p) /\ f <= p /\ p <= Wakeup(fg[g], globalFrameNum)
        BY <2>7, <3>1, <4>1 DEF Armed
      <4>4. p # f
        BY <1>1, <2>7, <4>3
      <4>5. globalFrameNum <= p
        BY <1>1, <4>2, <4>3, <4>4
      <4>6. \A h \in Horizon : g \in map2[h] <=> h = p
        BY <1>4, <4>3, <4>4
      <4> QED  BY <3>1, <4>1, <4>3, <4>5, <4>6 DEF Armed
    <3>2. CASE ~(Registers(fg[g]) /\ fg[g].multiple # 0)
      BY <2>4, <2>7, <3>2 DEF Armed
    <3> QED  BY <3>1, <3>2
  <2> QED  BY <2>1, <2>3, <2>4, <2>5, <2>6, <2>7 DEF GroupRight
<1>9. \A g \in round'.left : g \notin late' /\ g \notin call'.on => Nowhere(map2, g)
  <2>1. \A g \in mapFrameGroup[f] : g \in Groups
    BY <1>1 DEF FMap
  <2> QED  BY <1>5, <1>8, <2>1
<1> QED  BY <1>3, <1>6, <1>7, <1>8, <1>9 DEF FrameInv

LEMMA LockStep ==
  ASSUME FrameInv, LockFrames
  PROVE  FrameInv'
<1>1. FrameTypeOK /\ phase = "raised" /\ globalFrameNum \in Nat /\ globalFrameNum > 0 /\ round.left = {}
  BY SeenFacts DEF FrameInv, FrameTypeOK, LockFrames
<1>2. PICK f : f = globalFrameNum - 1
  OBVIOUS
<1>3. f \in Nat /\ f <= globalFrameNum /\ f = Seen /\ globalFrameNum <= f + 1
  BY <1>1, <1>2 DEF Seen
<1>4. Look(f) /\ phase' = "locked" /\ call' = [call EXCEPT !.met = call.op # "none"]
  BY <1>2 DEF LockFrames
<1>5. call' \in FCall /\ call'.op = call.op /\ call'.on = call.on /\ (call.op # "none" => call'.met)
  BY <1>4 DEF FrameInv, CallRight, FCall
<1> QED  BY <1>1, <1>3, <1>4, <1>5, LookStep

LEMMA NextFrameStep ==
  ASSUME FrameInv, NextFrame
  PROVE  FrameInv'
<1>1. FrameTypeOK /\ phase = "locked" /\ globalFrameNum \in Nat /\ round.left = {} /\ Seen = globalFrameNum
  BY SeenFacts DEF FrameInv, NextFrame, Seen
<1>2. Look(globalFrameNum) /\ phase' = "locked" /\ call' = call
  BY <1>1 DEF NextFrame
<1>3. call \in FCall /\ (call.op # "none" => call.met)
  BY <1>1 DEF FrameInv, CallRight
<1> QED  BY <1>1, <1>2, <1>3, LookStep

LEMMA UnlockStep ==
  ASSUME FrameInv, Unlock
  PROVE  FrameInv'
<1>1. /\ phase = "locked" /\ phase' = "sleep" /\ round.left = {} /\ round' = NoRound
      /\ UNCHANGED <<globalFrameNum, mapFrameGroup, mapGroup, fg, maxTimerID, call, late>>
  BY DEF Unlock
<1>2. round' \in [frame : Nat, left : SUBSET Groups] /\ round'.left = {}
  BY <1>1 DEF NoRound
<1>3. Seen' = Seen
  BY <1>1 DEF Seen
<1>4. FrameTypeOK'
  BY <1>1, <1>2 DEF FrameInv, FrameTypeOK
<1>5. CallRight'
  BY <1>1, <1>3 DEF FrameInv, CallRight
<1>6. \A g \in Groups : Loose(g)' <=> Loose(g)
  BY <1>1, <1>2 DEF Loose, Touched
<1> QED  BY <1>1, <1>2, <1>3, <1>4, <1>5, <1>6 DEF FrameInv, GroupRight

LEMMA SkipClosedStep ==
  ASSUME FrameInv, NEW g \in Groups, SkipClosed(g)
  PROVE  FrameInv'
<1>1. /\ phase = "locked" /\ g \in round.left /\ g \notin mapGroup /\ round' = [round EXCEPT !.left = @ \ {g}]
      /\ UNCHANGED <<globalFrameNum, phase, mapFrameGroup, mapGroup, fg, maxTimerID, call, late>>
  BY DEF SkipClosed
<1>2. FrameTypeOK /\ CallRight
  BY DEF FrameInv
<1>3. round' \in [frame : Nat, left : SUBSET Groups] /\ round'.left = round.left \ {g}
  BY <1>1, <1>2 DEF FrameTypeOK
<1>4. Seen' = Seen /\ FrameTypeOK'
  BY <1>1, <1>2, <1>3 DEF FrameTypeOK, Seen
<1>5. CallRight'
  BY <1>1, <1>2, <1>4 DEF CallRight
<1>6. g \notin call.on
  BY <1>1, <1>2 DEF CallRight
<1>7. GroupRight(mapFrameGroup, fg[g], g, globalFrameNum, Seen, mapGroup', Loose(g)')
  <2>1. GroupRight(mapFrameGroup, fg[g], g, globalFrameNum, Seen, mapGroup, Loose(g))
    BY DEF FrameInv
  <2>2. g \notin late => Nowhere(mapFrameGroup, g)
    BY <1>1, <1>6 DEF FrameInv
  <2>3. g \in late => Loose(g)'
    BY <1>1 DEF Loose
  <2> QED  BY <1>1, <2>1, <2>2, <2>3 DEF GroupRight
<1>8. OnlyOf(mapFrameGroup, mapFrameGroup, g) /\ fg' = [fg EXCEPT ![g] = fg[g]] /\ fg[g] \in FGroup
  BY <1>1, <1>2 DEF OnlyOf, FrameTypeOK
<1>9. \A h \in Groups : h # g => (h \in round'.left <=> h \in round.left)
  BY <1>3
<1> QED  BY <1>1, <1>3, <1>4, <1>5, <1>7, <1>8, <1>9, OneGroup

\* A tick of a group leaves its timers later than its frame.
LEMMA OnceTickFacts ==
  ASSUME NEW s \in FGroup, globalFrameNum \in 0..MaxFrame, Ahead(s, globalFrameNum),
         NEW r, r = onceTick(s)
  PROVE  /\ r \in FGroup /\ Ahead(r, globalFrameNum) /\ r.pause = s.pause
         /\ r.preGlobalFrameNum = s.preGlobalFrameNum
<1> DEFINE here == s.frameNum + (globalFrameNum - s.preTickGlobalFrameNum) * s.multiple
           due == {t \in s.timers : t.frameNum <= here}
           again == {[t EXCEPT !.frameNum = here + t.tickerFrameNum] :
                       t \in {d \in due : d.tickerFrameNum # 0}}
           s1 == [s EXCEPT !.frameNum = here, !.preTickGlobalFrameNum = globalFrameNum,
                           !.timers = (@ \ due) \cup again]
<1>1. r = s1
  BY DEF onceTick
<1>2. globalFrameNum \in Nat /\ s.frameNum \in Nat /\ s.preTickGlobalFrameNum \in Nat /\ s.multiple \in Nat
      /\ s.preTickGlobalFrameNum <= globalFrameNum /\ s.timers \subseteq FTimer
  <2>1. \A m \in Multiples : m \in Nat
    BY FrameAssumption
  <2> QED  BY <2>1, HorizonFacts DEF FGroup, Ahead
<1>3. here \in Nat /\ s.frameNum <= here
  <2>1. PICK d, m : d = globalFrameNum - s.preTickGlobalFrameNum /\ m = s.multiple
    OBVIOUS
  <2>2. d \in Nat /\ m \in Nat
    BY <1>2, <2>1
  <2>3. d * m \in Nat
    BY <2>2
  <2>4. here = s.frameNum + d * m
    BY <2>1
  <2> HIDE DEF here
  <2> QED  BY <1>2, <2>3, <2>4
<1> HIDE DEF here
<1>4. due \subseteq FTimer /\ \A t \in s.timers \ due : here < t.frameNum
  BY <1>2, <1>3 DEF FTimer
<1>6. \A u \in again : u \in FTimer /\ here <= u.frameNum /\ u.frameNum <= here + Max(Delays)
  <2> SUFFICES ASSUME NEW t \in due, t.tickerFrameNum # 0, NEW u, u = [t EXCEPT !.frameNum = here + t.tickerFrameNum]
               PROVE  u \in FTimer /\ here <= u.frameNum /\ u.frameNum <= here + Max(Delays)
    OBVIOUS
  <2>1. t \in FTimer
    BY <1>4
  <2>2. t.tickerFrameNum \in Delays
    BY <2>1 DEF FTimer
  <2>3. t.tickerFrameNum \in Nat /\ t.tickerFrameNum <= Max(Delays) /\ Max(Delays) \in Nat
    BY <2>2, HorizonFacts, FrameAssumption
  <2>4. here + t.tickerFrameNum \in Nat
    BY <1>3, <2>3
  <2>5. u \in FTimer /\ u.frameNum = here + t.tickerFrameNum
    BY <2>1, <2>4 DEF FTimer
  <2> QED  BY <1>3, <2>3, <2>5
<1> HIDE DEF again
<1>7. \A u \in s.timers \ due : u \in FTimer /\ here <= u.frameNum /\ u.frameNum <= here + Max(Delays)
  <2> TAKE u \in s.timers \ due
  <2>1. u \in FTimer /\ u.frameNum \in Nat /\ here < u.frameNum
    BY <1>2, <1>4 DEF FTimer
  <2>2. u.frameNum <= s.frameNum + Max(Delays) /\ Max(Delays) \in Nat
    BY HorizonFacts DEF Ahead
  <2> QED  BY <1>2, <1>3, <2>1, <2>2
<1> HIDE DEF due
<1>8. /\ s1 \in FGroup /\ s1.frameNum = here /\ s1.preTickGlobalFrameNum = globalFrameNum
      /\ s1.timers = (s.timers \ due) \cup again /\ s1.pause = s.pause
      /\ s1.preGlobalFrameNum = s.preGlobalFrameNum
  BY <1>2, <1>3, <1>6, <1>7 DEF FGroup
<1>9. Ahead(s1, globalFrameNum)
  BY <1>2, <1>6, <1>7, <1>8 DEF Ahead
<1> HIDE DEF s1
<1> QED  BY <1>1, <1>8, <1>9

LEMMA TickStep ==
  ASSUME FrameInv, NEW g \in Groups, tick(g)
  PROVE  FrameInv'
<1>1. PICK s : s = onceTick(fg[g])
  OBVIOUS
<1>2. /\ phase = "locked" /\ g \in round.left /\ g \in mapGroup /\ Refreshed(mapFrameGroup, s, g)
      /\ round' = [round EXCEPT !.left = @ \ {g}] /\ phase' = (IF Divides(s) THEN "crashed" ELSE phase)
      /\ late' = (IF Registers(s) THEN late \ {g} ELSE late)
      /\ UNCHANGED <<globalFrameNum, mapGroup, maxTimerID, call>>
  BY <1>1 DEF tick
<1>3. FrameTypeOK /\ CallRight /\ mapFrameGroup \in FMap /\ globalFrameNum \in 0..MaxFrame /\ late \subseteq Groups
      /\ fg \in [Groups -> FGroup]
  BY DEF FrameInv, FrameTypeOK
<1>4. fg[g] \in FGroup /\ Ahead(fg[g], globalFrameNum) /\ Once(mapFrameGroup, fg[g], g)
      /\ (fg[g].pause => Nowhere(mapFrameGroup, g))
  BY <1>2, MadeFacts
<1>5. s \in FGroup /\ Ahead(s, globalFrameNum) /\ s.pause = fg[g].pause
      /\ s.preGlobalFrameNum = fg[g].preGlobalFrameNum
  BY <1>1, <1>3, <1>4, OnceTickFacts
<1>6. Once(mapFrameGroup, s, g)
  BY <1>4, <1>5 DEF Once
<1>7. PICK r : r = refreshMinFrame([map |-> mapFrameGroup, fg |-> s], g)
  OBVIOUS
<1>8. mapFrameGroup' = r.map /\ fg' = [fg EXCEPT ![g] = r.fg]
  BY <1>2, <1>7 DEF Refreshed, Install
<1>9. Seen = globalFrameNum /\ Seen' = Seen /\ Seen \in Nat
  BY <1>2, <1>3, SeenFacts DEF Seen
<1>10. /\ OnlyOf(mapFrameGroup, r.map, g)
       /\ r.fg \in FGroup /\ Ahead(r.fg, globalFrameNum) /\ Once(r.map, r.fg, g)
       /\ r.fg.pause = s.pause /\ (s.pause /\ Nowhere(mapFrameGroup, g) => Nowhere(r.map, g))
       /\ Registers(s) \/ Nowhere(mapFrameGroup, g) => Armed(r.map, r.fg, g, globalFrameNum, Seen)
  BY <1>3, <1>5, <1>6, <1>7, <1>9, RefreshFacts
<1>11. round' \in [frame : Nat, left : SUBSET Groups] /\ round'.left = round.left \ {g}
  BY <1>2, <1>3 DEF FrameTypeOK
<1>12. FrameTypeOK'
  BY <1>2, <1>3, <1>8, <1>10, <1>11 DEF FrameTypeOK, OnlyOf
<1>13. fg'[g].pause = fg[g].pause /\ \A h \in Groups : h # g => fg'[h] = fg[h]
  BY <1>3, <1>5, <1>8, <1>10
<1>14. CallRight'
  <2>1. call.op # "none" => call.met
    BY <1>2, <1>3 DEF CallRight
  <2>2. \A h \in Groups : fg'[h].pause = fg[h].pause
    BY <1>13
  <2>3. call.on \subseteq Groups
    BY <1>3 DEF CallRight, FCall
  <2> QED  BY <1>2, <1>3, <2>1, <2>2, <2>3 DEF CallRight
<1>15. ~Loose(g)' => Registers(s) \/ Nowhere(mapFrameGroup, g)
  <2>1. ~Loose(g)' => g \notin call.on /\ (Registers(s) \/ g \notin late)
    BY <1>2 DEF Loose, Touched
  <2>2. g \notin call.on /\ g \notin late => Nowhere(mapFrameGroup, g)
    BY <1>2 DEF FrameInv
  <2> QED  BY <2>1, <2>2
<1>16. GroupRight(r.map, r.fg, g, globalFrameNum, Seen, mapGroup', Loose(g)')
  BY <1>2, <1>4, <1>5, <1>10, <1>15 DEF GroupRight
<1>17. \A h \in Groups : h # g => /\ h \in round'.left <=> h \in round.left
                                  /\ h \in late' <=> h \in late
  BY <1>2, <1>11
<1> QED  BY <1>2, <1>8, <1>9, <1>10, <1>11, <1>12, <1>14, <1>16, <1>17, OneGroup

LEMMA FrameStepInv ==
  ASSUME FrameInv, [FrameNext]_frameVars
  PROVE  FrameInv'
<1>1. ASSUME NEW g \in Groups, NEW d \in Delays, FrameAfterFunc(g, d) \/ FrameNewTicker(g, d)
      PROVE  FrameInv'
  BY <1>1, AddTimerStep DEF FrameAfterFunc, FrameNewTicker
<1>2. CASE UNCHANGED frameVars
  BY <1>2 DEF frameVars, FrameInv, FrameTypeOK, CallRight, Seen, Loose, Touched
<1> QED  BY <1>1, <1>2, NewGroupStep, PauseStep, ResumeStep, CloseStep, CloseEndStep, SetMultipleStep,
            SetMultipleEndStep, CancelTimerStep, RaiseStep, LockStep, NextFrameStep, UnlockStep,
            TickStep, SkipClosedStep DEF FrameNext

\* A running group that holds timers is registered for exactly one frame, which
\* the frame goroutine has still to look at, unless its SetMultiple or Close met
\* the locked frameTick.
THEOREM WakeupsStayArmed == FrameSpec => []WakeupArmed
<1>1. FrameInit => FrameInv
  BY FrameInitInv
<1>2. FrameInv /\ [FrameNext]_frameVars => FrameInv'
  BY FrameStepInv
<1>3. FrameInv => WakeupArmed
  <2> SUFFICES ASSUME FrameInv, NEW g \in Groups
               PROVE  LET at == {f \in Horizon : g \in mapFrameGroup[f]}
                          seen == IF phase = "raised" THEN globalFrameNum - 1 ELSE globalFrameNum
                          s == fg[g]
                      IN  IF g \in late \/ Touched(g) \/ (g \in mapGroup /\ Divides(s))
                          THEN at \subseteq {s.preGlobalFrameNum}
                          ELSE IF g \notin mapGroup \/ ~Registers(s) THEN at = {}
                          ELSE /\ at = {s.preGlobalFrameNum}
                               /\ seen <= s.preGlobalFrameNum
                               /\ s.preGlobalFrameNum <= convertGlobalFrameNum(s, Least(s.timers))
    BY DEF WakeupArmed
  <2>1. GroupRight(mapFrameGroup, fg[g], g, globalFrameNum, Seen, mapGroup, Loose(g))
    BY DEF FrameInv
  <2>2. {f \in Horizon : g \in mapFrameGroup[f]} \subseteq {fg[g].preGlobalFrameNum}
    BY <2>1 DEF GroupRight, Once
  <2>3. ASSUME ~Loose(g), ~(g \in mapGroup /\ Divides(fg[g])), g \notin mapGroup \/ ~Registers(fg[g])
        PROVE  {f \in Horizon : g \in mapFrameGroup[f]} = {}
    BY <2>1, <2>3 DEF GroupRight, Armed, Nowhere
  <2>4. ASSUME ~Loose(g), ~(g \in mapGroup /\ Divides(fg[g])), ~(g \notin mapGroup \/ ~Registers(fg[g]))
        PROVE  /\ {f \in Horizon : g \in mapFrameGroup[f]} = {fg[g].preGlobalFrameNum}
               /\ Seen <= fg[g].preGlobalFrameNum
               /\ fg[g].preGlobalFrameNum <= convertGlobalFrameNum(fg[g], Least(fg[g].timers))
    <3>1. fg[g].preGlobalFrameNum \in Horizon
      BY <2>1 DEF GroupRight, FGroup
    <3>2. (\A f \in Horizon : g \in mapFrameGroup[f] <=> f = fg[g].preGlobalFrameNum)
          /\ Seen <= fg[g].preGlobalFrameNum /\ fg[g].preGlobalFrameNum <= Wakeup(fg[g], globalFrameNum)
      BY <2>1, <2>4 DEF GroupRight, Armed, Divides
    <3> QED  BY <3>1, <3>2 DEF Wakeup, convertGlobalFrameNum
  <2> QED  BY <2>2, <2>3, <2>4 DEF Loose, Seen
<1> QED  BY <1>1, <1>2, <1>3, PTL DEF FrameSpec
=============================================================================
