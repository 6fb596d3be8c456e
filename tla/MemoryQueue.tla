---------------------------- MODULE MemoryQueue ----------------------------
(***************************************************************************)
(* The ring of recent messages of a topic of the message queue service:    *)
(* MemoryQueue.go, with the binary search it uses.                         *)
(*                                                                         *)
(* A message is its sequence number.  The slice has one entry more than    *)
(* the capacity: the entries after head, up to and including tail, are in  *)
(* use, so that head = tail is the empty queue.                            *)
(***************************************************************************)
EXTENDS Integers, Sequences

CONSTANT RingCap   \* memoryQueueLen

ASSUME RingAssumption == RingCap \in Nat \ {0}

VARIABLES
  topicQueue,  \* the slice, indexed from 0; 0 is the zero TopicData
  head,
  tail

ringVars == <<topicQueue, head, tail>>

RingLen == RingCap + 1

RingInit ==
  /\ topicQueue = [i \in 0..RingCap |-> 0]
  /\ head = 0
  /\ tail = 0

\* A full ring drops its first entry.  (Mutant: it drops nothing.)
KeepsHead == head
HeadAfterPush ==
  IF (tail + 1) % RingLen = head THEN (head + 1) % RingLen ELSE head

Push(m) ==
  /\ head' = HeadAfterPush
  /\ tail' = (tail + 1) % RingLen
  /\ topicQueue' = [topicQueue EXCEPT ![(tail + 1) % RingLen] = m]

\* BiSearch: the loop narrows low..high and ends with the last mid looked at.
\* s is a function on 0..n-1, -1 stands for "not found".
BiSearch(s, n, value, matchUp) ==
  LET Mid(low, high) == low + (high - low) \div 2
      loop[low \in 0..n, high \in -1..(n - 1), mid \in -1..(n - 1)] ==
        IF low > high THEN <<FALSE, mid>>
        ELSE LET m == Mid(low, high) IN
             IF s[m] > value THEN loop[low, m - 1, m]
             ELSE IF s[m] < value THEN loop[m + 1, high, m]
             ELSE <<TRUE, m>>
      end == loop[0, n - 1, -1]
      mid == end[2]
  IN  IF n = 0 THEN -1
      ELSE IF end[1] THEN mid
      ELSE IF matchUp = 1
           THEN IF s[mid] >= value THEN mid ELSE IF mid + 1 < n THEN mid + 1 ELSE -1
           ELSE IF matchUp = -1
                THEN IF s[mid] > value THEN mid - 1 ELSE mid
                ELSE -1

\* What a search of the memory answers: ok is false when the caller has to
\* ask the database.
NotHere == [ok |-> FALSE, data |-> <<>>]
Found(from, to) == [ok |-> TRUE, data |-> [i \in 1..(to - from) |-> topicQueue[from + i - 1]]]

\* findData in the part of the slice that begins at startPos.
StartsLater(startPos, startIndex) == topicQueue[startPos] > startIndex

findData(startPos, startIndex, limit) ==
  LET endPos == IF startPos <= tail THEN tail + 1 ELSE RingLen IN
  IF startPos >= endPos \/ (startPos < endPos /\ StartsLater(startPos, startIndex))
  THEN NotHere
  ELSE LET pos == BiSearch([i \in 0..(endPos - startPos - 1) |-> topicQueue[startPos + i]],
                           endPos - startPos, startIndex, 1)
           from == startPos + pos
       IN  IF pos = -1 THEN NotHere
           ELSE Found(from, IF limit + from > endPos THEN endPos ELSE limit + from)

\* FindData: a ring that wraps is searched in two parts.
FindData(startIndex, limit) ==
  LET back == findData(head + 1, startIndex, limit) IN
  IF head = tail THEN NotHere
  ELSE IF head < tail \/ back.ok THEN back
  ELSE findData(0, startIndex, limit)
-----------------------------------------------------------------------------
\* The messages of the ring, the oldest first.
Contents ==
  [i \in 1..((tail - head) % RingLen) |-> topicQueue[(head + i) % RingLen]]
=============================================================================
