------------------------------- MODULE Deque -------------------------------
(***************************************************************************)
(* The ring buffers of package util/queue: Deque, in which the dispatcher  *)
(* of the coroutine pool keeps the waiting tasks of a queue id, Queue,     *)
(* which grows and shrinks in the same way, and SQueue, a ring of fixed    *)
(* size read through cursors.  The loops of Rotate, Insert and Remove take *)
(* a step for each round.                                                  *)
(***************************************************************************)
EXTENDS Integers, Sequences, FiniteSets, SequencesExt

CONSTANTS
  Elems,        \* what is stored: numbers, not 0
  MinCapacity,  \* minCapacity, minQueueLen: 16 in the code
  MaxLength,    \* bound on the elements stored
  Kinds         \* the rings to look at: "deque", "queue", "squeue"

ASSUME DequeAssumption ==
  Elems \subseteq Nat \ {0} /\ MinCapacity \in Nat \ {0} /\ MaxLength \in Nat /\ Kinds \subseteq {"deque", "queue", "squeue"}

VARIABLES
  kind,    \* which of the three it is
  q,       \* the ring: buf (from index 0), head, tail, count
  cursor,  \* an SQueue cursor: pos, and what it has still to yield
  items,   \* the sequence users see: pushed and not yet popped
  loop     \* the loop a Deque is in: "turn" is that of Rotate, which has done some
           \* rounds of goal on base; "move" has brought elem, among rest, to the
           \* place pos on its way to goal, where it stays or is popped

dequeVars == <<kind, q, cursor, items, loop>>

Zero == 0
NoLoop == [op |-> "none"]
Blank(n) == [i \in 0..(n - 1) |-> Zero]
CapOf(r) == Cardinality(DOMAIN r.buf)
Slot(r, i) == r.buf[(r.head + i) % CapOf(r)]

\* A Deque starts without a buffer, a Queue with the smallest, and an SQueue
\* with one slot more than it may hold.
DequeInit ==
  /\ kind \in Kinds
  /\ q = [buf |-> Blank(CASE kind = "deque" -> 0 [] kind = "queue" -> MinCapacity
                          [] kind = "squeue" -> MaxLength + 1),
          head |-> 0, tail |-> 0, count |-> 0]
  /\ cursor = [pos |-> 0, rest |-> <<>>] /\ items = <<>> /\ loop = NoLoop
-----------------------------------------------------------------------------
\* prev and next: & (len - 1) is % len, the length being a power of two.
prev(r, i) == (i - 1) % CapOf(r)
next(r, i) == (i + 1) % CapOf(r)

\* (Mutant of resize: the part after the wrap is forgotten.)
FirstPartOnly(r) ==
  [buf |-> [i \in 0..(2 * r.count - 1) |->
              IF r.head + i < (IF r.tail > r.head THEN r.tail ELSE CapOf(r))
              THEN r.buf[r.head + i] ELSE Zero],
   head |-> 0, tail |-> r.count, count |-> r.count]

\* The part before the wrap and the part after it are copied to the start of a
\* buffer twice the count.
resize(r) ==
  LET whole == r.tail > r.head
      n == IF whole THEN r.tail - r.head ELSE CapOf(r) - r.head
  IN [buf |-> [i \in 0..(2 * r.count - 1) |->
                 IF i < n THEN r.buf[r.head + i]
                 ELSE IF ~whole /\ i - n < r.tail THEN r.buf[i - n] ELSE Zero],
      head |-> 0, tail |-> r.count, count |-> r.count]

growIfFull(r) ==
  IF r.count # CapOf(r) THEN r
  ELSE IF CapOf(r) = 0 THEN [r EXCEPT !.buf = Blank(MinCapacity)] ELSE resize(r)

shrinkIfExcess(r) ==
  IF CapOf(r) > MinCapacity /\ r.count * 4 = CapOf(r) THEN resize(r) ELSE r

Swapped(r, i, j) == [r EXCEPT !.buf[i] = r.buf[j], !.buf[j] = r.buf[i]]

PushedBack(r0, e) ==
  LET r == growIfFull(r0)
  IN  [r EXCEPT !.buf[r.tail] = e, !.tail = next(r, r.tail), !.count = @ + 1]

PushedFront(r0, e) ==
  LET r == growIfFull(r0)
      h == prev(r, r.head)
  IN  [r EXCEPT !.head = h, !.buf[h] = e, !.count = @ + 1]

PoppedFront(r) ==
  shrinkIfExcess([r EXCEPT !.buf[r.head] = Zero, !.head = next(r, r.head), !.count = @ - 1])

PoppedBack(r) ==
  LET t == prev(r, r.tail)
  IN  shrinkIfExcess([r EXCEPT !.tail = t, !.buf[t] = Zero, !.count = @ - 1])
-----------------------------------------------------------------------------
Of(k) == kind = k /\ loop = NoLoop /\ UNCHANGED <<kind, loop>>
IsDeque == Of("deque") /\ UNCHANGED cursor
Room == Len(items) < MaxLength

\* A pop of an empty Deque panics; of an empty Queue it returns nil.
PushBack(e) == IsDeque /\ Room /\ q' = PushedBack(q, e) /\ items' = Append(items, e)
PushFront(e) == IsDeque /\ Room /\ q' = PushedFront(q, e) /\ items' = <<e>> \o items
PopFront == IsDeque /\ q.count > 0 /\ q' = PoppedFront(q) /\ items' = Tail(items)
PopBack == IsDeque /\ q.count > 0 /\ q' = PoppedBack(q) /\ items' = Front(items)

DequeSet(i, e) ==
  /\ IsDeque /\ i < q.count
  /\ q' = [q EXCEPT !.buf[(q.head + i) % CapOf(q)] = e]
  /\ items' = [items EXCEPT ![i + 1] = e]

\* The slots from head up to tail are zeroed: none of them when the ring is full.
DequeClear ==
  /\ IsDeque
  /\ q' = [buf |-> [i \in DOMAIN q.buf |->
                      IF q.head # q.tail /\ (i - q.head) % CapOf(q) < (q.tail - q.head) % CapOf(q)
                      THEN Zero ELSE q.buf[i]],
           head |-> 0, tail |-> 0, count |-> 0]
  /\ items' = <<>>

\* One place to the left or to the right, in a ring that has room.
Turned(r, right) ==
  LET h == IF right THEN next(r, r.head) ELSE prev(r, r.head)
      t == IF right THEN next(r, r.tail) ELSE prev(r, r.tail)
  IN IF right
     THEN [r EXCEPT !.buf = [@ EXCEPT ![r.tail] = r.buf[r.head], ![r.head] = Zero], !.head = h, !.tail = t]
     ELSE [r EXCEPT !.buf = [@ EXCEPT ![h] = r.buf[t], ![t] = Zero], !.head = h, !.tail = t]

\* A sequence whose first k elements went to its end, and one whose last k came
\* to its start.
Shifted(s, k) == [i \in 1..Len(s) |-> s[((i - 1 + k) % Len(s)) + 1]]
Rotated(s, k, right) == Shifted(s, IF right THEN k ELSE Len(s) - k)

InLoop(op) == kind = "deque" /\ loop.op = op /\ UNCHANGED <<kind, cursor>>
LoopBegins(l) == kind = "deque" /\ loop = NoLoop /\ UNCHANGED <<kind, cursor>> /\ loop' = l

\* n % count keeps the sign of n.  A full ring only moves its head and tail.
Rotate(n) ==
  LET steps == (IF n < 0 THEN -n ELSE n) % q.count
      h == (q.head + (IF n < 0 THEN -steps ELSE steps)) % CapOf(q)
  IN
  /\ q.count > 1 /\ steps # 0
  /\ IF q.head = q.tail
     THEN /\ LoopBegins(NoLoop)
          /\ q' = [q EXCEPT !.head = h, !.tail = h] /\ items' = Rotated(items, steps, n > 0)
     ELSE /\ LoopBegins([op |-> "turn", right |-> n > 0, base |-> items, done |-> 0, goal |-> steps])
          /\ UNCHANGED <<q, items>>

RotateRound ==
  LET n == loop.done + 1 IN
  /\ InLoop("turn")
  /\ q' = Turned(q, loop.right) /\ items' = Rotated(loop.base, n, loop.right)
  /\ loop' = IF n = loop.goal THEN NoLoop ELSE [loop EXCEPT !.done = n]

Moving(e, rest, pos, goal, then) ==
  [op |-> "move", elem |-> e, rest |-> rest, pos |-> pos, goal |-> goal, then |-> then]

\* The new element goes in at the nearer end and is swapped to its place.
DequeInsert(at, e) ==
  LET front == at * 2 < q.count
      pos == IF front THEN 1 ELSE q.count + 1
  IN
  /\ Room /\ at <= q.count
  /\ LoopBegins(IF pos = at + 1 THEN NoLoop ELSE Moving(e, items, pos, at + 1, "stays"))
  /\ q' = IF front THEN PushedFront(q, e) ELSE PushedBack(q, e)
  /\ items' = InsertAt(items, pos, e)

\* The element is swapped to the nearer end and popped there.
DequeRemove(at) ==
  LET front == at * 2 < q.count IN
  /\ at < q.count
  /\ LoopBegins(Moving(items[at + 1], RemoveAt(items, at + 1), at + 1,
                       IF front THEN 1 ELSE q.count, IF front THEN "popFront" ELSE "popBack"))
  /\ UNCHANGED <<q, items>>

SwapRound ==
  LET to == IF loop.pos < loop.goal THEN loop.pos + 1 ELSE loop.pos - 1
      slot(i) == (q.head + i - 1) % CapOf(q)
  IN
  /\ InLoop("move") /\ loop.pos # loop.goal
  /\ q' = Swapped(q, slot(loop.pos), slot(to)) /\ items' = InsertAt(loop.rest, to, loop.elem)
  /\ loop' = IF to = loop.goal /\ loop.then = "stays" THEN NoLoop ELSE [loop EXCEPT !.pos = to]

RemoveEnds ==
  /\ InLoop("move") /\ loop.pos = loop.goal
  /\ q' = IF loop.then = "popFront" THEN PoppedFront(q) ELSE PoppedBack(q)
  /\ items' = loop.rest /\ loop' = NoLoop

\* Queue.Add and Queue.Pop: the buffer is never empty.
QueueAdd(e) ==
  /\ Of("queue") /\ Room /\ UNCHANGED cursor
  /\ q' = LET r == IF q.count = CapOf(q) THEN resize(q) ELSE q
          IN  [r EXCEPT !.buf[r.tail] = e, !.tail = next(r, r.tail), !.count = @ + 1]
  /\ items' = Append(items, e)
QueuePop == Of("queue") /\ q.count > 0 /\ UNCHANGED cursor /\ q' = PoppedFront(q) /\ items' = Tail(items)
-----------------------------------------------------------------------------
\* SQueue: head is the slot before the first element; count is not used.
len == IF q.head <= q.tail THEN q.tail - q.head ELSE CapOf(q) - q.head + q.tail

\* Push answers false when the slot after the last is the head.
SQueuePush(e) ==
  LET n == (q.tail + 1) % CapOf(q) IN
  /\ Of("squeue")
  /\ IF n = q.head THEN UNCHANGED <<q, items, cursor>>
     ELSE /\ q' = [q EXCEPT !.tail = n, !.buf[n] = e] /\ items' = Append(items, e)
          /\ cursor' = [cursor EXCEPT !.rest = Append(@, e)]

\* Removing elements from under a cursor makes it invalid ("注意如果在多协程读或者pop时，
\* 可能会导致游标失效"); here it is then taken to the first one again.
CursorFirst == [pos |-> q'.head, rest |-> items']
RemoveElement(n) ==
  LET k == IF n > len THEN len ELSE n IN
  /\ Of("squeue") /\ n > 0
  /\ q' = [q EXCEPT !.head = (@ + k) % CapOf(q)] /\ items' = SubSeq(items, k + 1, Len(items))
  /\ cursor' = CursorFirst

SQueuePop == Of("squeue") /\ q.head # q.tail /\ q' = [q EXCEPT !.head = (@ + 1) % CapOf(q)]
        /\ items' = Tail(items) /\ cursor' = CursorFirst

NextPos == (cursor.pos + 1) % CapOf(q)
CursorNext ==
  /\ Of("squeue") /\ cursor.pos # q.tail /\ UNCHANGED <<q, items>>
  /\ cursor' = [pos |-> NextPos, rest |-> Tail(cursor.rest)]

DequeNext ==
  \/ \E e \in Elems : PushBack(e) \/ PushFront(e) \/ QueueAdd(e) \/ SQueuePush(e)
  \/ \E e \in Elems, i \in 0..MaxLength : DequeSet(i, e) \/ DequeInsert(i, e)
  \/ \E i \in 0..MaxLength : DequeRemove(i) \/ RemoveElement(i)
  \/ \E n \in (-MaxLength)..MaxLength : Rotate(n)
  \/ PopFront \/ PopBack \/ DequeClear \/ QueuePop \/ SQueuePop \/ CursorNext
  \/ RotateRound \/ SwapRound \/ RemoveEnds

DequeSpec == DequeInit /\ [][DequeNext]_dequeVars
-----------------------------------------------------------------------------
(* Each ring holds the sequence its users see, in order, across every wrap,  *)
(* growth, shrinking and round of a loop; an SQueue holds as many elements   *)
(* as it was made for, refuses one more, and a cursor yields each of them    *)
(* once, in order, those pushed after it was taken too.                      *)
RingIsSequence ==
  IF kind = "squeue"
  THEN /\ len = Len(items) /\ (next(q, q.tail) = q.head <=> len = MaxLength)
       /\ \A i \in 1..len : Slot(q, i) = items[i]
       /\ cursor.pos = q.tail <=> cursor.rest = <<>>
       /\ cursor.rest # <<>> => q.buf[NextPos] = Head(cursor.rest)
  ELSE /\ q.count = Len(items)
       /\ \A i \in 1..q.count : Slot(q, i - 1) = items[i]
=============================================================================
