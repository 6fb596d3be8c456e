--------------------------- MODULE NetworkProofs ---------------------------
(***************************************************************************)
(* Theorems about the module Network, for every number of connections and  *)
(* messages, every capacity of the write channel, the three transports and *)
(* both roles: Close leaves no connection behind, a pooled buffer goes     *)
(* back once, and messages are written in the order they were accepted.    *)
(***************************************************************************)
EXTENDS Network, FiniteSetTheorems, SequenceTheorems, TLAPS

AgentPcs ==
  {"none", "accepted", "registered", "refused", "start", "read", "close", "delete",
   "onclose", "unmap", "done", "panicked"}
Writers == {"none", "idle", "write", "stop", "free", "end"}

\* Connection objects when there are up to S messages.
NetConns(S) ==
  [sock : {"open", "stalled", "reset", "shut"}, closeFlag : BOOLEAN, writeChan : Seq(0..S),
   chanClosed : BOOLEAN, writer : Writers, b : 0..S, accepted : Seq(1..S), written : Seq(1..S),
   released : [1..S -> Nat], fin : BOOLEAN]

\* The writer goroutine is still at work, and has taken so many messages.
Alive(n) == n.writer \in {"none", "idle", "write"}
Taken(n) == IF n.writer = "write" THEN Len(n.written) + 1 ELSE Len(n.written)
\* The messages in the channel.
FinLast(n) == Len(n.writeChan) > 0 /\ n.writeChan[Len(n.writeChan)] = Fin
Waiting(n) == IF FinLast(n) THEN Len(n.writeChan) - 1 ELSE Len(n.writeChan)

\* What was accepted is what was written, what the writer has in hand and what
\* is in the channel, in this order, as long as the writer works; the nil of
\* Close is the last in the channel.
OrderOK(n) ==
  /\ Len(n.written) <= Len(n.accepted)
  /\ \A i \in 1..Len(n.written) : n.written[i] = n.accepted[i]
  /\ \A i \in 1..Len(n.writeChan) : n.writeChan[i] = Fin => i = Len(n.writeChan) /\ n.closeFlag
  /\ n.fin => n.closeFlag
  /\ n.writer = "write" => Taken(n) <= Len(n.accepted) /\ n.accepted[Taken(n)] = n.b
  /\ Alive(n) => Len(n.accepted) = Taken(n) + Waiting(n)
  /\ Alive(n) => \A i \in 1..Len(n.writeChan) : n.writeChan[i] # Fin =>
                   Taken(n) + i <= Len(n.accepted) /\ n.accepted[Taken(n) + i] = n.writeChan[i]
  /\ Alive(n) /\ n.fin => FinLast(n)
  /\ ~Alive(n) /\ n.fin => Len(n.written) = Len(n.accepted)

\* A message is in the channel once, in the writer's hand or back in the pool,
\* and one that was accepted is somewhere; numbers above hi are not in use.
BufferOK(n, hi, S, pooled) ==
  /\ \A b \in 1..S : n.released[b] <= 1
  /\ \A b \in 1..S : b > hi => n.released[b] = 0
  /\ \A i \in 1..Len(n.writeChan) : n.writeChan[i] # Fin =>
       n.writeChan[i] <= hi /\ n.released[n.writeChan[i]] = 0
  /\ \A i, j \in 1..Len(n.writeChan) : n.writeChan[i] = n.writeChan[j] /\ n.writeChan[i] # Fin => i = j
  /\ n.writer = "write" =>
       /\ n.b # Fin /\ n.b <= hi /\ n.released[n.b] = 0
       /\ \A i \in 1..Len(n.writeChan) : n.writeChan[i] # n.b
  /\ pooled => \A k \in 1..Len(n.accepted) :
       \/ n.released[n.accepted[k]] = 1
       \/ \E i \in 1..Len(n.writeChan) : n.writeChan[i] = n.accepted[k]
       \/ n.writer = "write" /\ n.b = n.accepted[k]
  /\ n.writer = "end" => n.closeFlag /\ Len(n.writeChan) = 0

ConnOK(n, hi, S, pooled) == n \in NetConns(S) /\ OrderOK(n) /\ BufferOK(n, hi, S, pooled)
-----------------------------------------------------------------------------
(* What the methods make of a connection object.                           *)

LEMMA ConnFields ==
  ASSUME NEW S \in Nat, NEW n \in NetConns(S)
  PROVE  /\ n.sock \in {"open", "stalled", "reset", "shut"} /\ n.closeFlag \in BOOLEAN
         /\ n.writeChan \in Seq(0..S) /\ n.chanClosed \in BOOLEAN /\ n.writer \in Writers
         /\ n.b \in 0..S /\ n.accepted \in Seq(1..S) /\ n.written \in Seq(1..S)
         /\ n.released \in [1..S -> Nat] /\ n.fin \in BOOLEAN
         /\ Len(n.writeChan) \in Nat /\ Len(n.accepted) \in Nat /\ Len(n.written) \in Nat
         /\ \A i \in 1..Len(n.writeChan) : n.writeChan[i] \in 0..S
         /\ \A i \in 1..Len(n.accepted) : n.accepted[i] \in 1..S
         /\ \A i \in 1..Len(n.written) : n.written[i] \in 1..S
         /\ \A b \in 1..S : n.released[b] \in Nat
<1>1. /\ n.sock \in {"open", "stalled", "reset", "shut"} /\ n.closeFlag \in BOOLEAN
      /\ n.writeChan \in Seq(0..S) /\ n.chanClosed \in BOOLEAN /\ n.writer \in Writers
      /\ n.b \in 0..S /\ n.accepted \in Seq(1..S) /\ n.written \in Seq(1..S)
      /\ n.released \in [1..S -> Nat] /\ n.fin \in BOOLEAN
  BY DEF NetConns
<1>2. \A T : \A s \in Seq(T) : Len(s) \in Nat /\ \A i \in 1..Len(s) : s[i] \in T
  OBVIOUS
<1> QED
  BY <1>1, <1>2

(* Steps that leave messages where they are.                               *)
LEMMA KeepsOK ==
  ASSUME NEW S \in Nat, NEW hi \in Nat, NEW low \in Nat, low <= hi, NEW pooled \in BOOLEAN,
         NEW n, ConnOK(n, low, S, pooled), NEW m \in NetConns(S),
         m.writeChan = n.writeChan, m.b = n.b, m.accepted = n.accepted, m.written = n.written,
         m.released = n.released, m.fin = n.fin, n.closeFlag => m.closeFlag,
         \/ m.writer = n.writer
         \/ n.writer = "none" /\ m.writer = "idle"
         \/ n.writer = "stop" /\ m.writer = "free"
  PROVE  ConnOK(m, hi, S, pooled)
<1>1. n \in NetConns(S) /\ OrderOK(n) /\ BufferOK(n, low, S, pooled)
  BY DEF ConnOK
<1>2. Alive(m) <=> Alive(n)
  BY DEF Alive
<1>3. Taken(m) = Taken(n) /\ (m.writer = "write" <=> n.writer = "write") /\ (m.writer = "end" <=> n.writer = "end")
  BY DEF Taken
<1>4. OrderOK(m)
  BY <1>1, <1>2, <1>3 DEF OrderOK, FinLast, Waiting
<1>5. BufferOK(m, hi, S, pooled)
  <2>1. \A b \in 0..S : b <= low => b <= hi
    OBVIOUS
  <2>2. \A b \in 1..S : b > hi => b > low
    OBVIOUS
  <2>3. \A i \in 1..Len(n.writeChan) : n.writeChan[i] \in 0..S
    BY <1>1, ConnFields
  <2>4. n.b \in 0..S
    BY <1>1, ConnFields
  <2> QED
    BY <1>1, <1>3, <2>1, <2>2, <2>3, <2>4 DEF BufferOK
<1> QED
  BY <1>4, <1>5 DEF ConnOK

(* Release, of distinct messages.                                          *)
LEMMA ReleaseFacts ==
  ASSUME NEW S \in Nat, NEW n \in NetConns(S), NEW bs \in Seq(0..S), transport # "ws",
         \A i, j \in 1..Len(bs) : bs[i] = bs[j] /\ bs[i] # Fin => i = j,
         NEW m, m = Release(n, bs)
  PROVE  /\ m \in NetConns(S)
         /\ m.sock = n.sock /\ m.closeFlag = n.closeFlag /\ m.writeChan = n.writeChan
         /\ m.chanClosed = n.chanClosed /\ m.writer = n.writer /\ m.b = n.b
         /\ m.accepted = n.accepted /\ m.written = n.written /\ m.fin = n.fin
         /\ \A b \in 1..S : (\E i \in 1..Len(bs) : bs[i] = b) => m.released[b] = n.released[b] + 1
         /\ \A b \in 1..S : ~(\E i \in 1..Len(bs) : bs[i] = b) => m.released[b] = n.released[b]
<1> DEFINE At(b) == {i \in DOMAIN bs : bs[i] = b}
           back == [b \in 1..S |-> n.released[b] + Cardinality(At(b))]
<1>1. DOMAIN bs = 1..Len(bs) /\ n.released \in [1..S -> Nat] /\ DOMAIN n.released = 1..S
  BY ConnFields
<1>2. \A b \in 1..S : (\E i \in 1..Len(bs) : bs[i] = b) => Cardinality(At(b)) = 1
  <2> SUFFICES ASSUME NEW b \in 1..S, NEW i \in 1..Len(bs), bs[i] = b PROVE Cardinality(At(b)) = 1
    OBVIOUS
  <2>1. b # Fin
    BY DEF Fin
  <2>2. At(b) = {i}
    BY <1>1, <2>1
  <2> QED
    BY <2>2, FS_Singleton
<1>3. \A b \in 1..S : ~(\E i \in 1..Len(bs) : bs[i] = b) => Cardinality(At(b)) = 0
  <2> SUFFICES ASSUME NEW b \in 1..S, ~\E i \in 1..Len(bs) : bs[i] = b PROVE Cardinality(At(b)) = 0
    OBVIOUS
  <2>1. At(b) = {}
    BY <1>1
  <2> QED
    BY <2>1, FS_EmptySet
<1>4. m = [n EXCEPT !.released = back]
  BY <1>1 DEF Release
<1> HIDE DEF At
<1>5. ASSUME NEW b \in 1..S PROVE Cardinality(At(b)) \in Nat
  <2>1. Cardinality(At(b)) = 1 \/ Cardinality(At(b)) = 0
    BY <1>2, <1>3
  <2> QED
    BY <2>1
<1>6. back \in [1..S -> Nat] /\ \A b \in 1..S : back[b] = n.released[b] + Cardinality(At(b))
  BY <1>1, <1>5
<1> HIDE DEF back
<1>7. /\ m \in NetConns(S) /\ m.released = back
      /\ m.sock = n.sock /\ m.closeFlag = n.closeFlag /\ m.writeChan = n.writeChan
      /\ m.chanClosed = n.chanClosed /\ m.writer = n.writer /\ m.b = n.b
      /\ m.accepted = n.accepted /\ m.written = n.written /\ m.fin = n.fin
  BY <1>4, <1>6 DEF NetConns
<1>8. \A b \in 1..S : (\E i \in 1..Len(bs) : bs[i] = b) => m.released[b] = n.released[b] + 1
  BY <1>2, <1>6, <1>7
<1>9. \A b \in 1..S : ~(\E i \in 1..Len(bs) : bs[i] = b) => m.released[b] = n.released[b]
  <2>1. \A b \in 1..S : n.released[b] + 0 = n.released[b]
    BY <1>1
  <2> QED
    BY <1>3, <1>6, <1>7, <2>1
<1> QED
  BY <1>7, <1>8, <1>9

(* Release of a single buffer.                                             *)
LEMMA ReleaseOne ==
  ASSUME NEW S \in Nat, NEW n \in NetConns(S), NEW b \in 0..S, transport # "ws",
         NEW m, m = Release(n, <<b>>)
  PROVE  /\ m \in NetConns(S)
         /\ m.sock = n.sock /\ m.closeFlag = n.closeFlag /\ m.writeChan = n.writeChan
         /\ m.chanClosed = n.chanClosed /\ m.writer = n.writer /\ m.b = n.b
         /\ m.accepted = n.accepted /\ m.written = n.written /\ m.fin = n.fin
         /\ \A x \in 1..S : x = b => m.released[x] = n.released[x] + 1
         /\ \A x \in 1..S : x # b => m.released[x] = n.released[x]
<1> DEFINE bs == <<b>>
<1>1. bs \in Seq(0..S) /\ Len(bs) = 1 /\ bs[1] = b
  OBVIOUS
<1>2. m = Release(n, bs)
  OBVIOUS
<1> HIDE DEF bs
<1>3. \A i \in 1..Len(bs) : i = 1
  BY <1>1
<1>4. \A x \in 1..S : (\E i \in 1..Len(bs) : bs[i] = x) <=> x = b
  BY <1>1, <1>3
<1>5. \A i, j \in 1..Len(bs) : bs[i] = bs[j] /\ bs[i] # Fin => i = j
  BY <1>3
<1>6. /\ m \in NetConns(S)
      /\ m.sock = n.sock /\ m.closeFlag = n.closeFlag /\ m.writeChan = n.writeChan
      /\ m.chanClosed = n.chanClosed /\ m.writer = n.writer /\ m.b = n.b
      /\ m.accepted = n.accepted /\ m.written = n.written /\ m.fin = n.fin
      /\ \A x \in 1..S : (\E i \in 1..Len(bs) : bs[i] = x) => m.released[x] = n.released[x] + 1
      /\ \A x \in 1..S : ~(\E i \in 1..Len(bs) : bs[i] = x) => m.released[x] = n.released[x]
  BY <1>1, <1>2, <1>5, ReleaseFacts
<1> QED
  BY <1>4, <1>6

(* The unused number b goes to the pool at once.                           *)
LEMMA FreshReleased ==
  ASSUME NEW S \in Nat, NEW b \in 1..S, NEW pooled \in BOOLEAN,
         NEW n, ConnOK(n, b - 1, S, pooled), NEW m \in NetConns(S),
         m.writeChan = n.writeChan, m.writer = n.writer, m.b = n.b, m.accepted = n.accepted,
         m.written = n.written, m.fin = n.fin, n.closeFlag => m.closeFlag,
         \A x \in 1..S : x = b => m.released[x] = n.released[x] + 1,
         \A x \in 1..S : x # b => m.released[x] = n.released[x]
  PROVE  ConnOK(m, b, S, pooled)
<1>1. n \in NetConns(S) /\ OrderOK(n) /\ BufferOK(n, b - 1, S, pooled)
  BY DEF ConnOK
<1>2. (Alive(m) <=> Alive(n)) /\ Taken(m) = Taken(n)
  BY DEF Alive, Taken
<1>3. OrderOK(m)
  BY <1>1, <1>2 DEF OrderOK, FinLast, Waiting
<1>4. \A i \in 1..Len(n.writeChan) : n.writeChan[i] \in 0..S
  BY <1>1, ConnFields
<1>5. n.b \in 0..S /\ \A k \in 1..Len(n.accepted) : n.accepted[k] \in 1..S
  BY <1>1, ConnFields
<1>6. n.released[b] = 0
  BY <1>1 DEF BufferOK
<1>7. \A x \in 1..S : m.released[x] <= 1 /\ (x > b => m.released[x] = 0)
  BY <1>1, <1>6 DEF BufferOK
<1>8. \A x \in 0..S : x # Fin /\ x <= b - 1 => x \in 1..S /\ x # b /\ x <= b
  BY DEF Fin
<1>9. \A i \in 1..Len(n.writeChan) : n.writeChan[i] # Fin =>
        n.writeChan[i] <= b /\ m.released[n.writeChan[i]] = 0
  BY <1>1, <1>4, <1>8 DEF BufferOK
<1>10. n.writer = "write" => n.b <= b /\ m.released[n.b] = 0
  BY <1>1, <1>5, <1>8 DEF BufferOK
<1>11. \A x \in 1..S : n.released[x] = 1 => m.released[x] = 1
  BY <1>6
<1>12. BufferOK(m, b, S, pooled)
  <2>1. \A i, j \in 1..Len(m.writeChan) : m.writeChan[i] = m.writeChan[j] /\ m.writeChan[i] # Fin => i = j
    BY <1>1 DEF BufferOK
  <2>2. m.writer = "write" =>
          /\ m.b # Fin /\ m.b <= b /\ m.released[m.b] = 0
          /\ \A i \in 1..Len(m.writeChan) : m.writeChan[i] # m.b
    BY <1>1, <1>10 DEF BufferOK
  <2>3. pooled => \A k \in 1..Len(m.accepted) :
          \/ m.released[m.accepted[k]] = 1
          \/ \E i \in 1..Len(m.writeChan) : m.writeChan[i] = m.accepted[k]
          \/ m.writer = "write" /\ m.b = m.accepted[k]
    BY <1>1, <1>5, <1>11 DEF BufferOK
  <2>4. m.writer = "end" => m.closeFlag /\ Len(m.writeChan) = 0
    BY <1>1 DEF BufferOK
  <2>5. \A i \in 1..Len(m.writeChan) : m.writeChan[i] # Fin =>
          m.writeChan[i] <= b /\ m.released[m.writeChan[i]] = 0
    BY <1>9
  <2> QED
    BY <1>7, <2>1, <2>2, <2>3, <2>4, <2>5 DEF BufferOK
<1> QED
  BY <1>3, <1>12 DEF ConnOK

(* The unused number b goes into the channel.                              *)
LEMMA FreshAccepted ==
  ASSUME NEW S \in Nat, NEW b \in 1..S, NEW pooled \in BOOLEAN,
         NEW n, ConnOK(n, b - 1, S, pooled), ~n.closeFlag, NEW m \in NetConns(S),
         m.writeChan = Append(n.writeChan, b), m.accepted = Append(n.accepted, b),
         m.writer = n.writer, m.b = n.b, m.written = n.written, m.fin = n.fin,
         m.released = n.released, m.closeFlag = n.closeFlag
  PROVE  ConnOK(m, b, S, pooled)
<1> DEFINE W == Len(n.writeChan)
           A == Len(n.accepted)
<1>1. n \in NetConns(S) /\ OrderOK(n) /\ BufferOK(n, b - 1, S, pooled)
  BY DEF ConnOK
<1>2. W \in Nat /\ A \in Nat /\ n.writeChan \in Seq(0..S) /\ n.accepted \in Seq(1..S)
      /\ Len(n.written) \in Nat /\ n.b \in 0..S
      /\ (\A i \in 1..W : n.writeChan[i] \in 0..S) /\ \A k \in 1..A : n.accepted[k] \in 1..S
  BY <1>1, ConnFields
<1>3. /\ Len(m.writeChan) = W + 1 /\ m.writeChan[W + 1] = b
      /\ \A i \in 1..W : m.writeChan[i] = n.writeChan[i]
      /\ Len(m.accepted) = A + 1 /\ m.accepted[A + 1] = b
      /\ \A i \in 1..A : m.accepted[i] = n.accepted[i]
  BY <1>2
<1> HIDE DEF W, A
<1>4. /\ \A i \in 1..W + 1 : i \in 1..W \/ i = W + 1
      /\ \A i \in 1..A + 1 : i \in 1..A \/ i = A + 1
      /\ \A i \in 1..W : i \in 1..W + 1
  BY <1>2
<1>5. (Alive(m) <=> Alive(n)) /\ Taken(m) = Taken(n) /\ Taken(n) \in Nat
  BY <1>2 DEF Alive, Taken
<1>6. b # Fin /\ \A i \in 1..W : n.writeChan[i] # Fin
  BY <1>1 DEF OrderOK, Fin, W
<1>7. ~FinLast(m) /\ Waiting(m) = W + 1
  BY <1>3, <1>6 DEF FinLast, Waiting
<1>8. Waiting(n) = W
  BY <1>2, <1>6 DEF FinLast, Waiting, W
<1>9. Alive(n) => A = Taken(n) + W
  BY <1>1, <1>8 DEF OrderOK, A
<1>10. ~n.fin /\ n.writer # "end"
  BY <1>1 DEF OrderOK, BufferOK
<1>11. Len(n.written) <= A /\ (n.writer = "write" => Taken(n) \in 1..A)
  BY <1>1, <1>2, <1>5 DEF OrderOK, Taken, A
<1>12. OrderOK(m)
  <2>1. Len(m.written) <= Len(m.accepted)
    BY <1>2, <1>3, <1>11
  <2>2. \A i \in 1..Len(m.written) : m.written[i] = m.accepted[i]
    BY <1>1, <1>2, <1>3, <1>11 DEF OrderOK
  <2>3. \A i \in 1..Len(m.writeChan) : m.writeChan[i] # Fin
    BY <1>3, <1>4, <1>6
  <2>4. m.writer = "write" => Taken(m) <= Len(m.accepted) /\ m.accepted[Taken(m)] = m.b
    BY <1>1, <1>2, <1>3, <1>5, <1>11 DEF OrderOK
  <2>5. Alive(m) => Len(m.accepted) = Taken(m) + Waiting(m)
    BY <1>2, <1>3, <1>5, <1>7, <1>9
  <2>6. Alive(m) => \A i \in 1..Len(m.writeChan) :
          Taken(m) + i <= Len(m.accepted) /\ m.accepted[Taken(m) + i] = m.writeChan[i]
    <3> SUFFICES ASSUME Alive(m), NEW i \in 1..W + 1
                 PROVE  Taken(n) + i <= A + 1 /\ m.accepted[Taken(n) + i] = m.writeChan[i]
      BY <1>3, <1>5
    <3>1. A = Taken(n) + W
      BY <1>5, <1>9
    <3>2. CASE i \in 1..W
      <4>1. n.accepted[Taken(n) + i] = n.writeChan[i]
        BY <3>2, <1>1, <1>5, <1>6 DEF OrderOK, W
      <4>2. Taken(n) + i \in 1..A /\ Taken(n) + i <= A + 1
        <5>1. Taken(n) \in Nat
          BY <1>5
        <5>2. A \in Nat /\ W \in Nat
          BY <1>2
        <5> QED
          BY <3>1, <3>2, <5>1, <5>2
      <4> QED
        BY <4>1, <4>2, <3>2, <1>3
    <3>3. CASE i = W + 1
      <4>1. Taken(n) + i = A + 1
        BY <3>1, <3>3, <1>2, <1>5
      <4> QED
        BY <4>1, <3>3, <1>2, <1>3
    <3> QED
      BY <3>2, <3>3, <1>4
  <2>7. /\ m.fin => m.closeFlag
        /\ Alive(m) /\ m.fin => FinLast(m)
        /\ ~Alive(m) /\ m.fin => Len(m.written) = Len(m.accepted)
    BY <1>10
  <2> QED
    BY <2>1, <2>2, <2>3, <2>4, <2>5, <2>6, <2>7 DEF OrderOK
<1>13. BufferOK(m, b, S, pooled)
  <2>1. n.released[b] = 0 /\ \A x \in 1..S : n.released[x] <= 1 /\ (x > b => n.released[x] = 0)
    <3>1. b > b - 1 /\ \A x \in 1..S : x > b => x > b - 1
      OBVIOUS
    <3> QED
      BY <3>1, <1>1 DEF BufferOK
  <2>2. \A i \in 1..W : n.writeChan[i] <= b /\ n.writeChan[i] # b /\ n.released[n.writeChan[i]] = 0
    BY <1>1, <1>2, <1>6 DEF BufferOK, W
  <2>3. \A i \in 1..Len(m.writeChan) : m.writeChan[i] <= b /\ m.released[m.writeChan[i]] = 0
    BY <2>1, <2>2, <1>3, <1>4
  <2>4. \A i, j \in 1..W + 1 : m.writeChan[i] = m.writeChan[j] => i = j
    <3> SUFFICES ASSUME NEW i \in 1..W + 1, NEW j \in 1..W + 1, m.writeChan[i] = m.writeChan[j] PROVE i = j
      OBVIOUS
    <3>1. CASE i \in 1..W /\ j \in 1..W
      BY <3>1, <1>1, <1>3, <1>6 DEF BufferOK, W
    <3>2. CASE i = W + 1 \/ j = W + 1
      BY <3>2, <2>2, <1>3, <1>4
    <3> QED
      BY <3>1, <3>2, <1>4
  <2>5. n.writer = "write" => n.b <= b /\ n.b # b /\ n.b # Fin /\ n.released[n.b] = 0
                              /\ \A i \in 1..W : n.writeChan[i] # n.b
    BY <1>1, <1>2 DEF BufferOK, W
  <2>6. m.writer = "write" => \A i \in 1..Len(m.writeChan) : m.writeChan[i] # m.b
    BY <2>5, <1>3, <1>4
  <2>7. pooled => \A k \in 1..Len(m.accepted) :
          \/ m.released[m.accepted[k]] = 1
          \/ \E i \in 1..Len(m.writeChan) : m.writeChan[i] = m.accepted[k]
          \/ m.writer = "write" /\ m.b = m.accepted[k]
    <3> SUFFICES ASSUME pooled, NEW k \in 1..A + 1
                 PROVE  \/ m.released[m.accepted[k]] = 1
                        \/ \E i \in 1..W + 1 : m.writeChan[i] = m.accepted[k]
                        \/ m.writer = "write" /\ m.b = m.accepted[k]
      BY <1>3
    <3>1. CASE k \in 1..A
      <4>1. \/ n.released[n.accepted[k]] = 1
            \/ \E i \in 1..W : n.writeChan[i] = n.accepted[k]
            \/ n.writer = "write" /\ n.b = n.accepted[k]
        BY <3>1, <1>1 DEF BufferOK, W, A
      <4> QED
        BY <4>1, <3>1, <1>3, <1>4
    <3>2. CASE k = A + 1
      <4>1. W + 1 \in 1..W + 1
        BY <1>2
      <4> QED
        BY <4>1, <3>2, <1>3
    <3> QED
      BY <3>1, <3>2, <1>4
  <2> QED
    BY <2>1, <2>3, <2>4, <2>5, <2>6, <2>7, <1>3, <1>10 DEF BufferOK
<1> QED
  BY <1>12, <1>13 DEF ConnOK

(* Close puts its nil into the channel.                                    *)
LEMMA FinAccepted ==
  ASSUME NEW S \in Nat, NEW hi \in Nat, NEW pooled \in BOOLEAN,
         NEW n, ConnOK(n, hi, S, pooled), ~n.closeFlag, NEW m \in NetConns(S),
         m.writeChan = Append(n.writeChan, Fin), m.accepted = n.accepted,
         m.writer = n.writer, m.b = n.b, m.written = n.written,
         m.released = n.released, m.closeFlag, m.fin => n.writer \in {"idle", "write"}
  PROVE  ConnOK(m, hi, S, pooled)
<1> DEFINE W == Len(n.writeChan)
<1>1. n \in NetConns(S) /\ OrderOK(n) /\ BufferOK(n, hi, S, pooled)
  BY DEF ConnOK
<1>2. W \in Nat /\ n.writeChan \in Seq(0..S) /\ Len(n.written) \in Nat /\ n.b \in 0..S /\ Fin \in 0..S
      /\ \A i \in 1..W : n.writeChan[i] \in 0..S
  BY <1>1, ConnFields DEF Fin
<1>3. /\ Len(m.writeChan) = W + 1 /\ m.writeChan[W + 1] = Fin
      /\ \A i \in 1..W : m.writeChan[i] = n.writeChan[i]
  BY <1>2
<1>4. \A i \in 1..W : n.writeChan[i] # Fin
  BY <1>1 DEF OrderOK
<1>5. Waiting(n) = W
  BY <1>2, <1>4 DEF FinLast, Waiting
<1> HIDE DEF W
<1>6. /\ \A i \in 1..W + 1 : i \in 1..W \/ i = W + 1
      /\ \A i \in 1..W : i \in 1..W + 1
      /\ W + 1 > 0 /\ W + 1 - 1 = W
  BY <1>2
<1>7. (Alive(m) <=> Alive(n)) /\ Taken(m) = Taken(n)
  BY DEF Alive, Taken
<1>8. FinLast(m) /\ Waiting(m) = W
  <2>1. FinLast(m)
    BY <1>3, <1>6 DEF FinLast
  <2> QED
    BY <1>2, <1>3, <1>6 DEF FinLast, Waiting
<1>9. n.writer # "end"
  BY <1>1 DEF BufferOK
<1>10. OrderOK(m)
  <2>1. \A i \in 1..Len(m.writeChan) : m.writeChan[i] = Fin => i = Len(m.writeChan)
    BY <1>3, <1>4, <1>6
  <2>2. Alive(m) => \A i \in 1..Len(m.writeChan) : m.writeChan[i] # Fin =>
          Taken(m) + i <= Len(m.accepted) /\ m.accepted[Taken(m) + i] = m.writeChan[i]
    BY <1>1, <1>3, <1>4, <1>6, <1>7 DEF OrderOK, W
  <2>3. m.fin => Alive(m)
    BY <1>7 DEF Alive
  <2> QED
    BY <2>1, <2>2, <2>3, <1>1, <1>5, <1>7, <1>8 DEF OrderOK
<1>11. BufferOK(m, hi, S, pooled)
  <2>1. \A i \in 1..W + 1 : m.writeChan[i] # Fin => i \in 1..W /\ m.writeChan[i] = n.writeChan[i]
    BY <1>3, <1>6
  <2>2. \A i \in 1..Len(m.writeChan) : m.writeChan[i] # Fin => m.writeChan[i] <= hi /\ m.released[m.writeChan[i]] = 0
    BY <2>1, <1>1, <1>3 DEF BufferOK, W
  <2>3. \A i, j \in 1..Len(m.writeChan) : m.writeChan[i] = m.writeChan[j] /\ m.writeChan[i] # Fin => i = j
    BY <2>1, <1>1, <1>3 DEF BufferOK, W
  <2>4. m.writer = "write" => \A i \in 1..Len(m.writeChan) : m.writeChan[i] # m.b
    BY <2>1, <1>1, <1>3 DEF BufferOK, W
  <2>5. \A x : (\E i \in 1..W : n.writeChan[i] = x) => \E i \in 1..W + 1 : m.writeChan[i] = x
    BY <1>3, <1>6
  <2>6. pooled => \A k \in 1..Len(m.accepted) :
          \/ m.released[m.accepted[k]] = 1
          \/ \E i \in 1..Len(m.writeChan) : m.writeChan[i] = m.accepted[k]
          \/ m.writer = "write" /\ m.b = m.accepted[k]
    BY <2>5, <1>1, <1>3 DEF BufferOK, W
  <2> QED
    BY <2>2, <2>3, <2>4, <2>6, <1>1, <1>9 DEF BufferOK
<1> QED
  BY <1>10, <1>11 DEF ConnOK

(* The socket is closed, and perhaps the channel.                          *)
LEMMA DestroyFields ==
  ASSUME NEW S \in Nat, NEW n \in NetConns(S), NEW m, m = doDestroy(n)
  PROVE  /\ m \in NetConns(S)
         /\ m.writeChan = n.writeChan /\ m.writer = n.writer /\ m.b = n.b /\ m.accepted = n.accepted
         /\ m.written = n.written /\ m.released = n.released /\ m.fin = n.fin /\ m.closeFlag
         /\ m.sock = "shut"
<1>1. n.closeFlag \in BOOLEAN
  BY ConnFields
<1>2. CASE n.closeFlag
  <2>1. m = [n EXCEPT !.sock = "shut"]
    BY <1>2 DEF doDestroy
  <2> QED
    BY <2>1, <1>2 DEF NetConns
<1>3. CASE ~n.closeFlag
  <2>1. m = [n EXCEPT !.sock = "shut", !.chanClosed = TRUE, !.closeFlag = TRUE]
    BY <1>3 DEF doDestroy
  <2> QED
    BY <2>1 DEF NetConns
<1> QED
  BY <1>2, <1>3

LEMMA CloseOK ==
  ASSUME NEW S \in Nat, NEW hi \in Nat, NEW pooled \in BOOLEAN, NEW n, ConnOK(n, hi, S, pooled)
  PROVE  ConnOK(ConnClose(n), hi, S, pooled)
<1>1. n \in NetConns(S) /\ OrderOK(n) /\ BufferOK(n, hi, S, pooled)
  BY DEF ConnOK
<1>2. n.closeFlag \in BOOLEAN /\ n.fin \in BOOLEAN /\ n.writeChan \in Seq(0..S) /\ n.accepted \in Seq(1..S)
  BY <1>1, ConnFields
<1>3. CASE n.closeFlag
  BY <1>3 DEF ConnClose
<1>4. CASE ~n.closeFlag /\ Len(n.writeChan) = PendingWriteNum
  <2> DEFINE r == Release(n, <<Fin>>)
             d == doDestroy(r)
             m == [d EXCEPT !.closeFlag = TRUE, !.fin = FALSE]
  <2>1. ConnClose(n) = m
    BY <1>4 DEF ConnClose, doWrite
  <2>2. ~n.fin
    BY <1>1, <1>4 DEF OrderOK
  <2>3. /\ r \in NetConns(S) /\ r.writeChan = n.writeChan /\ r.writer = n.writer /\ r.b = n.b
        /\ r.accepted = n.accepted /\ r.written = n.written /\ r.released = n.released /\ r.fin = n.fin
    <3>1. CASE transport = "ws"
      BY <3>1, <1>1 DEF Release
    <3>2. CASE transport # "ws"
      <4>1. Fin \in 0..S /\ \A x \in 1..S : x # Fin
        BY DEF Fin
      <4>2. r = Release(n, <<Fin>>)
        OBVIOUS
      <4> HIDE DEF r
      <4>3. /\ r \in NetConns(S) /\ r.writeChan = n.writeChan /\ r.writer = n.writer /\ r.b = n.b
            /\ r.accepted = n.accepted /\ r.written = n.written /\ r.fin = n.fin
            /\ \A x \in 1..S : x # Fin => r.released[x] = n.released[x]
        BY <4>1, <4>2, <3>2, <1>1, ReleaseOne
      <4>4. r.released \in [1..S -> Nat] /\ n.released \in [1..S -> Nat]
        BY <4>3, <1>1, ConnFields
      <4>5. r.released = n.released
        BY <4>1, <4>3, <4>4
      <4> QED
        BY <4>3, <4>5
    <3> QED
      BY <3>1, <3>2
  <2> HIDE DEF r
  <2>4. /\ d \in NetConns(S) /\ d.writeChan = r.writeChan /\ d.writer = r.writer /\ d.b = r.b
        /\ d.accepted = r.accepted /\ d.written = r.written /\ d.released = r.released
    BY <2>3, DestroyFields
  <2> HIDE DEF d
  <2>5. /\ m \in NetConns(S) /\ m.writeChan = d.writeChan /\ m.writer = d.writer /\ m.b = d.b
        /\ m.accepted = d.accepted /\ m.written = d.written /\ m.released = d.released
        /\ m.closeFlag /\ ~m.fin /\ m.fin \in BOOLEAN
    BY <2>4 DEF NetConns
  <2> HIDE DEF m
  <2>6. /\ m.writeChan = n.writeChan /\ m.writer = n.writer /\ m.b = n.b /\ m.accepted = n.accepted
        /\ m.written = n.written /\ m.released = n.released
    BY <2>3, <2>4, <2>5
  <2>7. m.fin = n.fin
    BY <2>2, <2>5, <1>2
  <2>8. hi <= hi /\ (n.closeFlag => m.closeFlag)
    BY <2>5
  <2>9. ConnOK(m, hi, S, pooled)
    BY <2>5, <2>6, <2>7, <2>8, KeepsOK
  <2> QED
    BY <2>1, <2>9
<1>5. CASE ~n.closeFlag /\ Len(n.writeChan) # PendingWriteNum
  <2> DEFINE ch == Append(n.writeChan, Fin)
             f == n.writer \in {"idle", "write"}
             m == [n EXCEPT !.writeChan = ch, !.closeFlag = TRUE, !.fin = f]
  <2>1. ConnClose(n) = m
    <3>1. doWrite(n, Fin) = [n EXCEPT !.writeChan = ch, !.accepted = n.accepted]
      BY <1>5 DEF doWrite
    <3>2. [n EXCEPT !.writeChan = ch, !.accepted = n.accepted] = [n EXCEPT !.writeChan = ch]
      BY <1>1 DEF NetConns
    <3>3. ConnClose(n) = [doWrite(n, Fin) EXCEPT !.closeFlag = TRUE,
            !.fin = Len(n.writeChan) # PendingWriteNum /\ n.writer \in {"idle", "write"}]
      BY <1>5 DEF ConnClose
    <3>4. (Len(n.writeChan) # PendingWriteNum /\ n.writer \in {"idle", "write"}) = f
      BY <1>5
    <3>5. ConnClose(n) = [[n EXCEPT !.writeChan = ch] EXCEPT !.closeFlag = TRUE, !.fin = f]
      BY <3>1, <3>2, <3>3, <3>4, Zenon
    <3> QED
      BY <3>5, <1>1 DEF NetConns
  <2>2. ch \in Seq(0..S) /\ f \in BOOLEAN
    BY <1>2 DEF Fin
  <2> HIDE DEF ch, f
  <2>3. /\ m \in NetConns(S) /\ m.writeChan = ch /\ m.writer = n.writer /\ m.b = n.b
        /\ m.accepted = n.accepted /\ m.written = n.written /\ m.released = n.released
        /\ m.closeFlag /\ m.fin = f
    BY <1>1, <2>2 DEF NetConns
  <2> HIDE DEF m
  <2>4. m.fin => n.writer \in {"idle", "write"}
    BY <2>3, Zenon DEF f
  <2>5. ConnOK(m, hi, S, pooled)
    BY <2>3, <2>4, <1>5, FinAccepted DEF ch
  <2> QED
    BY <2>1, <2>5
<1> QED
  BY <1>2, <1>3, <1>4, <1>5

(* A write of the unused number b.                                         *)
LEMMA WriteOK ==
  ASSUME NEW S \in Nat, NEW b \in 1..S, NEW pooled \in BOOLEAN, pooled <=> transport # "ws",
         NEW n, ConnOK(n, b - 1, S, pooled), NEW m \in MsgParserWrite(n, b)
  PROVE  ConnOK(m, b, S, pooled)
<1>1. n \in NetConns(S) /\ OrderOK(n) /\ BufferOK(n, b - 1, S, pooled)
  BY DEF ConnOK
<1>2. n.closeFlag \in BOOLEAN /\ n.writeChan \in Seq(0..S) /\ n.accepted \in Seq(1..S) /\ b \in 0..S /\ b # Fin
      /\ b - 1 \in Nat /\ b \in Nat /\ b - 1 <= b
  BY <1>1, ConnFields DEF Fin
<1>3. CASE m = n
  BY <1>3, <1>1, <1>2, KeepsOK
<1>4. CASE ~n.closeFlag /\ Len(n.writeChan) # PendingWriteNum /\ m = doWrite(n, b)
  <2> DEFINE ch == Append(n.writeChan, b)
             ac == Append(n.accepted, b)
  <2>1. m = [n EXCEPT !.writeChan = ch, !.accepted = ac]
    BY <1>2, <1>4 DEF doWrite
  <2>2. ch \in Seq(0..S) /\ ac \in Seq(1..S)
    BY <1>2
  <2> HIDE DEF ch, ac
  <2>3. /\ m \in NetConns(S) /\ m.writeChan = ch /\ m.writer = n.writer /\ m.b = n.b
        /\ m.accepted = ac /\ m.written = n.written /\ m.released = n.released
        /\ m.closeFlag = n.closeFlag /\ m.fin = n.fin
    BY <2>1, <2>2, <1>1 DEF NetConns
  <2> QED
    BY <2>3, <1>4, FreshAccepted DEF ch, ac
<1>5. CASE transport = "ws" /\ ~n.closeFlag /\ m = doDestroy(n)
  <2>1. /\ m \in NetConns(S) /\ m.writeChan = n.writeChan /\ m.writer = n.writer /\ m.b = n.b
        /\ m.accepted = n.accepted /\ m.written = n.written /\ m.released = n.released /\ m.fin = n.fin
        /\ m.closeFlag
    BY <1>1, <1>5, DestroyFields
  <2> QED
    BY <2>1, <1>2, KeepsOK
<1>6. CASE transport # "ws" /\ (m = Release(n, <<b>>) \/ m = doDestroy(Release(n, <<b>>)))
  <2> DEFINE r == Release(n, <<b>>)
  <2>1. r = Release(n, <<b>>)
    OBVIOUS
  <2>2. m = r \/ m = doDestroy(r)
    BY <1>6
  <2> HIDE DEF r
  <2>3. /\ r \in NetConns(S)
        /\ r.closeFlag = n.closeFlag /\ r.writeChan = n.writeChan /\ r.writer = n.writer /\ r.b = n.b
        /\ r.accepted = n.accepted /\ r.written = n.written /\ r.fin = n.fin
        /\ \A x \in 1..S : x = b => r.released[x] = n.released[x] + 1
        /\ \A x \in 1..S : x # b => r.released[x] = n.released[x]
    BY <2>1, <1>1, <1>2, <1>6, ReleaseOne
  <2>4. ConnOK(r, b, S, pooled)
    BY <2>3, FreshReleased
  <2>5. CASE m = doDestroy(r)
    <3>1. /\ m \in NetConns(S) /\ m.writeChan = r.writeChan /\ m.writer = r.writer /\ m.b = r.b
          /\ m.accepted = r.accepted /\ m.written = r.written /\ m.released = r.released /\ m.fin = r.fin
          /\ m.closeFlag
      BY <2>3, <2>5, DestroyFields
    <3>2. b <= b
      OBVIOUS
    <3> QED
      BY <3>1, <3>2, <2>4, <1>2, KeepsOK
  <2> QED
    BY <2>2, <2>4, <2>5
<1>7. Release(n, <<b>>) = n \/ transport # "ws"
  BY DEF Release
<1> QED
  BY <1>2, <1>3, <1>4, <1>5, <1>6, <1>7 DEF MsgParserWrite, WSWriteMsg, ConnWrite, doWrite

(* The writer goroutine takes the next buffer, or sees the end.            *)
LEMMA TakesOK ==
  ASSUME NEW S \in Nat, NEW hi \in Nat, NEW pooled \in BOOLEAN, NEW n, ConnOK(n, hi, S, pooled),
         n.writer = "idle"
  PROVE  ConnOK(WriterTakes(n), hi, S, pooled)
<1> DEFINE W == Len(n.writeChan)
           A == Len(n.accepted)
           L == Len(n.written)
           h == Head(n.writeChan)
           t == Tail(n.writeChan)
           m == WriterTakes(n)
<1>1. n \in NetConns(S) /\ OrderOK(n) /\ BufferOK(n, hi, S, pooled)
  BY DEF ConnOK
<1>2. n.writeChan \in Seq(0..S) /\ n.accepted \in Seq(1..S) /\ W \in Nat /\ A \in Nat /\ L \in Nat
      /\ n.fin \in BOOLEAN /\ n.closeFlag \in BOOLEAN
      /\ (\A i \in 1..W : n.writeChan[i] \in 0..S) /\ \A k \in 1..A : n.accepted[k] \in 1..S
  BY <1>1, ConnFields
<1>3. W \in Nat /\ A \in Nat /\ L \in Nat
  BY <1>2
<1>4. Alive(n) /\ Taken(n) = L
  BY DEF Alive, Taken
<1>5. A = L + Waiting(n) /\ (n.fin => FinLast(n))
  BY <1>1, <1>4 DEF OrderOK
<1>6. CASE W = 0
  <2>1. n.writeChan = <<>>
    BY <1>2, <1>6
  <2>2. m = [n EXCEPT !.writer = "stop"]
    BY <2>1 DEF WriterTakes
  <2> HIDE DEF m
  <2>3. /\ m \in NetConns(S) /\ m.writeChan = n.writeChan /\ m.writer = "stop" /\ m.b = n.b
        /\ m.accepted = n.accepted /\ m.written = n.written /\ m.released = n.released
        /\ m.closeFlag = n.closeFlag /\ m.fin = n.fin
    BY <2>2, <1>1 DEF NetConns, Writers
  <2>4. ~m.fin
    BY <2>3, <1>5, <1>6 DEF FinLast
  <2>5. OrderOK(m)
    <3>1. ~Alive(m)
      BY <2>3 DEF Alive
    <3> QED
      BY <3>1, <2>3, <2>4, <1>1 DEF OrderOK
  <2>6. BufferOK(m, hi, S, pooled)
    BY <2>3, <1>1 DEF BufferOK
  <2>7. ConnOK(m, hi, S, pooled)
    BY <2>3, <2>5, <2>6 DEF ConnOK
  <2> QED
    BY <2>7 DEF m
<1>7. CASE W > 0
  <2>1. /\ h = n.writeChan[1] /\ h \in 0..S /\ t \in Seq(0..S) /\ Len(t) = W - 1
        /\ \A i \in 1..W - 1 : t[i] = n.writeChan[i + 1]
    <3>1. n.writeChan \in Seq(0..S) /\ n.writeChan # <<>>
      BY <1>2, <1>7
    <3>2. /\ h \in 0..S /\ t \in Seq(0..S) /\ Len(t) = W - 1
          /\ \A i \in 1..Len(t) : t[i] = n.writeChan[i + 1]
      BY <3>1, HeadTailProperties
    <3>3. h = n.writeChan[1]
      BY <3>1
    <3> HIDE DEF h, t
    <3> QED
      BY <3>2, <3>3
  <2>2. n.writeChan # <<>>
    BY <1>2, <1>7
  <2>3. m = [n EXCEPT !.writeChan = t, !.b = h, !.writer = IF h = Fin THEN "stop" ELSE "write"]
    BY <2>2 DEF WriterTakes
  <2> HIDE DEF m, h, t
  <2>4. /\ m \in NetConns(S) /\ m.writeChan = t /\ m.b = h
        /\ m.accepted = n.accepted /\ m.written = n.written /\ m.released = n.released
        /\ m.closeFlag = n.closeFlag /\ m.fin = n.fin
        /\ (h = Fin => m.writer = "stop") /\ (h # Fin => m.writer = "write")
    BY <2>1, <2>3, <1>1 DEF NetConns, Writers
  <2>5. /\ \A i \in 1..W - 1 : i + 1 \in 1..W /\ i \in 1..W
        /\ 1 \in 1..W /\ \A i \in 1..W : i = 1 \/ (i - 1 \in 1..W - 1 /\ i - 1 + 1 = i)
    <3> HIDE DEF W, A, L
    <3> QED
      BY <1>3, <1>7
  <2>6. \A i \in 1..Len(m.writeChan) : m.writeChan[i] = Fin => i = Len(m.writeChan) /\ m.closeFlag
    <3> SUFFICES ASSUME NEW i \in 1..W - 1, t[i] = Fin PROVE i = W - 1 /\ n.closeFlag
      BY <2>1, <2>4
    <3>1. n.writeChan[i + 1] = Fin /\ i + 1 \in 1..W
      BY <2>1, <2>5
    <3>2. i + 1 = W /\ n.closeFlag
      BY <3>1, <1>1 DEF OrderOK
    <3> QED
      BY <3>2, <1>2
  <2>7. BufferOK(m, hi, S, pooled)
    <3>1. \A x \in 1..S : m.released[x] <= 1 /\ (x > hi => m.released[x] = 0)
      BY <2>4, <1>1 DEF BufferOK
    <3>2. \A i \in 1..Len(m.writeChan) : m.writeChan[i] # Fin =>
            m.writeChan[i] <= hi /\ m.released[m.writeChan[i]] = 0
      <4> SUFFICES ASSUME NEW i \in 1..W - 1, t[i] # Fin PROVE t[i] <= hi /\ n.released[t[i]] = 0
        BY <2>1, <2>4
      <4>1. n.writeChan[i + 1] = t[i] /\ i + 1 \in 1..W
        BY <2>1, <2>5
      <4> QED
        BY <4>1, <1>1 DEF BufferOK
    <3>3. \A i, j \in 1..Len(m.writeChan) : m.writeChan[i] = m.writeChan[j] /\ m.writeChan[i] # Fin => i = j
      <4> SUFFICES ASSUME NEW i \in 1..W - 1, NEW j \in 1..W - 1, t[i] = t[j], t[i] # Fin PROVE i = j
        BY <2>1, <2>4
      <4>1. n.writeChan[i + 1] = n.writeChan[j + 1] /\ n.writeChan[i + 1] # Fin /\ i + 1 \in 1..W /\ j + 1 \in 1..W
        BY <2>1, <2>5
      <4>2. i + 1 = j + 1
        BY <4>1, <1>1 DEF BufferOK
      <4> QED
        BY <4>2, <1>2
    <3>4. m.writer = "write" =>
            /\ m.b # Fin /\ m.b <= hi /\ m.released[m.b] = 0
            /\ \A i \in 1..Len(m.writeChan) : m.writeChan[i] # m.b
      <4> SUFFICES ASSUME m.writer = "write"
                   PROVE  /\ h # Fin /\ h <= hi /\ n.released[h] = 0
                          /\ \A i \in 1..W - 1 : t[i] # h
        BY <2>1, <2>4
      <4>1. h # Fin
        BY <2>4
      <4>2. h <= hi /\ n.released[h] = 0
        BY <4>1, <2>1, <2>5, <1>1 DEF BufferOK
      <4>3. ASSUME NEW i \in 1..W - 1 PROVE t[i] # h
        <5>1. n.writeChan[i + 1] = t[i] /\ i + 1 \in 1..W /\ i + 1 # 1
          BY <2>1, <2>5
        <5>2. n.writeChan[i + 1] = n.writeChan[1] /\ n.writeChan[i + 1] # Fin => i + 1 = 1
          BY <5>1, <2>5, <1>1 DEF BufferOK
        <5> QED
          BY <5>1, <5>2, <4>1, <2>1
      <4> QED
        BY <4>1, <4>2, <4>3
    <3>5. pooled => \A k \in 1..Len(m.accepted) :
            \/ m.released[m.accepted[k]] = 1
            \/ \E i \in 1..Len(m.writeChan) : m.writeChan[i] = m.accepted[k]
            \/ m.writer = "write" /\ m.b = m.accepted[k]
      <4> SUFFICES ASSUME pooled, NEW k \in 1..A
                   PROVE  \/ n.released[n.accepted[k]] = 1
                          \/ \E i \in 1..W - 1 : t[i] = n.accepted[k]
                          \/ h # Fin /\ h = n.accepted[k]
        BY <2>1, <2>4
      <4>1. n.released[n.accepted[k]] = 1 \/ \E i \in 1..W : n.writeChan[i] = n.accepted[k]
        BY <1>1 DEF BufferOK
      <4>2. n.accepted[k] # Fin
        BY <1>2 DEF Fin
      <4>3. ASSUME NEW i \in 1..W, n.writeChan[i] = n.accepted[k]
            PROVE  (\E j \in 1..W - 1 : t[j] = n.accepted[k]) \/ (h # Fin /\ h = n.accepted[k])
        <5>1. CASE i = 1
          BY <5>1, <4>2, <4>3, <2>1
        <5>2. CASE i - 1 \in 1..W - 1 /\ i - 1 + 1 = i
          <6>1. t[i - 1] = n.accepted[k]
            BY <5>2, <4>3, <2>1
          <6> QED
            BY <6>1, <5>2
        <5> QED
          BY <5>1, <5>2, <2>5
      <4> QED
        BY <4>1, <4>3
    <3>6. m.writer # "end"
      BY <2>4
    <3> QED
      BY <3>1, <3>2, <3>3, <3>4, <3>5, <3>6 DEF BufferOK
  <2>8. OrderOK(m)
    <3>1. /\ Len(m.written) <= Len(m.accepted)
          /\ \A i \in 1..Len(m.written) : m.written[i] = m.accepted[i]
          /\ m.fin => m.closeFlag
      BY <2>4, <1>1 DEF OrderOK
    <3>2. CASE h = Fin
      <4>1. W = 1
        BY <3>2, <2>1, <2>5, <1>1 DEF OrderOK
      <4>2. FinLast(n)
        BY <4>1, <3>2, <2>1 DEF FinLast
      <4>3. Waiting(n) = 0
        BY <4>1, <4>2, <3>2, <2>1 DEF Waiting, FinLast
      <4>4. L = A
        BY <4>3, <1>2, <1>5
      <4>5. m.writer = "stop" /\ ~Alive(m)
        BY <3>2, <2>4 DEF Alive
      <4> QED
        BY <4>4, <4>5, <3>1, <2>4, <2>6 DEF OrderOK
    <3>3. CASE h # Fin
      <4>1. m.writer = "write" /\ Alive(m) /\ Taken(m) = L + 1
        BY <3>3, <2>4 DEF Alive, Taken
      <4>2. L + 1 <= A /\ n.accepted[L + 1] = h
        BY <3>3, <2>1, <2>5, <1>1, <1>4 DEF OrderOK
      <4>3. A = L + 1 + Waiting(m) /\ (n.fin => FinLast(m))
        <5>1. CASE n.writeChan[W] = Fin
          <6>1. Waiting(n) = W - 1
            BY <5>1, <1>7 DEF Waiting, FinLast
          <6>2. W - 1 > 0
            BY <5>1, <3>3, <2>1, <1>2, <1>7
          <6>3. t[W - 1] = Fin
            <7>1. W - 1 \in 1..W - 1 /\ W - 1 + 1 = W
              BY <6>2, <1>2
            <7> QED
              BY <7>1, <5>1, <2>1
          <6>4. FinLast(m) /\ Waiting(m) = W - 2
            BY <6>2, <6>3, <2>1, <2>4, <1>2 DEF FinLast, Waiting
          <6>5. A = L + 1 + Waiting(m)
            <7>1. A = L + (W - 1) /\ Waiting(m) = W - 2
              BY <6>1, <6>4, <1>5
            <7> HIDE DEF W, A, L
            <7> QED
              BY <7>1, <1>3
          <6> QED
            BY <6>4, <6>5
        <5>2. CASE n.writeChan[W] # Fin
          <6>1. Waiting(n) = W /\ ~FinLast(n)
            BY <5>2, <1>7 DEF Waiting, FinLast
          <6>2. ASSUME W - 1 > 0, t[W - 1] = Fin PROVE FALSE
            <7>1. W - 1 \in 1..W - 1 /\ W - 1 + 1 = W
              BY <6>2, <1>2
            <7> QED
              BY <6>2, <7>1, <5>2, <2>1
          <6>3. Waiting(m) = W - 1
            BY <6>2, <2>1, <2>4 DEF Waiting, FinLast
          <6>4. A = L + 1 + Waiting(m)
            <7>1. A = L + W
              BY <6>1, <1>5
            <7> HIDE DEF W, A, L
            <7> QED
              BY <7>1, <6>3, <1>3
          <6>5. ~n.fin
            BY <6>1, <1>5
          <6> QED
            BY <6>4, <6>5
        <5> QED
          BY <5>1, <5>2
      <4>4. ASSUME NEW i \in 1..W - 1, t[i] # Fin
            PROVE  L + 1 + i <= A /\ n.accepted[L + 1 + i] = t[i]
        <5>1. n.writeChan[i + 1] = t[i] /\ i + 1 \in 1..W /\ L + (i + 1) = L + 1 + i
          <6>1. n.writeChan[i + 1] = t[i] /\ i + 1 \in 1..W
            BY <2>1, <2>5
          <6>2. L + (i + 1) = L + 1 + i
            <7>1. i \in Int
              BY <1>3
            <7> HIDE DEF W, A, L
            <7> QED
              BY <7>1, <1>3
          <6> QED
            BY <6>1, <6>2
        <5> QED
          BY <5>1, <4>4, <1>1, <1>4 DEF OrderOK
      <4> QED
        BY <4>1, <4>2, <4>3, <4>4, <3>1, <2>1, <2>4, <2>6 DEF OrderOK
    <3> QED
      BY <3>2, <3>3
  <2>9. ConnOK(m, hi, S, pooled)
    BY <2>4, <2>7, <2>8 DEF ConnOK
  <2> QED
    BY <2>9 DEF m
<1> QED
  BY <1>2, <1>6, <1>7

(* The writer goroutine has written its buffer, or failed to.              *)
LEMMA WritesOK ==
  ASSUME NEW S \in Nat, NEW hi \in Nat, NEW pooled \in BOOLEAN, pooled <=> transport # "ws",
         NEW n, ConnOK(n, hi, S, pooled), n.writer = "write", NEW ok \in BOOLEAN
  PROVE  ConnOK(WriterWrites(n, ok), hi, S, pooled)
<1> DEFINE out == IF ok THEN Append(n.written, n.b) ELSE n.written
           w == IF ok THEN "idle" ELSE "stop"
           f == n.fin /\ ok
           q == [n EXCEPT !.written = out, !.writer = w, !.fin = f]
           m == Release(q, <<n.b>>)
<1>1. n \in NetConns(S) /\ OrderOK(n) /\ BufferOK(n, hi, S, pooled)
  BY DEF ConnOK
<1>2. /\ n.b \in 0..S /\ n.written \in Seq(1..S) /\ Len(n.written) \in Nat /\ Len(n.accepted) \in Nat
      /\ n.fin \in BOOLEAN /\ \A k \in 1..Len(n.accepted) : n.accepted[k] \in 1..S
  BY <1>1, ConnFields
<1>3. /\ n.b # Fin /\ n.b <= hi /\ n.released[n.b] = 0
      /\ \A i \in 1..Len(n.writeChan) : n.writeChan[i] # n.b
  BY <1>1 DEF BufferOK
<1>4. n.b \in 1..S
  BY <1>2, <1>3 DEF Fin
<1>5. Alive(n) /\ Taken(n) = Len(n.written) + 1
  BY DEF Alive, Taken
<1>6. Len(n.written) + 1 <= Len(n.accepted) /\ n.accepted[Len(n.written) + 1] = n.b
  BY <1>1, <1>5 DEF OrderOK
<1>7. /\ ok => out \in Seq(1..S) /\ Len(out) = Len(n.written) + 1 /\ out[Len(n.written) + 1] = n.b
               /\ \A i \in 1..Len(n.written) : out[i] = n.written[i]
      /\ ~ok => out = n.written
      /\ out \in Seq(1..S)
  <2>1. CASE ok
    <3>1. out = Append(n.written, n.b)
      BY <2>1
    <3> HIDE DEF out
    <3>2. /\ out \in Seq(1..S) /\ Len(out) = Len(n.written) + 1 /\ out[Len(n.written) + 1] = n.b
          /\ \A i \in 1..Len(n.written) : out[i] = n.written[i]
      BY <3>1, <1>2, <1>4
    <3> QED
      BY <3>2, <2>1
  <2>2. CASE ~ok
    BY <2>2, <1>2
  <2> QED
    BY <2>1, <2>2
<1>8. w \in Writers /\ f \in BOOLEAN /\ (ok => w = "idle" /\ f = n.fin) /\ (~ok => w = "stop" /\ ~f)
  BY <1>2 DEF Writers
<1>9. WriterWrites(n, ok) = m
  BY DEF WriterWrites
<1> HIDE DEF out, w, f
<1>10. /\ q \in NetConns(S) /\ q.closeFlag = n.closeFlag /\ q.writeChan = n.writeChan /\ q.b = n.b
       /\ q.accepted = n.accepted /\ q.written = out /\ q.writer = w /\ q.fin = f /\ q.released = n.released
  BY <1>1, <1>7, <1>8 DEF NetConns
<1> HIDE DEF q
<1>11. /\ m \in NetConns(S) /\ m.closeFlag = n.closeFlag /\ m.writeChan = n.writeChan /\ m.b = n.b
       /\ m.accepted = n.accepted /\ m.written = out /\ m.writer = w /\ m.fin = f
       /\ pooled => m.released[n.b] = 1 /\ \A x \in 1..S : x # n.b => m.released[x] = n.released[x]
       /\ ~pooled => m.released = n.released
  <2>1. CASE pooled
    <3>1. m = Release(q, <<n.b>>)
      OBVIOUS
    <3> HIDE DEF m
    <3>2. /\ m \in NetConns(S) /\ m.closeFlag = q.closeFlag /\ m.writeChan = q.writeChan /\ m.b = q.b
          /\ m.accepted = q.accepted /\ m.written = q.written /\ m.writer = q.writer /\ m.fin = q.fin
          /\ \A x \in 1..S : x = n.b => m.released[x] = q.released[x] + 1
          /\ \A x \in 1..S : x # n.b => m.released[x] = q.released[x]
      BY <2>1, <3>1, <1>2, <1>10, ReleaseOne
    <3>3. m.released[n.b] = 1
      BY <3>2, <1>3, <1>4, <1>10
    <3> QED
      BY <2>1, <3>2, <3>3, <1>10
  <2>2. CASE ~pooled
    <3>1. m = q
      BY <2>2 DEF Release
    <3> HIDE DEF m
    <3> QED
      BY <2>2, <3>1, <1>10
  <2> QED
    BY <2>1, <2>2
<1> HIDE DEF m
<1>12. BufferOK(m, hi, S, pooled)
  <2>1. \A x \in 1..S : m.released[x] <= 1 /\ (x > hi => m.released[x] = 0)
    <3> SUFFICES ASSUME NEW x \in 1..S PROVE m.released[x] <= 1 /\ (x > hi => m.released[x] = 0)
      OBVIOUS
    <3>1. n.released[x] <= 1 /\ (x > hi => n.released[x] = 0)
      BY <1>1 DEF BufferOK
    <3>2. CASE pooled /\ x = n.b
      BY <3>2, <1>3, <1>4, <1>11
    <3>3. CASE ~pooled \/ x # n.b
      BY <3>1, <3>3, <1>11
    <3> QED
      BY <3>2, <3>3
  <2>2. \A i \in 1..Len(m.writeChan) : m.writeChan[i] # Fin =>
          m.writeChan[i] <= hi /\ m.released[m.writeChan[i]] = 0
    <3> SUFFICES ASSUME NEW i \in 1..Len(n.writeChan), n.writeChan[i] # Fin
                 PROVE  n.writeChan[i] <= hi /\ m.released[n.writeChan[i]] = 0
      BY <1>11
    <3>1. n.writeChan[i] <= hi /\ n.released[n.writeChan[i]] = 0
      BY <1>1 DEF BufferOK
    <3>2. n.writeChan[i] \in 1..S
      <4>1. n.writeChan[i] \in 0..S
        BY <1>1, ConnFields
      <4> QED
        BY <4>1 DEF Fin
    <3> QED
      BY <3>1, <3>2, <1>3, <1>11
  <2>3. \A i, j \in 1..Len(m.writeChan) : m.writeChan[i] = m.writeChan[j] /\ m.writeChan[i] # Fin => i = j
    BY <1>1, <1>11 DEF BufferOK
  <2>4. m.writer # "write" /\ m.writer # "end"
    BY <1>8, <1>11
  <2>5. pooled => \A k \in 1..Len(m.accepted) :
          \/ m.released[m.accepted[k]] = 1
          \/ \E i \in 1..Len(m.writeChan) : m.writeChan[i] = m.accepted[k]
    <3> SUFFICES ASSUME pooled, NEW k \in 1..Len(n.accepted)
                 PROVE  \/ m.released[n.accepted[k]] = 1
                        \/ \E i \in 1..Len(n.writeChan) : n.writeChan[i] = n.accepted[k]
      BY <1>11
    <3>1. \/ n.released[n.accepted[k]] = 1
          \/ \E i \in 1..Len(n.writeChan) : n.writeChan[i] = n.accepted[k]
          \/ n.b = n.accepted[k]
      BY <1>1 DEF BufferOK
    <3>2. n.released[n.accepted[k]] = 1 => m.released[n.accepted[k]] = 1
      BY <1>2, <1>11
    <3> QED
      BY <3>1, <3>2, <1>11
  <2> QED
    BY <2>1, <2>2, <2>3, <2>4, <2>5 DEF BufferOK
<1>13. OrderOK(m)
  <2>1. \A i \in 1..Len(m.writeChan) : m.writeChan[i] = Fin => i = Len(m.writeChan) /\ m.closeFlag
    BY <1>1, <1>11 DEF OrderOK
  <2>2. m.fin => m.closeFlag
    BY <1>1, <1>8, <1>11 DEF OrderOK
  <2>3. CASE ok
    <3>1. m.writer = "idle" /\ m.fin = n.fin /\ Len(m.written) = Len(n.written) + 1
      BY <2>3, <1>7, <1>8, <1>11
    <3>2. Alive(m) /\ Taken(m) = Taken(n)
      BY <3>1, <1>5 DEF Alive, Taken
    <3>3. Waiting(m) = Waiting(n) /\ (FinLast(n) => FinLast(m))
      BY <1>11 DEF Waiting, FinLast
    <3>4. \A i \in 1..Len(m.written) : m.written[i] = m.accepted[i]
      <4> SUFFICES ASSUME NEW i \in 1..Len(n.written) + 1 PROVE out[i] = n.accepted[i]
        BY <3>1, <1>11
      <4>1. CASE i = Len(n.written) + 1
        BY <4>1, <2>3, <1>6, <1>7
      <4>2. CASE i \in 1..Len(n.written)
        BY <4>2, <2>3, <1>7, <1>1 DEF OrderOK
      <4> QED
        BY <4>1, <4>2, <1>2
    <3>5. Len(m.written) <= Len(m.accepted)
      BY <3>1, <1>6, <1>11
    <3>6. Len(m.accepted) = Taken(m) + Waiting(m)
      BY <3>2, <3>3, <1>1, <1>5, <1>11 DEF OrderOK
    <3>7. \A i \in 1..Len(m.writeChan) : m.writeChan[i] # Fin =>
            Taken(m) + i <= Len(m.accepted) /\ m.accepted[Taken(m) + i] = m.writeChan[i]
      BY <3>2, <1>1, <1>5, <1>11 DEF OrderOK
    <3>8. m.fin => FinLast(m)
      BY <3>1, <3>3, <1>1, <1>5 DEF OrderOK
    <3> QED
      BY <2>1, <2>2, <3>1, <3>2, <3>4, <3>5, <3>6, <3>7, <3>8 DEF OrderOK
  <2>4. CASE ~ok
    <3>1. m.writer = "stop" /\ ~m.fin /\ m.written = n.written
      BY <2>4, <1>7, <1>8, <1>11
    <3>2. ~Alive(m)
      BY <3>1 DEF Alive
    <3> QED
      BY <2>1, <2>2, <3>1, <3>2, <1>1, <1>11 DEF OrderOK
  <2> QED
    BY <2>3, <2>4
<1>14. ConnOK(m, hi, S, pooled)
  BY <1>11, <1>12, <1>13 DEF ConnOK
<1> QED
  BY <1>9, <1>14

(* What is left in the channel goes back when the writer goroutine ends.   *)
LEMMA FreesOK ==
  ASSUME NEW S \in Nat, NEW hi \in Nat, NEW pooled \in BOOLEAN, pooled <=> transport # "ws",
         NEW n, ConnOK(n, hi, S, pooled), n.writer = "free"
  PROVE  ConnOK(freeChannel(n), hi, S, pooled)
<1> DEFINE ch == n.writeChan
           q == Release(n, ch)
           no == <<>>
           m == [q EXCEPT !.writeChan = no, !.closeFlag = TRUE, !.writer = "end"]
           In(x) == \E i \in 1..Len(ch) : ch[i] = x
<1>1. n \in NetConns(S) /\ OrderOK(n) /\ BufferOK(n, hi, S, pooled)
  BY DEF ConnOK
<1>2. /\ ch \in Seq(0..S) /\ Len(ch) \in Nat /\ n.fin \in BOOLEAN
      /\ \A k \in 1..Len(n.accepted) : n.accepted[k] \in 1..S
  BY <1>1, ConnFields
<1>3. no \in Seq(0..S) /\ Len(no) = 0
  OBVIOUS
<1>4. freeChannel(n) = m
  BY DEF freeChannel
<1>5. \A i, j \in 1..Len(ch) : ch[i] = ch[j] /\ ch[i] # Fin => i = j
  BY <1>1 DEF BufferOK
<1>6. q = Release(n, ch)
  OBVIOUS
<1>7. ASSUME NEW x \in 1..S, In(x) PROVE x <= hi /\ n.released[x] = 0
  <2>1. PICK i \in 1..Len(ch) : ch[i] = x
    BY <1>7
  <2>2. ch[i] # Fin
    BY <2>1 DEF Fin
  <2> QED
    BY <2>1, <2>2, <1>1 DEF BufferOK
<1> HIDE DEF q, no, ch
<1>8. /\ q \in NetConns(S) /\ q.accepted = n.accepted /\ q.written = n.written /\ q.fin = n.fin
      /\ pooled => \A x \in 1..S : In(x) => q.released[x] = 1
      /\ \A x \in 1..S : ~In(x) => q.released[x] = n.released[x]
      /\ ~pooled => q.released = n.released
  <2>1. CASE pooled
    <3>1. transport # "ws"
      BY <2>1
    <3>2. /\ q \in NetConns(S) /\ q.accepted = n.accepted /\ q.written = n.written /\ q.fin = n.fin
          /\ \A x \in 1..S : In(x) => q.released[x] = n.released[x] + 1
          /\ \A x \in 1..S : ~In(x) => q.released[x] = n.released[x]
      <4>1. n \in NetConns(S) /\ ch \in Seq(0..S)
        BY <1>1, <1>2
      <4>2. /\ q \in NetConns(S)
            /\ q.sock = n.sock /\ q.closeFlag = n.closeFlag /\ q.writeChan = n.writeChan
            /\ q.chanClosed = n.chanClosed /\ q.writer = n.writer /\ q.b = n.b
            /\ q.accepted = n.accepted /\ q.written = n.written /\ q.fin = n.fin
            /\ \A b \in 1..S : (\E i \in 1..Len(ch) : ch[i] = b) => q.released[b] = n.released[b] + 1
            /\ \A b \in 1..S : ~(\E i \in 1..Len(ch) : ch[i] = b) => q.released[b] = n.released[b]
        <5> HIDE DEF In, m
        <5> QED
          BY <3>1, <4>1, <1>5, <1>6, ReleaseFacts, SMTT(60)
      <4> QED
        BY <4>2
    <3>3. ASSUME NEW x \in 1..S, In(x) PROVE q.released[x] = 1
      <4>1. n.released[x] = 0 /\ q.released[x] = n.released[x] + 1
        BY <3>2, <3>3, <1>7
      <4> QED
        BY <4>1
    <3> QED
      BY <2>1, <3>2, <3>3
  <2>2. CASE ~pooled
    BY <2>2, <1>1, <1>6 DEF Release
  <2> QED
    BY <2>1, <2>2
<1>9. /\ m \in NetConns(S) /\ m.writeChan = no /\ m.closeFlag /\ m.writer = "end" /\ m.accepted = q.accepted
      /\ m.written = q.written /\ m.fin = q.fin /\ m.released = q.released
  BY <1>3, <1>8 DEF NetConns, Writers
<1> HIDE DEF m
<1>10. Len(m.writeChan) = 0 /\ \A i \in 1..Len(m.writeChan) : FALSE
  BY <1>3, <1>9
<1>11. OrderOK(m)
  <2>1. ~Alive(m) /\ ~Alive(n)
    BY <1>9 DEF Alive
  <2> QED
    BY <2>1, <1>1, <1>8, <1>9, <1>10 DEF OrderOK
<1>12. BufferOK(m, hi, S, pooled)
  <2>1. \A x \in 1..S : m.released[x] <= 1 /\ (x > hi => m.released[x] = 0)
    <3> SUFFICES ASSUME NEW x \in 1..S PROVE m.released[x] <= 1 /\ (x > hi => m.released[x] = 0)
      OBVIOUS
    <3>1. n.released[x] <= 1 /\ (x > hi => n.released[x] = 0)
      BY <1>1 DEF BufferOK
    <3>2. CASE pooled /\ In(x)
      <4>1. x <= hi /\ m.released[x] = 1
        BY <3>2, <1>7, <1>8, <1>9
      <4> QED
        BY <4>1
    <3>3. CASE ~pooled \/ ~In(x)
      <4>1. m.released[x] = n.released[x]
        BY <3>3, <1>8, <1>9
      <4> QED
        BY <4>1, <3>1
    <3> QED
      BY <3>2, <3>3
  <2>2. pooled => \A k \in 1..Len(m.accepted) : m.released[m.accepted[k]] = 1
    <3> SUFFICES ASSUME pooled, NEW k \in 1..Len(n.accepted) PROVE q.released[n.accepted[k]] = 1
      BY <1>8, <1>9
    <3>1. n.released[n.accepted[k]] = 1 \/ In(n.accepted[k])
      BY <1>1 DEF BufferOK, ch
    <3>2. n.accepted[k] \in 1..S
      BY <1>2
    <3>3. CASE In(n.accepted[k])
      BY <3>2, <3>3, <1>8
    <3>4. CASE ~In(n.accepted[k])
      BY <3>1, <3>2, <3>4, <1>8
    <3> QED
      BY <3>3, <3>4
  <2> QED
    BY <2>1, <2>2, <1>9, <1>10 DEF BufferOK
<1>13. ConnOK(m, hi, S, pooled)
  BY <1>9, <1>11, <1>12 DEF ConnOK
<1> QED
  BY <1>4, <1>13

(* A closed socket stays closed, and no method starts a writer goroutine.  *)
Keeps(n, m) == (n.sock = "shut" => m.sock = "shut") /\ (n.writer = "none" => m.writer = "none")

LEMMA DestroyKeeps ==
  ASSUME NEW S \in Nat, NEW n \in NetConns(S), NEW b \in 0..S
  PROVE  /\ doDestroy(Release(n, <<b>>)) \in NetConns(S) /\ Keeps(n, doDestroy(Release(n, <<b>>)))
         /\ Keeps(n, Release(n, <<b>>))
<1> DEFINE r == Release(n, <<b>>)
<1>1. r \in NetConns(S) /\ r.sock = n.sock /\ r.writer = n.writer
  <2>1. CASE transport = "ws"
    BY <2>1 DEF Release
  <2>2. CASE transport # "ws"
    <3>1. r = Release(n, <<b>>)
      OBVIOUS
    <3> HIDE DEF r
    <3> QED
      BY <2>2, <3>1, ReleaseOne
  <2> QED
    BY <2>1, <2>2
<1> HIDE DEF r
<1>2. doDestroy(r) \in NetConns(S) /\ doDestroy(r).sock = "shut" /\ doDestroy(r).writer = r.writer
  BY <1>1, DestroyFields
<1>3. Keeps(n, doDestroy(r)) /\ Keeps(n, r)
  BY <1>1, <1>2 DEF Keeps
<1> QED
  BY <1>2, <1>3 DEF r

LEMMA DoWriteKeeps ==
  ASSUME NEW S \in Nat, NEW n \in NetConns(S), NEW b \in 0..S
  PROVE  /\ doWrite(n, b) \in NetConns(S) /\ Keeps(n, doWrite(n, b))
<1>1. n.writeChan \in Seq(0..S) /\ n.accepted \in Seq(1..S)
  BY ConnFields
<1>2. CASE Len(n.writeChan) = PendingWriteNum
  BY <1>2, DestroyKeeps DEF doWrite
<1>3. CASE Len(n.writeChan) # PendingWriteNum
  <2> DEFINE ch == Append(n.writeChan, b)
             ac == IF b = Fin THEN n.accepted ELSE Append(n.accepted, b)
             m == [n EXCEPT !.writeChan = ch, !.accepted = ac]
  <2>1. doWrite(n, b) = m
    BY <1>3 DEF doWrite
  <2>2. ch \in Seq(0..S)
    BY <1>1
  <2>3. ac \in Seq(1..S)
    <3>1. CASE b = Fin
      BY <3>1, <1>1
    <3>2. CASE b # Fin
      <4>1. b \in 1..S
        BY <3>2 DEF Fin
      <4>2. Append(n.accepted, b) \in Seq(1..S)
        BY <4>1, <1>1
      <4> QED
        BY <4>2, <3>2
    <3> QED
      BY <3>1, <3>2
  <2> HIDE DEF ch, ac
  <2>4. m \in NetConns(S) /\ m.sock = n.sock /\ m.writer = n.writer
    BY <2>2, <2>3 DEF NetConns
  <2> HIDE DEF m
  <2>5. Keeps(n, m)
    BY <2>4 DEF Keeps
  <2> QED
    BY <2>1, <2>4, <2>5
<1> QED
  BY <1>2, <1>3

LEMMA CloseKeeps ==
  ASSUME NEW S \in Nat, NEW n \in NetConns(S)
  PROVE  Keeps(n, ConnClose(n))
<1>1. CASE n.closeFlag
  BY <1>1 DEF ConnClose, Keeps
<1>2. CASE ~n.closeFlag
  <2> DEFINE d == doWrite(n, Fin)
             f == Len(n.writeChan) # PendingWriteNum /\ n.writer \in {"idle", "write"}
             m == [d EXCEPT !.closeFlag = TRUE, !.fin = f]
  <2>1. Fin \in 0..S
    BY DEF Fin
  <2>2. d \in NetConns(S) /\ Keeps(n, d)
    BY <2>1, DoWriteKeeps
  <2>3. ConnClose(n) = m
    BY <1>2 DEF ConnClose
  <2> HIDE DEF d, f
  <2>4. m.sock = d.sock /\ m.writer = d.writer
    BY <2>2 DEF NetConns
  <2> HIDE DEF m
  <2> QED
    BY <2>2, <2>3, <2>4 DEF Keeps
<1> QED
  BY <1>1, <1>2

LEMMA WriteKeeps ==
  ASSUME NEW S \in Nat, NEW n \in NetConns(S), NEW b \in 0..S, NEW m \in MsgParserWrite(n, b)
  PROVE  Keeps(n, m)
<1>1. Keeps(n, n) /\ Keeps(n, doWrite(n, b)) /\ Keeps(n, Release(n, <<b>>))
  BY DoWriteKeeps, DestroyKeeps DEF Keeps
<1>2. m = n \/ m = doWrite(n, b) \/ m = Release(n, <<b>>)
  BY DEF MsgParserWrite, WSWriteMsg, ConnWrite
<1> QED
  BY <1>1, <1>2

(* The writer goroutine leaves the socket alone while it writes.           *)
LEMMA WriterKeeps ==
  ASSUME NEW S \in Nat, NEW n \in NetConns(S), n.writer # "none", NEW m,
         \/ m = WriterTakes(n)
         \/ \E ok \in BOOLEAN : m = WriterWrites(n, ok)
         \/ m = freeChannel(n)
  PROVE  m.sock = n.sock
<1>1. CASE m = WriterTakes(n)
  BY <1>1 DEF WriterTakes, NetConns
<1>2. ASSUME NEW ok \in BOOLEAN, m = WriterWrites(n, ok) PROVE m.sock = n.sock
  BY <1>2 DEF WriterWrites, Release, NetConns
<1>3. CASE m = freeChannel(n)
  BY <1>3 DEF freeChannel, Release, NetConns
<1> QED
  BY <1>1, <1>2, <1>3
-----------------------------------------------------------------------------
(* The inductive invariant.                                                *)
NetTypeOK ==
  /\ setup \in Setups /\ mapClient \subseteq Conns
  /\ agent \in [Conns -> AgentPcs]
  /\ close \in {"no", "listener", "wait", "done"}
  /\ loop \in [pc : {"none", "dial", "dialled", "run", "end"}, conn : Conns \cup {None}]
  /\ sending \in Conns \cup {None} /\ sent \in [out : 0..setup.sends, in : Nat]

\* The messages numbered up to here have been handed to a connection.
Given == IF sending = None THEN sent.out ELSE sent.out - 1
ConnsOK(f, hi, S, pooled) == f \in [Conns -> NetConns(S)] /\ \A c \in Conns : ConnOK(f[c], hi, S, pooled)
ConnInv ==
  /\ sending # None => sent.out \in 1..setup.sends
  /\ ConnsOK(nc, Given, setup.sends, transport # "ws")

\* A connection has no writer goroutine before its connection object is made.
WorkInv == \A c \in Conns : agent[c] \in {"none", "accepted", "registered"} => nc[c].writer = "none"

\* Every running agent is on a connection of conns until Close takes conns, and
\* on a closed socket after that; a client runs one connection at a time.
Running(c) == agent[c] \in {"registered", "start", "read", "panicked"}
CloseInv ==
  /\ close \in {"no", "listener"} => conns \subseteq Conns /\ \A c \in Conns : Running(c) => c \in conns
  /\ close \in {"wait", "done"} => \A c \in Conns : Running(c) => nc[c].sock = "shut"
  /\ \A c \in mapClient : agent[c] \in {"start", "read", "close", "delete", "onclose", "unmap", "panicked"}
  /\ \A c \in Conns : agent[c] = "panicked" => transport = "ws"
ServerInv ==
  role = "server" =>
    /\ loop.pc = "none"
    /\ close \in {"wait", "done"} => conns = Nil /\ (OneByOne => \A c \in Conns : ~Accepting(c))
    /\ close = "done" => \A c \in Conns : Ended(c) \/ agent[c] = "accepted"
ClientInv ==
  role = "client" =>
    /\ mapClient = {} /\ loop.pc # "none" /\ close # "listener"
    /\ \A c \in Conns : agent[c] # "registered" /\ (c # loop.conn => Ended(c))
    /\ loop.pc = "dialled" => loop.conn \in Conns /\ agent[loop.conn] = "accepted"
    /\ loop.pc \in {"dial", "end"} => loop.conn = None
    /\ loop.pc = "run" => loop.conn \in Conns /\ agent[loop.conn] # "accepted"
    /\ close = "done" => loop.pc = "end"

NetInv == NetTypeOK /\ ConnInv /\ WorkInv /\ CloseInv /\ ServerInv /\ ClientInv

LEMMA SetupFacts ==
  ASSUME setup \in Setups
  PROVE  /\ setup.transport \in {"tcp", "ws", "kcp"} /\ setup.role \in {"server", "client"}
         /\ setup.conns \subseteq Conns /\ setup.sends \in Nat
BY NetAssumption

LEMMA FreshNames == "nil" \notin Conns /\ None \notin Conns
BY NetAssumption DEF None

LEMMA NetInitial == NetInit => NetInv
<1> SUFFICES ASSUME NetInit PROVE NetInv
  OBVIOUS
<1>1. setup.role \in {"server", "client"} /\ setup.sends \in Nat
  BY SetupFacts DEF NetInit
<1>2. NetTypeOK
  BY <1>1 DEF NetTypeOK, NetInit, AgentPcs, role
<1>3. ConnInv
  <2> DEFINE e == <<>>
             z == [b \in 1..setup.sends |-> 0]
             n == [sock |-> "open", closeFlag |-> FALSE, writeChan |-> e, chanClosed |-> FALSE,
                   writer |-> "none", b |-> 0, accepted |-> e, written |-> e,
                   released |-> z, fin |-> FALSE]
  <2>1. e \in Seq(0..setup.sends) /\ e \in Seq(1..setup.sends) /\ Len(e) = 0
    OBVIOUS
  <2>2. z \in [1..setup.sends -> Nat] /\ \A b \in 1..setup.sends : z[b] = 0
    OBVIOUS
  <2>3. nc = [c \in Conns |-> n] /\ Given = 0 /\ sending = None
    BY DEF NetInit, Fin, Given
  <2> HIDE DEF e, z
  <2>4. n \in NetConns(setup.sends)
    BY <1>1, <2>1, <2>2 DEF NetConns, Writers
  <2>5. /\ n.writeChan = e /\ n.accepted = e /\ n.written = e /\ n.released = z /\ ~n.fin
        /\ n.writer = "none"
    OBVIOUS
  <2> HIDE DEF n
  <2>6. \A i \in 1..Len(e) : FALSE
    BY <2>1
  <2>7. Taken(n) = 0 /\ Waiting(n) = 0
    BY <2>1, <2>5 DEF Taken, Waiting, FinLast
  <2>8. OrderOK(n)
    BY <2>1, <2>5, <2>6, <2>7 DEF OrderOK
  <2>9. BufferOK(n, 0, setup.sends, transport # "ws")
    BY <2>1, <2>2, <2>5, <2>6 DEF BufferOK
  <2>10. ConnOK(n, 0, setup.sends, transport # "ws")
    BY <2>4, <2>8, <2>9 DEF ConnOK
  <2>11. \A c \in Conns : nc[c] = n
    BY <2>3
  <2>12. nc \in [Conns -> NetConns(setup.sends)]
    BY <2>3, <2>4
  <2> QED
    BY <2>3, <2>10, <2>11, <2>12 DEF ConnInv, ConnsOK
<1>4. WorkInv
  BY DEF WorkInv, NetInit
<1>5. CloseInv
  BY DEF CloseInv, NetInit, Running
<1>6. ServerInv
  BY DEF ServerInv, NetInit
<1>7. ClientInv
  BY <1>1 DEF ClientInv, NetInit, role, Ended
<1> QED
  BY <1>2, <1>3, <1>4, <1>5, <1>6, <1>7 DEF NetInv

(* Steps that touch no connection object, and steps that touch one.        *)
LEMMA SameConns ==
  ASSUME NetInv, UNCHANGED <<setup, nc, sending>>, sent'.out = sent.out
  PROVE  ConnInv'
BY DEF NetInv, ConnInv, Given, transport

LEMMA OneConn ==
  ASSUME NetInv, UNCHANGED <<setup, sending, sent>>, NEW c \in Conns, NEW m,
         ConnOK(m, Given, setup.sends, transport # "ws"), nc' = [nc EXCEPT ![c] = m]
  PROVE  ConnInv' /\ nc'[c] = m /\ \A d \in Conns : d # c => nc'[d] = nc[d]
<1>1. ConnsOK(nc, Given, setup.sends, transport # "ws") /\ (sending # None => sent.out \in 1..setup.sends)
  BY DEF NetInv, ConnInv
<1>2. m \in NetConns(setup.sends)
  BY DEF ConnOK
<1>3. nc \in [Conns -> NetConns(setup.sends)]
  BY <1>1 DEF ConnsOK
<1>4. nc' \in [Conns -> NetConns(setup.sends)] /\ nc'[c] = m /\ \A d \in Conns : d # c => nc'[d] = nc[d]
  BY <1>2, <1>3
<1>5. ConnsOK(nc', Given, setup.sends, transport # "ws")
  BY <1>1, <1>4 DEF ConnsOK
<1>6. Given' = Given /\ setup' = setup /\ (transport # "ws")' = (transport # "ws")
  BY DEF Given, transport
<1>7. ConnsOK(nc', Given', setup'.sends, (transport # "ws")')
  BY <1>5, <1>6
<1> QED
  BY <1>1, <1>4, <1>7 DEF ConnInv

(* What the invariant says of one connection object.                       *)
LEMMA ConnOf ==
  ASSUME NetInv, NEW c \in Conns
  PROVE  /\ ConnOK(nc[c], Given, setup.sends, transport # "ws") /\ nc[c] \in NetConns(setup.sends)
         /\ setup.sends \in Nat /\ Given \in Nat /\ (transport # "ws") \in BOOLEAN
         /\ nc \in [Conns -> NetConns(setup.sends)]
<1>1. ConnOK(nc[c], Given, setup.sends, transport # "ws") /\ nc \in [Conns -> NetConns(setup.sends)]
  BY DEF NetInv, ConnInv, ConnsOK
<1>2. setup.sends \in Nat
  BY SetupFacts DEF NetInv, NetTypeOK
<1>3. sent.out \in 0..setup.sends /\ (sending # None => sent.out \in 1..setup.sends)
  BY DEF NetInv, NetTypeOK, ConnInv
<1>4. Given \in Nat
  BY <1>2, <1>3 DEF Given
<1> QED
  BY <1>1, <1>2, <1>4

(* Shutting the sockets of some connections.                               *)
LEMMA SocketsShut ==
  ASSUME NetInv, NEW D, UNCHANGED <<setup, sending, sent>>,
         nc' = [c \in Conns |-> IF c \in D THEN [nc[c] EXCEPT !.sock = "shut"] ELSE nc[c]]
  PROVE  /\ ConnInv'
         /\ \A c \in Conns : /\ nc'[c].writer = nc[c].writer /\ (c \in D => nc'[c].sock = "shut")
                             /\ (c \notin D => nc'[c] = nc[c])
<1>1. ASSUME NEW c \in Conns
      PROVE  /\ ConnOK(nc'[c], Given, setup.sends, transport # "ws")
             /\ nc'[c] \in NetConns(setup.sends)
             /\ nc'[c].writer = nc[c].writer /\ (c \in D => nc'[c].sock = "shut")
             /\ (c \notin D => nc'[c] = nc[c])
  <2> DEFINE n == nc[c]
             m == [n EXCEPT !.sock = "shut"]
  <2>1. /\ ConnOK(n, Given, setup.sends, transport # "ws") /\ n \in NetConns(setup.sends)
        /\ setup.sends \in Nat /\ Given \in Nat /\ (transport # "ws") \in BOOLEAN
    BY ConnOf
  <2>2. nc'[c] = IF c \in D THEN m ELSE n
    OBVIOUS
  <2> HIDE DEF n
  <2>3. /\ m \in NetConns(setup.sends) /\ m.writeChan = n.writeChan /\ m.b = n.b
        /\ m.accepted = n.accepted /\ m.written = n.written /\ m.released = n.released /\ m.fin = n.fin
        /\ m.closeFlag = n.closeFlag /\ m.writer = n.writer /\ m.sock = "shut"
    BY <2>1 DEF NetConns
  <2> HIDE DEF m
  <2>4. Given <= Given
    BY <2>1
  <2>5. ConnOK(m, Given, setup.sends, transport # "ws")
    BY <2>1, <2>3, <2>4, KeepsOK
  <2> QED
    BY <2>1, <2>2, <2>3, <2>5 DEF n
<1>2. nc' \in [Conns -> NetConns(setup.sends)]
  BY <1>1
<1>3. ConnsOK(nc', Given, setup.sends, transport # "ws")
  BY <1>1, <1>2 DEF ConnsOK
<1>4. Given' = Given /\ setup' = setup /\ (transport # "ws")' = (transport # "ws")
  BY DEF Given, transport
<1>5. ConnsOK(nc', Given', setup'.sends, (transport # "ws")')
  BY <1>3, <1>4
<1>6. sending # None => sent.out \in 1..setup.sends
  BY DEF NetInv, ConnInv
<1> QED
  BY <1>1, <1>5, <1>6 DEF ConnInv
-----------------------------------------------------------------------------
(* Each action preserves the invariant.                                    *)

\* Steps that only touch connection objects, and keep closed sockets closed.
LEMMA ConnStep ==
  ASSUME NetInv, ConnInv', UNCHANGED <<setup, conns, mapClient, agent, close, loop>>,
         \A c \in Conns : Keeps(nc[c], nc'[c]),
         sending' \in Conns \cup {None}, sent' \in [out : 0..setup.sends, in : Nat]
  PROVE  NetInv'
<1>1. NetTypeOK'
  BY DEF NetInv, NetTypeOK
<1>2. WorkInv'
  BY DEF NetInv, WorkInv, Keeps
<1>3. CloseInv'
  BY DEF NetInv, CloseInv, Running, Keeps, transport
<1>4. ServerInv'
  BY DEF NetInv, ServerInv, role, OneByOne, transport, Accepting, Ended
<1>5. ClientInv'
  BY DEF NetInv, ClientInv, role, Ended
<1> QED
  BY <1>1, <1>2, <1>3, <1>4, <1>5 DEF NetInv

LEMMA WriterStep ==
  ASSUME NetInv, NEW c \in Conns, Writer(c)
  PROVE  NetInv'
<1> DEFINE n == nc[c]
<1>1. /\ ConnOK(n, Given, setup.sends, transport # "ws") /\ n \in NetConns(setup.sends)
      /\ setup.sends \in Nat /\ Given \in Nat /\ (transport # "ws") \in BOOLEAN
      /\ ((transport # "ws") <=> transport # "ws")
  BY ConnOf
<1>2. \E m : /\ nc' = [nc EXCEPT ![c] = m] /\ ConnOK(m, Given, setup.sends, transport # "ws")
             /\ n.writer # "none" /\ (m.sock = n.sock \/ m.sock = "shut")
  <2>1. CASE n.writer = "idle" /\ nc' = [nc EXCEPT ![c] = WriterTakes(n)]
    <3> DEFINE m == WriterTakes(n)
    <3>1. ConnOK(m, Given, setup.sends, transport # "ws")
      BY <2>1, <1>1, TakesOK
    <3>2. m.sock = n.sock
      BY <2>1, <1>1, WriterKeeps
    <3> HIDE DEF m
    <3> QED
      BY <2>1, <3>1, <3>2 DEF m
  <2>2. ASSUME NEW ok \in BOOLEAN, n.writer = "write", nc' = [nc EXCEPT ![c] = WriterWrites(n, ok)]
        PROVE  \E m : /\ nc' = [nc EXCEPT ![c] = m] /\ ConnOK(m, Given, setup.sends, transport # "ws")
                      /\ n.writer # "none" /\ (m.sock = n.sock \/ m.sock = "shut")
    <3> DEFINE m == WriterWrites(n, ok)
    <3>1. ConnOK(m, Given, setup.sends, transport # "ws")
      BY <2>2, <1>1, WritesOK
    <3>2. m.sock = n.sock
      BY <2>2, <1>1, WriterKeeps
    <3> QED
      BY <2>2, <3>1, <3>2
  <2>3. CASE n.writer = "stop" /\ nc' = [nc EXCEPT ![c] = [n EXCEPT !.sock = "shut", !.writer = "free"]]
    <3> DEFINE m == [n EXCEPT !.sock = "shut", !.writer = "free"]
    <3>1. /\ m \in NetConns(setup.sends) /\ m.writeChan = n.writeChan /\ m.b = n.b
          /\ m.accepted = n.accepted /\ m.written = n.written /\ m.released = n.released /\ m.fin = n.fin
          /\ m.closeFlag = n.closeFlag /\ m.writer = "free" /\ m.sock = "shut"
      BY <1>1 DEF NetConns, Writers
    <3>2. Given <= Given
      BY <1>1
    <3>3. nc' = [nc EXCEPT ![c] = m]
      BY <2>3
    <3>5. n.writer = "stop"
      BY <2>3
    <3> HIDE DEF m, n
    <3>6. \A pooled \in BOOLEAN : ConnOK(n, Given, setup.sends, pooled) => ConnOK(m, Given, setup.sends, pooled)
      BY <1>1, <3>1, <3>2, <3>5, KeepsOK
    <3>4. ConnOK(m, Given, setup.sends, transport # "ws")
      BY <1>1, <3>6
    <3> QED
      BY <3>1, <3>3, <3>4, <3>5
  <2>4. CASE n.writer = "free" /\ nc' = [nc EXCEPT ![c] = freeChannel(n)]
    <3> DEFINE m == freeChannel(n)
    <3>1. ConnOK(m, Given, setup.sends, transport # "ws")
      BY <2>4, <1>1, FreesOK
    <3>2. m.sock = n.sock
      BY <2>4, <1>1, WriterKeeps
    <3> QED
      BY <2>4, <3>1, <3>2
  <2> QED
    BY <2>1, <2>2, <2>3, <2>4 DEF Writer
<1>3. PICK m : /\ nc' = [nc EXCEPT ![c] = m] /\ ConnOK(m, Given, setup.sends, transport # "ws")
               /\ n.writer # "none" /\ (m.sock = n.sock \/ m.sock = "shut")
  BY <1>2
<1>4. ConnInv' /\ nc'[c] = m /\ \A d \in Conns : d # c => nc'[d] = nc[d]
  BY <1>3, OneConn DEF Writer
<1>5. \A d \in Conns : Keeps(nc[d], nc'[d])
  BY <1>3, <1>4 DEF Keeps
<1>6. sending' \in Conns \cup {None} /\ sent' \in [out : 0..setup.sends, in : Nat]
  BY DEF NetInv, NetTypeOK, Writer
<1> QED
  BY <1>4, <1>5, <1>6, ConnStep DEF Writer

LEMMA PeerGoneStep ==
  ASSUME NetInv, NEW c \in Conns, PeerGone(c)
  PROVE  NetInv'
<1> DEFINE n == nc[c]
<1>0. PICK s \in {"reset", "stalled"} : nc' = [nc EXCEPT ![c] = [n EXCEPT !.sock = s]]
  BY ConnOf DEF PeerGone
<1> DEFINE m == [n EXCEPT !.sock = s]
<1>1. /\ ConnOK(n, Given, setup.sends, transport # "ws") /\ n \in NetConns(setup.sends)
      /\ setup.sends \in Nat /\ Given \in Nat /\ (transport # "ws") \in BOOLEAN
  BY ConnOf
<1>2. nc' = [nc EXCEPT ![c] = m] /\ n.sock # "shut" /\ n.writer # "none"
  BY <1>0 DEF PeerGone
<1> HIDE DEF n
<1>3. /\ m \in NetConns(setup.sends) /\ m.writeChan = n.writeChan /\ m.b = n.b
      /\ m.accepted = n.accepted /\ m.written = n.written /\ m.released = n.released /\ m.fin = n.fin
      /\ m.closeFlag = n.closeFlag /\ m.writer = n.writer
  BY <1>1 DEF NetConns
<1> HIDE DEF m
<1>4. Given <= Given
  BY <1>1
<1>5. ConnOK(m, Given, setup.sends, transport # "ws")
  BY <1>1, <1>3, <1>4, KeepsOK
<1>6. ConnInv' /\ nc'[c] = m /\ \A d \in Conns : d # c => nc'[d] = nc[d]
  BY <1>2, <1>5, OneConn DEF PeerGone
<1>7. \A d \in Conns : Keeps(nc[d], nc'[d])
  BY <1>2, <1>6 DEF Keeps, n
<1>8. sending' \in Conns \cup {None} /\ sent' \in [out : 0..setup.sends, in : Nat]
  BY DEF NetInv, NetTypeOK, PeerGone
<1> QED
  BY <1>6, <1>7, <1>8, ConnStep DEF PeerGone

LEMMA CloseClientStep ==
  ASSUME NetInv, NEW c \in Conns, CloseClient(c)
  PROVE  NetInv'
<1> DEFINE n == nc[c]
           m == ConnClose(n)
<1>1. /\ ConnOK(n, Given, setup.sends, transport # "ws") /\ n \in NetConns(setup.sends)
      /\ setup.sends \in Nat /\ Given \in Nat /\ (transport # "ws") \in BOOLEAN
  BY ConnOf
<1>2. nc' = [nc EXCEPT ![c] = m]
  BY DEF CloseClient
<1>3. ConnOK(m, Given, setup.sends, transport # "ws") /\ Keeps(n, m)
  BY <1>1, CloseOK, CloseKeeps
<1> HIDE DEF m
<1>4. ConnInv' /\ nc'[c] = m /\ \A d \in Conns : d # c => nc'[d] = nc[d]
  BY <1>2, <1>3, OneConn DEF CloseClient
<1>5. \A d \in Conns : Keeps(nc[d], nc'[d])
  BY <1>3, <1>4 DEF Keeps
<1>6. sending' \in Conns \cup {None} /\ sent' \in [out : 0..setup.sends, in : Nat]
  BY DEF NetInv, NetTypeOK, CloseClient
<1> QED
  BY <1>4, <1>5, <1>6, ConnStep DEF CloseClient

LEMMA SendMsgStep ==
  ASSUME NetInv, NEW c \in Conns, SendMsg(c)
  PROVE  NetInv'
<1>1. /\ setup' = setup /\ sent \in [out : 0..setup.sends, in : Nat] /\ setup.sends \in Nat
      /\ UNCHANGED <<conns, mapClient, agent, close, loop>>
  BY ConnOf DEF SendMsg, NetInv, NetTypeOK
<1>2. c # None
  BY FreshNames
<1>3. ConnsOK(nc, Given, setup.sends, transport # "ws")
  BY DEF NetInv, ConnInv
<1>4. CASE sending = None /\ sent.out < setup.sends /\ sending' = c /\ sent' = [sent EXCEPT !.out = @ + 1]
           /\ nc' = nc
  <2>1. sent'.out = sent.out + 1 /\ sent' \in [out : 0..setup.sends, in : Nat]
        /\ sent'.out \in 1..setup.sends
    BY <1>1, <1>4
  <2>2. sent'.out - 1 = sent.out
    BY <1>1, <2>1
  <2>3. Given' = Given
    BY <1>2, <1>4, <2>2 DEF Given
  <2>4. ConnInv'
    BY <1>1, <1>3, <1>4, <2>1, <2>3 DEF ConnInv, transport
  <2>5. \A d \in Conns : Keeps(nc[d], nc'[d])
    BY <1>4 DEF Keeps
  <2> QED
    BY <1>1, <1>4, <2>1, <2>4, <2>5, ConnStep
<1>5. CASE /\ sending = c /\ sending' = None /\ sent' = sent
           /\ \E n \in MsgParserWrite(nc[c], sent.out) : nc' = [nc EXCEPT ![c] = n]
  <2> DEFINE b == sent.out
             n == nc[c]
  <2>1. PICK m \in MsgParserWrite(n, b) : nc' = [nc EXCEPT ![c] = m]
    BY <1>5
  <2>2. b \in 1..setup.sends /\ Given = b - 1 /\ Given' = b
    BY <1>2, <1>5 DEF NetInv, ConnInv, Given
  <2>3. /\ ConnOK(n, b - 1, setup.sends, transport # "ws") /\ n \in NetConns(setup.sends)
        /\ (transport # "ws") \in BOOLEAN /\ ((transport # "ws") <=> transport # "ws")
    BY <2>2, ConnOf
  <2>4. b \in 0..setup.sends /\ b - 1 \in Nat /\ b \in Nat /\ b - 1 <= b
    BY <1>1, <2>2
  <2> HIDE DEF b
  <2>5. ConnOK(m, b, setup.sends, transport # "ws") /\ Keeps(n, m)
    BY <1>1, <2>1, <2>2, <2>3, <2>4, WriteOK, WriteKeeps
  <2>6. ASSUME NEW d \in Conns PROVE ConnOK(nc[d], b, setup.sends, transport # "ws")
    <3>1. /\ ConnOK(nc[d], b - 1, setup.sends, transport # "ws") /\ nc[d] \in NetConns(setup.sends)
          /\ (transport # "ws") \in BOOLEAN
      BY <2>2, ConnOf
    <3> DEFINE e == nc[d]
    <3> HIDE DEF e
    <3>2. ConnOK(e, b, setup.sends, transport # "ws")
      BY <1>1, <2>4, <3>1, KeepsOK DEF e
    <3> QED
      BY <3>2 DEF e
  <2>7. nc \in [Conns -> NetConns(setup.sends)] /\ m \in NetConns(setup.sends)
    BY <1>3, <2>5 DEF ConnsOK, ConnOK
  <2>8. nc' \in [Conns -> NetConns(setup.sends)] /\ nc'[c] = m /\ \A d \in Conns : d # c => nc'[d] = nc[d]
    BY <2>1, <2>7
  <2>9. ConnsOK(nc', b, setup.sends, transport # "ws")
    BY <2>5, <2>6, <2>8 DEF ConnsOK
  <2>10. ConnInv'
    BY <1>1, <1>5, <2>2, <2>9 DEF ConnInv, transport
  <2>11. \A d \in Conns : Keeps(nc[d], nc'[d])
    BY <2>5, <2>8 DEF Keeps
  <2> QED
    BY <1>1, <1>5, <2>10, <2>11, ConnStep
<1>6. CASE sending = c /\ sending' = None /\ sent' = sent /\ nc' = nc
  <2>1. nc[c] \in MsgParserWrite(nc[c], sent.out) /\ nc' = [nc EXCEPT ![c] = nc[c]]
    BY <1>6, ConnOf DEF MsgParserWrite
  <2> QED
    BY <1>5, <1>6, <2>1
<1> QED
  BY <1>4, <1>5, <1>6 DEF SendMsg

(* Accept, the agent's loop, the end of an agent: one agent moves on.      *)
LEMMA AcceptStep ==
  ASSUME NetInv, NEW c \in Conns, Accept(c)
  PROVE  NetInv'
<1>1. ConnInv'
  BY SameConns DEF Accept
<1>2. /\ agent[c] = "none" /\ role = "server" /\ close = "no"
      /\ agent' \in [Conns -> AgentPcs] /\ agent'[c] = "accepted"
      /\ \A d \in Conns : d # c => agent'[d] = agent[d]
  BY DEF Accept, NetInv, NetTypeOK, AgentPcs
<1>3. NetTypeOK'
  BY <1>2 DEF Accept, NetInv, NetTypeOK
<1>4. WorkInv'
  BY <1>2 DEF Accept, NetInv, WorkInv
<1>5. CloseInv'
  BY <1>2 DEF Accept, NetInv, NetTypeOK, CloseInv, Running, transport
<1>6. ServerInv'
  BY <1>2 DEF Accept, NetInv, ServerInv, role
<1>7. ClientInv'
  BY <1>2 DEF Accept, ClientInv, role
<1> QED
  BY <1>1, <1>3, <1>4, <1>5, <1>6, <1>7 DEF NetInv

LEMMA RegisterStep ==
  ASSUME NetInv, NEW c \in Conns, Register(c)
  PROVE  NetInv'
<1>1. /\ role = "server" /\ agent[c] = "accepted" /\ close \in {"no", "listener", "wait", "done"}
      /\ agent \in [Conns -> AgentPcs] /\ nc[c].writer = "none"
      /\ UNCHANGED <<setup, mapClient, events, told, close, loop, sending, sent>>
      /\ transport \in {"tcp", "ws", "kcp"}
  BY SetupFacts DEF Register, NetInv, NetTypeOK, WorkInv, transport
<1>2. CASE MayRegister(c) /\ agent' = [agent EXCEPT ![c] = "registered"] /\ conns' = conns \cup {c} /\ nc' = nc
  <2>1. agent' \in [Conns -> AgentPcs] /\ agent'[c] = "registered" /\ \A d \in Conns : d # c => agent'[d] = agent[d]
    BY <1>1, <1>2 DEF AgentPcs
  <2>2. close \notin {"wait", "done"}
    <3> SUFFICES ASSUME close \in {"wait", "done"} PROVE FALSE
      OBVIOUS
    <3>1. conns = Nil /\ (OneByOne => ~Accepting(c))
      BY <1>1 DEF NetInv, ServerInv
    <3> QED
      BY <3>1, <1>1, <1>2 DEF OneByOne, Accepting, MayRegister
  <2>3. ConnInv'
    BY <1>1, <1>2, SameConns
  <2>4. NetTypeOK'
    BY <1>1, <2>1 DEF NetInv, NetTypeOK
  <2>5. WorkInv'
    BY <1>1, <1>2, <2>1 DEF NetInv, WorkInv
  <2>6. CloseInv'
    BY <1>1, <1>2, <2>1, <2>2 DEF NetInv, NetTypeOK, CloseInv, Running, transport
  <2>7. ServerInv'
    BY <1>1, <2>2 DEF NetInv, ServerInv, role
  <2>8. ClientInv'
    BY <1>1 DEF ClientInv, role
  <2> QED
    BY <2>3, <2>4, <2>5, <2>6, <2>7, <2>8 DEF NetInv
<1>3. CASE agent' = [agent EXCEPT ![c] = "refused"] /\ nc' = [nc EXCEPT ![c].sock = "shut"] /\ conns' = conns
  <2>1. agent' \in [Conns -> AgentPcs] /\ agent'[c] = "refused" /\ \A d \in Conns : d # c => agent'[d] = agent[d]
    BY <1>1, <1>3 DEF AgentPcs
  <2> DEFINE D == {c}
  <2>2. nc' = [d \in Conns |-> IF d \in D THEN [nc[d] EXCEPT !.sock = "shut"] ELSE nc[d]]
    BY <1>3, ConnOf
  <2> HIDE DEF D
  <2>3. /\ ConnInv'
        /\ \A d \in Conns : /\ nc'[d].writer = nc[d].writer /\ (d \in D => nc'[d].sock = "shut")
                            /\ (d \notin D => nc'[d] = nc[d])
    BY <1>1, <2>2, SocketsShut
  <2>4. NetTypeOK'
    BY <1>1, <2>1 DEF NetInv, NetTypeOK
  <2>5. WorkInv'
    BY <2>1, <2>3 DEF NetInv, WorkInv
  <2>6. \A d \in Conns : nc[d].sock = "shut" => nc'[d].sock = "shut"
    BY <2>3
  <2>7. CloseInv'
    BY <1>1, <1>3, <2>1, <2>6 DEF NetInv, NetTypeOK, CloseInv, Running, transport
  <2>8. ServerInv'
    BY <1>1, <1>3, <2>1 DEF NetInv, ServerInv, role, transport, OneByOne, Accepting, Ended
  <2>9. ClientInv'
    BY <1>1 DEF ClientInv, role
  <2> QED
    BY <2>3, <2>4, <2>5, <2>7, <2>8, <2>9 DEF NetInv
<1> QED
  BY <1>2, <1>3 DEF Register

LEMMA NewAgentStep ==
  ASSUME NetInv, NEW c \in Conns, NewAgent(c)
  PROVE  NetInv'
<1> DEFINE n == nc[c]
           m == [n EXCEPT !.writer = "idle"]
<1>1. /\ ConnOK(n, Given, setup.sends, transport # "ws") /\ n \in NetConns(setup.sends)
      /\ setup.sends \in Nat /\ Given \in Nat /\ (transport # "ws") \in BOOLEAN
  BY ConnOf
<1>2. /\ role = "server" /\ agent[c] = "registered" /\ nc' = [nc EXCEPT ![c] = m]
      /\ agent' = [agent EXCEPT ![c] = "start"] /\ mapClient' = mapClient \cup {c}
      /\ agent \in [Conns -> AgentPcs] /\ n.writer = "none"
      /\ UNCHANGED <<setup, conns, events, told, close, loop, sending, sent>>
  BY DEF NewAgent, newNetConn, NetInv, NetTypeOK, WorkInv
<1>3. agent' \in [Conns -> AgentPcs] /\ agent'[c] = "start" /\ \A d \in Conns : d # c => agent'[d] = agent[d]
  BY <1>2 DEF AgentPcs
<1> HIDE DEF n
<1>4. /\ m \in NetConns(setup.sends) /\ m.writeChan = n.writeChan /\ m.b = n.b
      /\ m.accepted = n.accepted /\ m.written = n.written /\ m.released = n.released /\ m.fin = n.fin
      /\ m.closeFlag = n.closeFlag /\ m.writer = "idle" /\ m.sock = n.sock
  BY <1>1 DEF NetConns, Writers
<1> HIDE DEF m
<1>5. Given <= Given
  BY <1>1
<1>6. ConnOK(m, Given, setup.sends, transport # "ws")
  <2>1. n.writer = "none"
    BY <1>2
  <2> QED
    BY <1>1, <2>1, <1>4, <1>5, KeepsOK
<1>7. ConnInv' /\ nc'[c] = m /\ \A d \in Conns : d # c => nc'[d] = nc[d]
  BY <1>2, <1>6, OneConn
<1>8. NetTypeOK'
  BY <1>2, <1>3 DEF NetInv, NetTypeOK
<1>9. WorkInv'
  BY <1>3, <1>7 DEF NetInv, WorkInv
<1>10. \A d \in Conns : nc'[d].sock = nc[d].sock
  BY <1>4, <1>7 DEF n
<1>11. CloseInv'
  BY <1>2, <1>3, <1>10 DEF NetInv, NetTypeOK, CloseInv, Running, transport
<1>12. ServerInv'
  BY <1>2, <1>3 DEF NetInv, ServerInv, role, transport, OneByOne, Accepting, Ended
<1>13. ClientInv'
  BY <1>2 DEF ClientInv, role
<1> QED
  BY <1>7, <1>8, <1>9, <1>11, <1>12, <1>13 DEF NetInv

\* The steps of an agent after its connection object is made.
LEMMA AgentMoves ==
  ASSUME NetInv, ConnInv', NEW c \in Conns, NEW p \in {"read", "close", "delete", "onclose", "unmap", "done", "panicked"},
         agent[c] \in {"start", "read", "close", "delete", "onclose", "unmap"},
         agent[c] \in {"start", "read"} \/ p \notin {"read", "panicked"},
         p = "panicked" => transport = "ws",
         agent' = [agent EXCEPT ![c] = p],
         UNCHANGED <<setup, close, loop, sending>>, sent' \in [out : 0..setup.sends, in : Nat],
         conns' = conns \/ (p \notin {"read", "panicked"} /\ conns' = conns \ {c}),
         mapClient' = mapClient \/ mapClient' = mapClient \ {c},
         p = "done" => mapClient' = mapClient \ {c},
         \A d \in Conns : Keeps(nc[d], nc'[d])
  PROVE  NetInv'
<1>1. agent \in [Conns -> AgentPcs] /\ close \in {"no", "listener", "wait", "done"} /\ mapClient \subseteq Conns
  BY DEF NetInv, NetTypeOK
<1>2. agent' \in [Conns -> AgentPcs] /\ agent'[c] = p /\ \A d \in Conns : d # c => agent'[d] = agent[d]
  BY <1>1 DEF AgentPcs
<1>3. mapClient' \subseteq Conns /\ mapClient' \subseteq mapClient
  BY <1>1
<1>4. NetTypeOK'
  BY <1>2, <1>3 DEF NetInv, NetTypeOK
<1>5. WorkInv'
  BY <1>2 DEF NetInv, WorkInv, Keeps
<1>6. CloseInv'
  <2>1. \A d \in Conns : Running(d)' => Running(d) /\ (d # c \/ p \in {"read", "panicked"})
    BY <1>2 DEF Running
  <2>2. \A d \in Conns : nc[d].sock = "shut" => nc'[d].sock = "shut"
    BY DEF Keeps
  <2>3. close \in {"no", "listener"} => conns' \subseteq Conns /\ \A d \in Conns : Running(d)' => d \in conns'
    BY <2>1 DEF NetInv, CloseInv
  <2>4. close \in {"wait", "done"} => \A d \in Conns : Running(d)' => nc'[d].sock = "shut"
    BY <2>1, <2>2 DEF NetInv, CloseInv
  <2>5. \A d \in mapClient' : agent'[d] \in {"start", "read", "close", "delete", "onclose", "unmap", "panicked"}
    BY <1>1, <1>2, <1>3 DEF NetInv, CloseInv
  <2>6. \A d \in Conns : agent'[d] = "panicked" => transport' = "ws"
    BY <1>2 DEF NetInv, CloseInv, transport
  <2> QED
    BY <2>3, <2>4, <2>5, <2>6 DEF CloseInv
<1>7. ServerInv'
  <2> SUFFICES ASSUME role = "server" PROVE ServerInv'
    BY DEF ServerInv, role
  <2>1. /\ loop.pc = "none"
        /\ close \in {"wait", "done"} => conns = Nil /\ (OneByOne => \A d \in Conns : ~Accepting(d))
        /\ close = "done" => \A d \in Conns : Ended(d) \/ agent[d] = "accepted"
    BY DEF NetInv, ServerInv
  <2>2. conns = Nil => conns' = Nil
    BY FreshNames DEF Nil
  <2>3. \A d \in Conns : ~Accepting(d) => ~Accepting(d)'
    BY <1>2 DEF Accepting
  <2>4. close = "done" => FALSE
    BY <2>1 DEF Ended
  <2> QED
    BY <2>1, <2>2, <2>3, <2>4 DEF ServerInv, OneByOne, transport
<1>8. ClientInv'
  <2> SUFFICES ASSUME role = "client" PROVE ClientInv'
    BY DEF ClientInv, role
  <2>1. c = loop.conn
    BY DEF NetInv, ClientInv, Ended
  <2>2. loop.pc = "run"
    <3>1. loop.pc \in {"none", "dial", "dialled", "run", "end"}
      BY DEF NetInv, NetTypeOK
    <3>2. loop.conn # None
      BY <2>1, FreshNames
    <3> QED
      BY <3>1, <3>2, <2>1 DEF NetInv, ClientInv
  <2>3. mapClient' = {}
    BY <1>3 DEF NetInv, ClientInv
  <2>4. \A d \in Conns : agent'[d] # "registered" /\ (d # loop.conn => Ended(d)')
    BY <1>2, <2>1 DEF NetInv, ClientInv, Ended
  <2>5. loop.conn \in Conns /\ agent'[loop.conn] # "accepted"
    BY <1>2, <2>1
  <2> QED
    BY <2>2, <2>3, <2>4, <2>5 DEF NetInv, ClientInv
<1> QED
  BY <1>4, <1>5, <1>6, <1>7, <1>8 DEF NetInv

LEMMA AgentRunStep ==
  ASSUME NetInv, NEW c \in Conns, AgentRun(c)
  PROVE  NetInv'
<1>1. /\ UNCHANGED <<setup, conns, mapClient, nc, told, close, loop, sending>>
      /\ sent \in [out : 0..setup.sends, in : Nat]
      /\ \A d \in Conns : Keeps(nc[d], nc'[d])
  BY DEF AgentRun, NetInv, NetTypeOK, Keeps
<1>2. CASE agent[c] = "start" /\ agent' = [agent EXCEPT ![c] = "read"] /\ sent' = sent
  <2>1. ConnInv'
    BY <1>1, <1>2, SameConns
  <2> QED
    BY <1>1, <1>2, <2>1, AgentMoves
<1>3. CASE agent[c] = "read" /\ sent' = [sent EXCEPT !.in = @ + 1] /\ agent' = agent
  <2>1. sent'.out = sent.out /\ sent' \in [out : 0..setup.sends, in : Nat]
    BY <1>1, <1>3
  <2>2. ConnInv'
    BY <1>1, <2>1, SameConns
  <2>3. sending' \in Conns \cup {None}
    BY <1>1 DEF NetInv, NetTypeOK
  <2> QED
    BY <1>1, <1>3, <2>1, <2>2, <2>3, ConnStep
<1>4. CASE agent[c] = "read" /\ agent' = [agent EXCEPT ![c] = "close"] /\ sent' = sent
  <2>1. ConnInv'
    BY <1>1, <1>4, SameConns
  <2> QED
    BY <1>1, <1>4, <2>1, AgentMoves
<1> QED
  BY <1>2, <1>3, <1>4 DEF AgentRun

LEMMA WSRunPanicsStep ==
  ASSUME NetInv, NEW c \in Conns, transport = "ws", WSRunPanics(c)
  PROVE  NetInv'
<1>1. /\ UNCHANGED <<setup, conns, mapClient, nc, close, loop, sending>>
      /\ agent[c] = "read" /\ agent' = [agent EXCEPT ![c] = "panicked"]
      /\ sent' = [sent EXCEPT !.in = @ + 1] /\ sent \in [out : 0..setup.sends, in : Nat]
      /\ \A d \in Conns : Keeps(nc[d], nc'[d])
  BY DEF WSRunPanics, NetInv, NetTypeOK, Keeps
<1>2. sent'.out = sent.out /\ sent' \in [out : 0..setup.sends, in : Nat]
  BY <1>1
<1>3. ConnInv'
  BY <1>1, <1>2, SameConns
<1> QED
  BY <1>1, <1>2, <1>3, AgentMoves

LEMMA CleanupStep ==
  ASSUME NetInv, NEW c \in Conns, Cleanup(c)
  PROVE  NetInv'
<1> DEFINE n == nc[c]
           m == Cleaned(n)
<1>1. /\ ConnOK(n, Given, setup.sends, transport # "ws") /\ n \in NetConns(setup.sends)
      /\ setup.sends \in Nat /\ Given \in Nat /\ (transport # "ws") \in BOOLEAN
  BY ConnOf
<1>2. /\ agent[c] = "close" /\ agent' = [agent EXCEPT ![c] = "delete"] /\ nc' = [nc EXCEPT ![c] = m]
      /\ UNCHANGED <<setup, conns, mapClient, events, told, close, loop, sending, sent>>
      /\ sent \in [out : 0..setup.sends, in : Nat]
  BY DEF Cleanup, NetInv, NetTypeOK
<1> HIDE DEF n
<1>3. ConnOK(m, Given, setup.sends, transport # "ws") /\ Keeps(n, m)
  <2>1. CASE m = ConnClose(n)
    BY <1>1, <2>1, CloseOK, CloseKeeps
  <2>2. CASE m = [n EXCEPT !.sock = "shut"]
    <3> HIDE DEF m
    <3>1. /\ m \in NetConns(setup.sends) /\ m.writeChan = n.writeChan /\ m.b = n.b
          /\ m.accepted = n.accepted /\ m.written = n.written /\ m.released = n.released /\ m.fin = n.fin
          /\ m.closeFlag = n.closeFlag /\ m.writer = n.writer /\ m.sock = "shut"
      BY <1>1, <2>2 DEF NetConns
    <3>2. Given <= Given
      BY <1>1
    <3>3. ConnOK(m, Given, setup.sends, transport # "ws")
      BY <1>1, <3>1, <3>2, KeepsOK
    <3> QED
      BY <3>1, <3>3 DEF Keeps
  <2> QED
    BY <2>1, <2>2 DEF Cleaned
<1> HIDE DEF m
<1>4. ConnInv' /\ nc'[c] = m /\ \A d \in Conns : d # c => nc'[d] = nc[d]
  BY <1>2, <1>3, OneConn
<1>5. \A d \in Conns : Keeps(nc[d], nc'[d])
  BY <1>3, <1>4 DEF Keeps, n
<1> QED
  BY <1>2, <1>4, <1>5, AgentMoves

LEMMA DeleteConnStep ==
  ASSUME NetInv, NEW c \in Conns, DeleteConn(c)
  PROVE  NetInv'
<1>1. /\ agent[c] = "delete" /\ agent' = [agent EXCEPT ![c] = "onclose"] /\ conns' = conns \ {c}
      /\ UNCHANGED <<setup, mapClient, nc, events, told, close, loop, sending, sent>>
      /\ sent \in [out : 0..setup.sends, in : Nat]
      /\ \A d \in Conns : Keeps(nc[d], nc'[d])
  BY DEF DeleteConn, NetInv, NetTypeOK, Keeps
<1>2. ConnInv'
  BY <1>1, SameConns
<1> QED
  BY <1>1, <1>2, AgentMoves

LEMMA OnCloseStep ==
  ASSUME NetInv, NEW c \in Conns, OnClose(c)
  PROVE  NetInv'
<1>1. /\ UNCHANGED <<setup, conns, nc, told, close, loop, sending, sent>>
      /\ sent \in [out : 0..setup.sends, in : Nat]
      /\ \A d \in Conns : Keeps(nc[d], nc'[d])
  BY DEF OnClose, NetInv, NetTypeOK, Keeps
<1>2. ConnInv'
  BY <1>1, SameConns
<1>3. CASE agent[c] = "onclose" /\ agent' = [agent EXCEPT ![c] = "unmap"] /\ mapClient' = mapClient
  BY <1>1, <1>2, <1>3, AgentMoves
<1>4. CASE agent[c] = "unmap" /\ mapClient' = mapClient \ {c} /\ agent' = [agent EXCEPT ![c] = "done"]
  BY <1>1, <1>2, <1>4, AgentMoves
<1> QED
  BY <1>3, <1>4 DEF OnClose

LEMMA ServerCloseStep ==
  ASSUME NetInv, ServerClose
  PROVE  NetInv'
<1>1. /\ role = "server" /\ UNCHANGED <<setup, mapClient, agent, events, told, loop, sending, sent>>
      /\ sending \in Conns \cup {None} /\ sent \in [out : 0..setup.sends, in : Nat]
  BY DEF ServerClose, NetInv, NetTypeOK
<1>2. close' \in {"no", "listener", "wait", "done"}
  BY DEF ServerClose
<1>3. NetTypeOK'
  BY <1>1, <1>2 DEF NetInv, NetTypeOK
<1>4. ClientInv'
  BY <1>1 DEF ClientInv, role
<1>5. CASE close = "no" /\ close' = "listener" /\ conns' = conns /\ nc' = nc
  <2>1. ConnInv'
    BY <1>1, <1>5, SameConns
  <2>2. WorkInv'
    BY <1>1, <1>5 DEF NetInv, WorkInv
  <2>3. CloseInv'
    BY <1>1, <1>5 DEF NetInv, CloseInv, Running, transport
  <2>4. ServerInv'
    BY <1>1, <1>5 DEF NetInv, ServerInv, role
  <2> QED
    BY <1>3, <1>4, <2>1, <2>2, <2>3, <2>4 DEF NetInv
<1>6. CASE /\ close = "listener" /\ (OneByOne => \A c \in Conns : ~Accepting(c))
           /\ close' = "wait" /\ conns' = Nil
           /\ nc' = [c \in Conns |-> IF c \in conns THEN [nc[c] EXCEPT !.sock = "shut"] ELSE nc[c]]
  <2>1. /\ ConnInv'
        /\ \A c \in Conns : /\ nc'[c].writer = nc[c].writer /\ (c \in conns => nc'[c].sock = "shut")
                            /\ (c \notin conns => nc'[c] = nc[c])
    BY <1>1, <1>6, SocketsShut
  <2>2. WorkInv'
    BY <1>1, <2>1 DEF NetInv, WorkInv
  <2>3. CloseInv'
    BY <1>1, <1>6, <2>1 DEF NetInv, CloseInv, Running, transport
  <2>4. ServerInv'
    BY <1>1, <1>6 DEF NetInv, ServerInv, role, OneByOne, transport, Accepting
  <2> QED
    BY <1>3, <1>4, <2>1, <2>2, <2>3, <2>4 DEF NetInv
<1>7. CASE /\ close = "wait" /\ (\A c \in Conns : Ended(c) \/ agent[c] = "accepted")
           /\ close' = "done" /\ conns' = conns /\ nc' = nc
  <2>1. ConnInv'
    BY <1>1, <1>7, SameConns
  <2>2. WorkInv'
    BY <1>1, <1>7 DEF NetInv, WorkInv
  <2>3. CloseInv'
    BY <1>1, <1>7 DEF NetInv, CloseInv, Running, transport
  <2>4. ServerInv'
    BY <1>1, <1>7 DEF NetInv, ServerInv, role, OneByOne, transport, Accepting, Ended
  <2> QED
    BY <1>3, <1>4, <2>1, <2>2, <2>3, <2>4 DEF NetInv
<1> QED
  BY <1>5, <1>6, <1>7 DEF ServerClose

LEMMA EventHandlerStep ==
  ASSUME NetInv, EventHandler
  PROVE  NetInv'
<1>1. /\ UNCHANGED <<setup, conns, mapClient, agent, nc, close, loop, sending, sent>>
      /\ sending \in Conns \cup {None} /\ sent \in [out : 0..setup.sends, in : Nat]
      /\ \A d \in Conns : Keeps(nc[d], nc'[d])
  BY DEF EventHandler, NetInv, NetTypeOK, Keeps
<1>2. ConnInv'
  BY <1>1, SameConns
<1> QED
  BY <1>1, <1>2, ConnStep

(* The connect goroutine of a client.                                      *)
LEMMA DialStep ==
  ASSUME NetInv, dial
  PROVE  NetInv'
<1>1. /\ loop.pc = "dial" /\ UNCHANGED <<setup, conns, mapClient, nc, events, told, close, sending, sent>>
      /\ agent \in [Conns -> AgentPcs] /\ setup.conns \subseteq Conns
      /\ setup.role \in {"server", "client"}
  BY SetupFacts DEF dial, NetInv, NetTypeOK
<1>2. role = "client" /\ loop.conn = None
  BY <1>1 DEF NetInv, ServerInv, ClientInv, role
<1>3. ConnInv'
  BY <1>1, SameConns
<1>4. ServerInv'
  BY <1>1, <1>2 DEF ServerInv, role
<1>5. ASSUME NEW c \in Conns, agent[c] = "none", loop' = [pc |-> "dialled", conn |-> c],
             agent' = [agent EXCEPT ![c] = "accepted"]
      PROVE  NetInv'
  <2>1. agent' \in [Conns -> AgentPcs] /\ agent'[c] = "accepted" /\ \A d \in Conns : d # c => agent'[d] = agent[d]
    BY <1>1, <1>5 DEF AgentPcs
  <2>2. NetTypeOK'
    BY <1>1, <1>5, <2>1 DEF NetInv, NetTypeOK
  <2>3. WorkInv'
    BY <1>1, <1>5, <2>1 DEF NetInv, WorkInv
  <2>4. CloseInv'
    BY <1>1, <1>5, <2>1 DEF NetInv, NetTypeOK, CloseInv, Running, transport
  <2>5. loop'.pc = "dialled" /\ loop'.conn = c
    BY <1>5
  <2>6. \A d \in Conns : d # None
    BY FreshNames
  <2>7. \A d \in Conns : agent'[d] # "registered" /\ (d # c => Ended(d)')
    BY <1>2, <2>1, <2>6 DEF NetInv, ClientInv, Ended
  <2>8. close # "done" /\ close # "listener" /\ mapClient = {}
    BY <1>1, <1>2 DEF NetInv, ClientInv
  <2>9. ClientInv'
    BY <1>1, <2>1, <2>5, <2>7, <2>8 DEF ClientInv
  <2> QED
    BY <1>3, <1>4, <2>2, <2>3, <2>4, <2>9 DEF NetInv
<1>6. ASSUME loop' = [pc |-> "end", conn |-> None], agent' = agent PROVE NetInv'
  <2>1. loop'.pc = "end" /\ loop'.conn = None
    BY <1>6
  <2>2. NetTypeOK'
    BY <1>1, <1>6 DEF NetInv, NetTypeOK
  <2>3. WorkInv'
    BY <1>1, <1>6 DEF NetInv, WorkInv
  <2>4. CloseInv'
    BY <1>1, <1>6 DEF NetInv, CloseInv, Running, transport
  <2>5. ClientInv'
    BY <1>1, <1>2, <1>6, <2>1 DEF NetInv, ClientInv, role, Ended
  <2> QED
    BY <1>3, <1>4, <2>2, <2>3, <2>4, <2>5 DEF NetInv
<1> QED
  BY <1>1, <1>5, <1>6 DEF dial

LEMMA ConnectStep ==
  ASSUME NetInv, connect
  PROVE  NetInv'
<1> DEFINE c == loop.conn
           n == nc[c]
<1>1. /\ loop.pc = "dialled" /\ UNCHANGED <<setup, mapClient, events, told, close, sending, sent>>
      /\ agent \in [Conns -> AgentPcs] /\ setup.role \in {"server", "client"}
      /\ close \in {"no", "listener", "wait", "done"}
      /\ loop \in [pc : {"none", "dial", "dialled", "run", "end"}, conn : Conns \cup {None}]
  BY SetupFacts DEF connect, NetInv, NetTypeOK
<1>2. role = "client" /\ c \in Conns /\ agent[c] = "accepted"
  BY <1>1 DEF NetInv, ServerInv, ClientInv, role
<1>3. /\ ConnOK(n, Given, setup.sends, transport # "ws") /\ n \in NetConns(setup.sends)
      /\ setup.sends \in Nat /\ Given \in Nat /\ (transport # "ws") \in BOOLEAN
      /\ nc \in [Conns -> NetConns(setup.sends)]
  BY <1>2, ConnOf
<1>4. /\ mapClient = {} /\ close # "listener"
      /\ \A d \in Conns : agent[d] # "registered" /\ (d # c => Ended(d))
      /\ close # "done" /\ n.writer = "none"
  BY <1>1, <1>2 DEF NetInv, ClientInv, WorkInv
<1>5. ServerInv'
  BY <1>1, <1>2 DEF ServerInv, role
<1>6. CASE /\ nc' = [nc EXCEPT ![c].sock = "shut"] /\ agent' = [agent EXCEPT ![c] = "refused"]
           /\ loop' = [pc |-> "end", conn |-> None] /\ conns' = conns
  <2>1. agent' \in [Conns -> AgentPcs] /\ agent'[c] = "refused" /\ \A d \in Conns : d # c => agent'[d] = agent[d]
    BY <1>1, <1>2, <1>6 DEF AgentPcs
  <2> DEFINE D == {c}
  <2>2. nc' = [d \in Conns |-> IF d \in D THEN [nc[d] EXCEPT !.sock = "shut"] ELSE nc[d]]
    BY <1>3, <1>6
  <2> HIDE DEF D
  <2>3. /\ ConnInv'
        /\ \A d \in Conns : /\ nc'[d].writer = nc[d].writer /\ (d \in D => nc'[d].sock = "shut")
                            /\ (d \notin D => nc'[d] = nc[d])
    BY <1>1, <2>2, SocketsShut
  <2>4. loop'.pc = "end" /\ loop'.conn = None
        /\ loop' \in [pc : {"none", "dial", "dialled", "run", "end"}, conn : Conns \cup {None}]
    BY <1>6
  <2>5. NetTypeOK'
    BY <1>1, <2>1, <2>4 DEF NetInv, NetTypeOK
  <2>6. WorkInv'
    BY <2>1, <2>3 DEF NetInv, WorkInv
  <2>7. \A d \in Conns : nc[d].sock = "shut" => nc'[d].sock = "shut"
    BY <2>3
  <2>8. CloseInv'
    BY <1>1, <1>4, <1>6, <2>1, <2>7 DEF NetInv, CloseInv, Running, transport
  <2>9. \A d \in Conns : agent'[d] # "registered" /\ Ended(d)'
    BY <1>4, <2>1 DEF Ended
  <2>10. ClientInv'
    BY <1>1, <1>4, <2>4, <2>9 DEF ClientInv
  <2> QED
    BY <1>5, <2>3, <2>5, <2>6, <2>8, <2>10 DEF NetInv
<1>7. CASE /\ close = "no" /\ conns' = (conns \ Nil) \cup {c} /\ agent' = [agent EXCEPT ![c] = "start"]
           /\ nc' = [nc EXCEPT ![c] = newNetConn(n)] /\ loop' = [loop EXCEPT !.pc = "run"]
  <2>1. agent' \in [Conns -> AgentPcs] /\ agent'[c] = "start" /\ \A d \in Conns : d # c => agent'[d] = agent[d]
    BY <1>1, <1>2, <1>7 DEF AgentPcs
  <2>2. loop'.pc = "run" /\ loop'.conn = c
        /\ loop' \in [pc : {"none", "dial", "dialled", "run", "end"}, conn : Conns \cup {None}]
    BY <1>1, <1>7
  <2> DEFINE m == [n EXCEPT !.writer = "idle"]
  <2>3. nc' = [nc EXCEPT ![c] = m]
    BY <1>7 DEF newNetConn
  <2> HIDE DEF n
  <2>4. /\ m \in NetConns(setup.sends) /\ m.writeChan = n.writeChan /\ m.b = n.b
        /\ m.accepted = n.accepted /\ m.written = n.written /\ m.released = n.released /\ m.fin = n.fin
        /\ m.closeFlag = n.closeFlag /\ m.writer = "idle" /\ m.sock = n.sock
    BY <1>3 DEF NetConns, Writers
  <2> HIDE DEF m
  <2>5. Given <= Given /\ n.writer = "none"
    BY <1>3, <1>4
  <2>6. ConnOK(m, Given, setup.sends, transport # "ws")
    <3>1. /\ ConnOK(n, Given, setup.sends, transport # "ws")
          /\ setup.sends \in Nat /\ Given \in Nat /\ (transport # "ws") \in BOOLEAN
      BY <1>3
    <3> QED
      BY <3>1, <2>4, <2>5, KeepsOK
  <2>7. ConnInv' /\ nc'[c] = m /\ \A d \in Conns : d # c => nc'[d] = nc[d]
    <3>1. UNCHANGED <<setup, sending, sent>>
      BY <1>1
    <3> HIDE DEF c
    <3> QED
      BY <1>2, <2>3, <2>6, <3>1, OneConn
  <2>8. NetTypeOK'
    BY <1>1, <2>1, <2>2 DEF NetInv, NetTypeOK
  <2>9. WorkInv'
    BY <2>1, <2>7 DEF NetInv, WorkInv
  <2>10. conns \subseteq Conns /\ \A d \in Conns : Running(d) => d \in conns
    BY <1>7 DEF NetInv, CloseInv
  <2>11. conns' \subseteq Conns /\ \A d \in Conns : Running(d)' => d \in conns'
    <3>1. "nil" \notin Conns
      BY FreshNames
    <3> QED
      BY <3>1, <1>2, <1>7, <2>1, <2>10 DEF Running, Nil
  <2>12. CloseInv'
    <3>1. \A d \in Conns : agent'[d] = "panicked" => transport' = "ws"
      BY <1>1, <2>1 DEF NetInv, CloseInv, transport
    <3> QED
      BY <3>1, <1>1, <1>4, <1>7, <2>11 DEF CloseInv
  <2>13. \A d \in Conns : agent'[d] # "registered" /\ (d # c => Ended(d)')
    BY <1>4, <2>1 DEF Ended
  <2>14. ClientInv'
    BY <1>1, <1>2, <1>4, <2>1, <2>2, <2>13 DEF ClientInv
  <2> QED
    BY <1>5, <2>7, <2>8, <2>9, <2>12, <2>14 DEF NetInv
<1> QED
  BY <1>6, <1>7 DEF connect, IsClosed

LEMMA ReconnectStep ==
  ASSUME NetInv, reconnect
  PROVE  NetInv'
<1>1. /\ loop.pc = "run" /\ agent[loop.conn] = "done"
      /\ UNCHANGED <<setup, conns, mapClient, agent, nc, events, told, close, sending, sent>>
      /\ setup.role \in {"server", "client"}
  BY SetupFacts DEF reconnect, NetInv, NetTypeOK
<1>2. PICK again \in {"dial", "end"} : loop' = [pc |-> again, conn |-> None]
  BY DEF reconnect
<1>3. role = "client"
  BY <1>1 DEF NetInv, ServerInv, role
<1>4. loop'.pc = again /\ loop'.conn = None
      /\ loop' \in [pc : {"none", "dial", "dialled", "run", "end"}, conn : Conns \cup {None}]
  BY <1>2
<1>5. ConnInv'
  BY <1>1, SameConns
<1>6. NetTypeOK'
  BY <1>1, <1>4 DEF NetInv, NetTypeOK
<1>7. WorkInv'
  BY <1>1 DEF NetInv, WorkInv
<1>8. CloseInv'
  BY <1>1 DEF NetInv, CloseInv, Running, transport
<1>9. ServerInv'
  BY <1>1, <1>3 DEF ServerInv, role
<1>10. \A d \in Conns : agent[d] # "registered" /\ Ended(d)
  BY <1>1, <1>3 DEF NetInv, ClientInv, Ended
<1>11. mapClient = {} /\ close # "listener" /\ close # "done"
  BY <1>1, <1>3 DEF NetInv, ClientInv
<1>12. ClientInv'
  BY <1>1, <1>4, <1>10, <1>11 DEF ClientInv, Ended
<1> QED
  BY <1>5, <1>6, <1>7, <1>8, <1>9, <1>12 DEF NetInv

LEMMA ClientCloseStep ==
  ASSUME NetInv, ClientClose
  PROVE  NetInv'
<1>1. role = "client" /\ UNCHANGED <<setup, mapClient, agent, events, told, loop, sending, sent>>
  BY DEF ClientClose
<1>2. close' \in {"no", "listener", "wait", "done"} /\ close' \in {"wait", "done"}
  BY DEF ClientClose
<1>3. NetTypeOK'
  BY <1>1, <1>2 DEF NetInv, NetTypeOK
<1>4. ServerInv'
  BY <1>1 DEF ServerInv, role
<1>5. CASE /\ close = "no" /\ close' = "wait" /\ conns' = Nil
           /\ nc' = [c \in Conns |-> IF c \in conns THEN [nc[c] EXCEPT !.sock = "shut"] ELSE nc[c]]
  <2>1. /\ ConnInv'
        /\ \A c \in Conns : /\ nc'[c].writer = nc[c].writer /\ (c \in conns => nc'[c].sock = "shut")
                            /\ (c \notin conns => nc'[c] = nc[c])
    BY <1>1, <1>5, SocketsShut
  <2>2. WorkInv'
    BY <1>1, <2>1 DEF NetInv, WorkInv
  <2>3. CloseInv'
    BY <1>1, <1>5, <2>1 DEF NetInv, CloseInv, Running, transport
  <2>4. ClientInv'
    BY <1>1, <1>5 DEF NetInv, ClientInv, role, Ended
  <2> QED
    BY <1>3, <1>4, <2>1, <2>2, <2>3, <2>4 DEF NetInv
<1>6. CASE close = "wait" /\ loop.pc = "end" /\ close' = "done" /\ conns' = conns /\ nc' = nc
  <2>1. ConnInv'
    BY <1>1, <1>6, SameConns
  <2>2. WorkInv'
    BY <1>1, <1>6 DEF NetInv, WorkInv
  <2>3. CloseInv'
    BY <1>1, <1>6 DEF NetInv, CloseInv, Running, transport
  <2>4. ClientInv'
    BY <1>1, <1>6 DEF NetInv, ClientInv, role, Ended
  <2> QED
    BY <1>3, <1>4, <2>1, <2>2, <2>3, <2>4 DEF NetInv
<1> QED
  BY <1>5, <1>6 DEF ClientClose

LEMMA NetPreserved == NetInv /\ [NetNext]_netVars => NetInv'
<1> SUFFICES ASSUME NetInv, [NetNext]_netVars PROVE NetInv'
  OBVIOUS
<1>1. ASSUME NEW c \in Conns, AgentStep(c) PROVE NetInv'
  BY <1>1, RegisterStep, NewAgentStep, AgentRunStep, WSRunPanicsStep, CleanupStep, DeleteConnStep, OnCloseStep
     DEF AgentStep, TCPRegister, WSRegister, KCPRegister, TcpNewClient, NewWSClient, KcpNewClient,
         TcpRun, WSRun, KcpRun, TcpOnClose, WSOnClose, KcpOnClose
<1>2. ASSUME NEW c \in Conns, UserStep(c) PROVE NetInv'
  BY <1>2, SendMsgStep, CloseClientStep
     DEF UserStep, TcpSendMsg, WSSendMsg, KcpSendMsg, TcpCloseClient, WSCloseClient, KcpCloseClient
<1>3. CASE ServiceStep
  BY <1>3, EventHandlerStep DEF ServiceStep, tcpEventHandler, wsEventHandler, kcpEventHandler
<1>4. CASE CloseStep
  BY <1>4, ServerCloseStep DEF CloseStep, TCPServerClose, WSServerClose, KCPServerClose
<1>5. CASE TCPConnect \/ WSConnect \/ KCPConnect
  BY <1>5, DialStep, ConnectStep, ReconnectStep, ClientCloseStep DEF TCPConnect, WSConnect, KCPConnect
<1>6. CASE UNCHANGED netVars
  <2>1. /\ UNCHANGED <<setup, conns, mapClient, agent, nc, close, loop, sending, sent>>
        /\ sending \in Conns \cup {None} /\ sent \in [out : 0..setup.sends, in : Nat]
        /\ \A d \in Conns : Keeps(nc[d], nc'[d])
    BY <1>6 DEF netVars, NetInv, NetTypeOK, Keeps
  <2>2. ConnInv'
    BY <2>1, SameConns
  <2> QED
    BY <2>1, <2>2, ConnStep
<1> QED
  BY <1>1, <1>2, <1>3, <1>4, <1>5, <1>6, AcceptStep, WriterStep, PeerGoneStep DEF NetNext

LEMMA NetInvariant == NetSpec => []NetInv
BY NetInitial, NetPreserved, PTL DEF NetSpec

\* A connection that was destroyed, and not flushed: it stays so, and every nil in
\* the byte pool comes from one.
Destroyed(n) == n.chanClosed /\ n.closeFlag /\ ~n.fin
PoolInv == nils \subseteq Conns /\ \A c \in nils : transport # "ws" /\ Destroyed(nc[c])

LEMMA WriterLeavesDestroyed ==
  ASSUME NEW S \in Nat, NEW n \in NetConns(S), Destroyed(n), NEW m,
         \/ m = WriterTakes(n)
         \/ \E ok \in BOOLEAN : m = WriterWrites(n, ok)
         \/ m = [n EXCEPT !.sock = "shut", !.writer = "free"]
         \/ m = freeChannel(n)
  PROVE  Destroyed(m)
<1>1. CASE m = WriterTakes(n)
  BY <1>1 DEF WriterTakes, NetConns, Destroyed
<1>2. ASSUME NEW ok \in BOOLEAN, m = WriterWrites(n, ok) PROVE Destroyed(m)
  BY <1>2 DEF WriterWrites, Release, NetConns, Destroyed
<1>3. CASE m = freeChannel(n)
  BY <1>3 DEF freeChannel, Release, NetConns, Destroyed
<1>4. CASE m = [n EXCEPT !.sock = "shut", !.writer = "free"]
  BY <1>4 DEF NetConns, Destroyed
<1> QED
  BY <1>1, <1>2, <1>3, <1>4

LEMMA UsersLeaveDestroyed ==
  ASSUME NEW S \in Nat, NEW n \in NetConns(S), Destroyed(n)
  PROVE  /\ Destroyed(ConnClose(n)) /\ \A x : Destroyed([n EXCEPT !.sock = x]) /\ Destroyed(newNetConn(n))
         /\ \A b : \A m \in MsgParserWrite(n, b) : Destroyed(m)
<1>1. Destroyed(ConnClose(n))
  BY DEF ConnClose, Destroyed
<1>2. \A x : Destroyed([n EXCEPT !.sock = x])
  BY DEF Destroyed, NetConns
<1>3. Destroyed(newNetConn(n))
  BY DEF Destroyed, NetConns, newNetConn
<1>4. ASSUME NEW b, NEW m \in MsgParserWrite(n, b) PROVE Destroyed(m)
  <2>1. m = n \/ m = Release(n, <<b>>)
    BY DEF MsgParserWrite, WSWriteMsg, ConnWrite, Destroyed
  <2> QED
    BY <2>1 DEF Release, Destroyed, NetConns
<1> QED
  BY <1>1, <1>2, <1>3, <1>4

LEMMA NilDestroys ==
  ASSUME NEW S \in Nat, NEW n \in NetConns(S), PutsNil(n)
  PROVE  Destroyed(ConnClose(n))
<1> DEFINE r == Release(n, <<Fin>>)
<1>1. r \in NetConns(S) /\ r.closeFlag = n.closeFlag
  <2>1. Fin \in 0..S /\ transport # "ws" /\ r = Release(n, <<Fin>>)
    BY DEF Fin, PutsNil
  <2> HIDE DEF r
  <2> QED
    BY <2>1, ReleaseOne
<1>2. ConnClose(n) = [doDestroy(r) EXCEPT !.closeFlag = TRUE, !.fin = FALSE]
  BY DEF PutsNil, ConnClose, doWrite
<1> HIDE DEF r
<1>3. doDestroy(r) = [r EXCEPT !.sock = "shut", !.chanClosed = TRUE, !.closeFlag = TRUE]
  BY <1>1 DEF doDestroy, PutsNil
<1> QED
  BY <1>1, <1>2, <1>3 DEF Destroyed, NetConns

\* What a step has to respect.
LEMMA PoolStep ==
  ASSUME PoolInv, setup' = setup, \A c \in Conns : Destroyed(nc[c]) => Destroyed(nc'[c]),
         nils' \subseteq nils \cup {c \in Conns : transport # "ws" /\ Destroyed(nc'[c])}
  PROVE  PoolInv'
<1>1. transport' = transport
  BY DEF transport
<1>2. ASSUME NEW c \in nils' PROVE c \in Conns /\ transport # "ws" /\ Destroyed(nc'[c])
  BY DEF PoolInv
<1>3. \A c \in nils' : (transport # "ws")' /\ Destroyed(nc'[c])
  BY <1>1, <1>2
<1> QED
  BY <1>2, <1>3 DEF PoolInv

LEMMA PoolPreserved == NetInv /\ PoolInv /\ [NetNext]_netVars => PoolInv'
<1> SUFFICES ASSUME NetInv, PoolInv, [NetNext]_netVars PROVE PoolInv'
  OBVIOUS
<1>1. setup.sends \in Nat
  BY SetupFacts DEF NetInv, NetTypeOK
<1>2. nc \in [Conns -> NetConns(setup.sends)]
  BY DEF NetInv, ConnInv, ConnsOK
<1>3. ASSUME NEW c \in Conns, NEW m, nc' = [nc EXCEPT ![c] = m], Destroyed(nc[c]) => Destroyed(m)
      PROVE  \A d \in Conns : Destroyed(nc[d]) => Destroyed(nc'[d])
  BY <1>2, <1>3
<1>4. ASSUME UNCHANGED nc PROVE \A d \in Conns : Destroyed(nc[d]) => Destroyed(nc'[d])
  BY <1>4
<1>5. ASSUME NEW D, nc' = [c \in Conns |-> IF c \in D THEN [nc[c] EXCEPT !.sock = "shut"] ELSE nc[c]]
      PROVE  \A d \in Conns : Destroyed(nc[d]) => Destroyed(nc'[d])
  <2> SUFFICES ASSUME NEW d \in Conns, Destroyed(nc[d]) PROVE Destroyed(nc'[d])
    OBVIOUS
  <2>1. nc'[d] = nc[d] \/ nc'[d] = [nc[d] EXCEPT !.sock = "shut"]
    BY <1>5
  <2> QED
    BY <1>1, <1>2, <2>1, UsersLeaveDestroyed
<1>6. ASSUME NEW c \in Conns, nc' = [nc EXCEPT ![c] = ConnClose(nc[c])], CloseRelease(c), setup' = setup
      PROVE  PoolInv'
  <2>1. \A d \in Conns : Destroyed(nc[d]) => Destroyed(nc'[d])
    BY <1>1, <1>2, <1>3, <1>6, UsersLeaveDestroyed
  <2>2. PutsNil(nc[c]) => transport # "ws" /\ Destroyed(nc'[c])
    <3> SUFFICES ASSUME PutsNil(nc[c]) PROVE transport # "ws" /\ Destroyed(nc'[c])
      OBVIOUS
    <3>1. nc'[c] = ConnClose(nc[c])
      BY <1>2, <1>6
    <3> QED
      BY <1>1, <1>2, <3>1, NilDestroys DEF PutsNil
  <2> QED
    BY <1>6, <2>1, <2>2, PoolStep DEF CloseRelease
<1>7. ASSUME NEW c \in Conns, Writer(c) PROVE PoolInv'
  <2>1. PICK m : /\ nc' = [nc EXCEPT ![c] = m]
                 /\ \/ m = WriterTakes(nc[c])
                    \/ \E ok \in BOOLEAN : m = WriterWrites(nc[c], ok)
                    \/ m = [nc[c] EXCEPT !.sock = "shut", !.writer = "free"]
                    \/ m = freeChannel(nc[c])
    BY <1>7 DEF Writer
  <2>2. Destroyed(nc[c]) => Destroyed(m)
    BY <1>1, <1>2, <2>1, WriterLeavesDestroyed
  <2> QED
    BY <1>3, <1>7, <2>1, <2>2, PoolStep DEF Writer
<1>8. ASSUME NEW c \in Conns, PeerGone(c) PROVE PoolInv'
  <2>1. PICK x : nc' = [nc EXCEPT ![c] = [nc[c] EXCEPT !.sock = x]]
    BY <1>2, <1>8 DEF PeerGone
  <2>2. Destroyed(nc[c]) => Destroyed([nc[c] EXCEPT !.sock = x])
    BY <1>1, <1>2, UsersLeaveDestroyed
  <2> QED
    BY <1>3, <1>8, <2>1, <2>2, PoolStep DEF PeerGone
<1>9. ASSUME NEW c \in Conns, AgentStep(c) PROVE PoolInv'
  <2>1. CASE Register(c)
    <3>1. CASE UNCHANGED nc
      BY <1>4, <2>1, <3>1, PoolStep DEF Register
    <3>2. CASE nc' = [nc EXCEPT ![c].sock = "shut"]
      <4>1. nc' = [nc EXCEPT ![c] = [nc[c] EXCEPT !.sock = "shut"]]
        BY <1>2, <3>2
      <4>2. Destroyed(nc[c]) => Destroyed([nc[c] EXCEPT !.sock = "shut"])
        BY <1>1, <1>2, UsersLeaveDestroyed
      <4> QED
        BY <1>3, <2>1, <4>1, <4>2, PoolStep DEF Register
    <3> QED
      BY <2>1, <3>1, <3>2 DEF Register
  <2>2. CASE NewAgent(c)
    <3>1. nc' = [nc EXCEPT ![c] = newNetConn(nc[c])]
      BY <1>2, <2>2 DEF NewAgent
    <3>2. Destroyed(nc[c]) => Destroyed(newNetConn(nc[c]))
      BY <1>1, <1>2, UsersLeaveDestroyed
    <3> QED
      BY <1>3, <2>2, <3>1, <3>2, PoolStep DEF NewAgent
  <2>3. CASE AgentRun(c)
    <3>1. nils' \subseteq nils /\ UNCHANGED <<setup, nc>>
      BY <2>3 DEF AgentRun, MakeBytesPanics
    <3> QED
      BY <1>4, <3>1, PoolStep
  <2>4. CASE WSRunPanics(c)
    BY <1>4, <2>4, PoolStep DEF WSRunPanics
  <2>5. CASE Cleanup(c)
    <3>1. CASE transport = "kcp" /\ role = "server"
      <4>1. nc' = [nc EXCEPT ![c] = [nc[c] EXCEPT !.sock = "shut"]] /\ UNCHANGED <<setup, nils>>
        BY <1>2, <2>5, <3>1 DEF Cleanup, Cleaned
      <4>2. Destroyed(nc[c]) => Destroyed([nc[c] EXCEPT !.sock = "shut"])
        BY <1>1, <1>2, UsersLeaveDestroyed
      <4> QED
        BY <1>3, <4>1, <4>2, PoolStep
    <3>2. CASE ~(transport = "kcp" /\ role = "server")
      <4>1. nc' = [nc EXCEPT ![c] = ConnClose(nc[c])] /\ CloseRelease(c) /\ setup' = setup
        BY <1>2, <2>5, <3>2 DEF Cleanup, Cleaned
      <4> QED
        BY <1>6, <4>1
    <3> QED
      BY <3>1, <3>2
  <2>6. CASE DeleteConn(c)
    BY <1>4, <2>6, PoolStep DEF DeleteConn
  <2>7. CASE OnClose(c)
    BY <1>4, <2>7, PoolStep DEF OnClose
  <2> QED
    BY <1>9, <2>1, <2>2, <2>3, <2>4, <2>5, <2>6, <2>7
       DEF AgentStep, TCPRegister, WSRegister, KCPRegister, TcpNewClient, NewWSClient, KcpNewClient,
           TcpRun, WSRun, KcpRun, TcpOnClose, WSOnClose, KcpOnClose
<1>10. ASSUME NEW c \in Conns, UserStep(c) PROVE PoolInv'
  <2>1. CASE SendMsg(c)
    <3>1. CASE UNCHANGED nc
      <4>1. nils' \subseteq nils /\ UNCHANGED setup
        BY <2>1 DEF SendMsg, MakeBytesPanics
      <4> QED
        BY <1>4, <3>1, <4>1, PoolStep
    <3>2. CASE UNCHANGED nils /\ \E n \in MsgParserWrite(nc[c], sent.out) : nc' = [nc EXCEPT ![c] = n]
      <4>1. PICK m \in MsgParserWrite(nc[c], sent.out) : nc' = [nc EXCEPT ![c] = m]
        BY <3>2
      <4>2. Destroyed(nc[c]) => Destroyed(m)
        BY <1>1, <1>2, UsersLeaveDestroyed
      <4> QED
        BY <1>3, <2>1, <3>2, <4>1, <4>2, PoolStep DEF SendMsg
    <3> QED
      BY <2>1, <3>1, <3>2 DEF SendMsg
  <2>2. CASE CloseClient(c)
    <3>1. nc' = [nc EXCEPT ![c] = ConnClose(nc[c])] /\ CloseRelease(c) /\ setup' = setup
      BY <1>2, <2>2 DEF CloseClient
    <3> QED
      BY <1>6, <3>1
  <2> QED
    BY <1>10, <2>1, <2>2
       DEF UserStep, TcpSendMsg, WSSendMsg, KcpSendMsg, TcpCloseClient, WSCloseClient, KcpCloseClient
<1>11. CASE ServiceStep
  BY <1>4, <1>11, PoolStep
     DEF ServiceStep, tcpEventHandler, wsEventHandler, kcpEventHandler, EventHandler
<1>12. CASE CloseStep
  <2>1. UNCHANGED <<setup, nils>>
    BY <1>12 DEF CloseStep, TCPServerClose, WSServerClose, KCPServerClose, ServerClose
  <2>2. \/ UNCHANGED nc
        \/ nc' = [c \in Conns |-> IF c \in conns THEN [nc[c] EXCEPT !.sock = "shut"] ELSE nc[c]]
    BY <1>12 DEF CloseStep, TCPServerClose, WSServerClose, KCPServerClose, ServerClose
  <2> QED
    BY <1>4, <1>5, <2>1, <2>2, PoolStep
<1>13. CASE TCPConnect \/ WSConnect \/ KCPConnect
  <2>1. CASE dial \/ reconnect
    BY <1>4, <2>1, PoolStep DEF dial, reconnect
  <2>2. CASE ClientClose
    <3>1. /\ UNCHANGED <<setup, nils>>
          /\ \/ UNCHANGED nc
             \/ nc' = [c \in Conns |-> IF c \in conns THEN [nc[c] EXCEPT !.sock = "shut"] ELSE nc[c]]
      BY <2>2 DEF ClientClose
    <3> QED
      BY <1>4, <1>5, <3>1, PoolStep
  <2>3. CASE connect
    <3>1. loop.conn \in Conns
      <4>1. setup.role \in {"server", "client"} /\ loop.pc = "dialled"
        BY <2>3, SetupFacts DEF NetInv, NetTypeOK, connect
      <4> QED
        BY <4>1 DEF NetInv, ServerInv, ClientInv, role
    <3>2. PICK m : /\ nc' = [nc EXCEPT ![loop.conn] = m]
                   /\ m = newNetConn(nc[loop.conn]) \/ m = [nc[loop.conn] EXCEPT !.sock = "shut"]
      <4>1. CASE nc' = [nc EXCEPT ![loop.conn].sock = "shut"]
        BY <1>2, <3>1, <4>1
      <4>2. CASE nc' = [nc EXCEPT ![loop.conn] = newNetConn(@)]
        BY <1>2, <3>1, <4>2
      <4> QED
        BY <2>3, <4>1, <4>2 DEF connect
    <3>3. Destroyed(nc[loop.conn]) => Destroyed(m)
      <4>1. nc[loop.conn] \in NetConns(setup.sends)
        BY <1>2, <3>1
      <4> DEFINE n == nc[loop.conn]
      <4> HIDE DEF n
      <4>2. Destroyed(n) => Destroyed(newNetConn(n)) /\ Destroyed([n EXCEPT !.sock = "shut"])
        BY <1>1, <4>1, UsersLeaveDestroyed DEF n
      <4> QED
        BY <3>2, <4>2 DEF n
    <3> QED
      BY <1>3, <2>3, <3>1, <3>2, <3>3, PoolStep DEF connect
  <2> QED
    BY <1>13, <2>1, <2>2, <2>3 DEF TCPConnect, WSConnect, KCPConnect
<1>14. CASE UNCHANGED netVars
  BY <1>4, <1>14, PoolStep DEF netVars
<1>15. ASSUME NEW c \in Conns, Accept(c) PROVE PoolInv'
  BY <1>4, <1>15, PoolStep DEF Accept
<1> QED
  BY <1>7, <1>8, <1>9, <1>10, <1>11, <1>12, <1>13, <1>14, <1>15 DEF NetNext

LEMMA PoolInvariant == NetSpec => []PoolInv
<1>1. NetInit => PoolInv
  BY DEF NetInit, PoolInv
<1> QED
  BY <1>1, NetInvariant, PoolPreserved, PTL DEF NetSpec
-----------------------------------------------------------------------------
(* Close of a server or a client leaves no connection behind: from the     *)
(* moment it has closed the sockets of conns no agent runs on an open one, *)
(* whichever accept, dial or registration it met half way, and no socket   *)
(* of a WebSocket agent that panicked is left open; when it has returned   *)
(* no agent runs and the module has no client but those of such agents.    *)
THEOREM CloseLeavesNothing == NetSpec => []CloseIsClean
<1>1. NetInv => CloseIsClean
  <2> SUFFICES ASSUME NetInv PROVE CloseIsClean
    OBVIOUS
  <2>1. close \in {"wait", "done"} =>
          \A c \in Conns : agent[c] \in {"registered", "start", "read", "panicked"} => nc[c].sock = "shut"
    BY DEF NetInv, CloseInv, Running, transport
  <2>2. ASSUME close = "done" PROVE \A c \in Conns : Ended(c) \/ agent[c] = "accepted"
    <3>1. role \in {"server", "client"}
      BY SetupFacts DEF NetInv, NetTypeOK, role
    <3>2. CASE role = "server"
      BY <2>2, <3>2 DEF NetInv, ServerInv
    <3>3. CASE role = "client"
      BY <2>2, <3>3, FreshNames DEF NetInv, ClientInv
    <3> QED
      BY <3>1, <3>2, <3>3
  <2>3. ASSUME close = "done" PROVE \A c \in mapClient : transport = "ws" /\ agent[c] = "panicked"
    BY <2>2, <2>3 DEF NetInv, NetTypeOK, CloseInv, Ended
  <2> QED
    BY <2>1, <2>2, <2>3 DEF CloseIsClean
<1> QED
  BY <1>1, NetInvariant, PTL

(* A pooled buffer goes back to the byte pool once, whatever way Close,    *)
(* Destroy, WriteMsg and the writer goroutine interleave: never twice, and *)
(* every accepted one has gone back when the writer goroutine has ended.   *)
(* A nil slice in the pool comes from a Close that found the channel full. *)
THEOREM BuffersReturnOnce == NetSpec => []BuffersOnce
<1>1. NetInv /\ PoolInv => BuffersOnce
  <2>0. PoolInv => \A c \in nils : transport # "ws" /\ nc[c].chanClosed /\ ~nc[c].fin
    BY DEF PoolInv, Destroyed
  <2> SUFFICES ASSUME NetInv, NEW c \in Conns
               PROVE  /\ \A b \in DOMAIN nc[c].released : nc[c].released[b] <= 1
                      /\ nc[c].writer = "end" /\ transport # "ws" =>
                           \A i \in DOMAIN nc[c].accepted : nc[c].released[nc[c].accepted[i]] = 1
    BY <2>0 DEF BuffersOnce
  <2> DEFINE n == nc[c]
  <2>1. /\ ConnOK(n, Given, setup.sends, transport # "ws") /\ n \in NetConns(setup.sends)
        /\ setup.sends \in Nat
    BY ConnOf
  <2> HIDE DEF n
  <2>2. DOMAIN n.released = 1..setup.sends /\ DOMAIN n.accepted = 1..Len(n.accepted)
    BY <2>1, ConnFields
  <2>3. BufferOK(n, Given, setup.sends, transport # "ws")
    BY <2>1 DEF ConnOK
  <2>4. \A b \in DOMAIN n.released : n.released[b] <= 1
    BY <2>2, <2>3 DEF BufferOK
  <2>5. ASSUME n.writer = "end", transport # "ws", NEW i \in DOMAIN n.accepted
        PROVE  n.released[n.accepted[i]] = 1
    <3>1. i \in 1..Len(n.accepted) /\ Len(n.writeChan) = 0
      BY <2>2, <2>3, <2>5 DEF BufferOK
    <3>2. \A j \in 1..Len(n.writeChan) : FALSE
      BY <3>1
    <3> QED
      BY <2>3, <2>5, <3>1, <3>2 DEF BufferOK
  <2> QED
    BY <2>4, <2>5 DEF n
<1> QED
  BY <1>1, NetInvariant, PoolInvariant, PTL

(* Messages reach the socket in the order WriteMsg accepted them, and all  *)
(* of them do when Close's nil went through the channel and no write       *)
(* failed.                                                                 *)
THEOREM WritesInOrder == NetSpec => []FlushedInOrder
<1>1. NetInv => FlushedInOrder
  <2> SUFFICES ASSUME NetInv, NEW c \in Conns
               PROVE  /\ Len(nc[c].written) <= Len(nc[c].accepted)
                      /\ nc[c].written = SubSeq(nc[c].accepted, 1, Len(nc[c].written))
                      /\ nc[c].fin /\ nc[c].writer = "end" => nc[c].written = nc[c].accepted
    BY DEF FlushedInOrder
  <2> DEFINE n == nc[c]
             out == n.written
             acc == n.accepted
  <2>1. /\ ConnOK(n, Given, setup.sends, transport # "ws") /\ n \in NetConns(setup.sends)
        /\ setup.sends \in Nat
    BY ConnOf
  <2> HIDE DEF n
  <2>2. out \in Seq(1..setup.sends) /\ acc \in Seq(1..setup.sends) /\ Len(out) \in Nat /\ Len(acc) \in Nat
    BY <2>1, ConnFields
  <2>3. \A i \in 1..Len(out) : out[i] \in 1..setup.sends
    BY <2>1, ConnFields
  <2>4. Len(out) <= Len(acc) /\ \A i \in 1..Len(out) : out[i] = acc[i]
    BY <2>1 DEF ConnOK, OrderOK
  <2>5. n.fin /\ n.writer = "end" => Len(out) = Len(acc)
    BY <2>1 DEF ConnOK, OrderOK, Alive
  <2> HIDE DEF out, acc
  <2>6. out = SubSeq(acc, 1, Len(out))
    <3> DEFINE s == SubSeq(acc, 1, Len(out))
    <3>1. s \in Seq(1..setup.sends) /\ Len(s) = Len(out) /\ \A i \in 1..Len(out) : s[i] = acc[i]
      <4> DEFINE k == Len(out)
      <4>1. k \in Int /\ 1 \in Int /\ k >= 0
        BY <2>2
      <4>2. \A i \in 1..k : acc[i] \in 1..setup.sends
        BY <2>4, <2>3
      <4> HIDE DEF k
      <4>3. /\ SubSeq(acc, 1, k) \in Seq(1..setup.sends)
            /\ Len(SubSeq(acc, 1, k)) = (IF 1 <= k THEN k - 1 + 1 ELSE 0)
            /\ \A i \in 1..k - 1 + 1 : SubSeq(acc, 1, k)[i] = acc[1 + i - 1]
        BY <4>1, <4>2, SubSeqProperties
      <4>4. k - 1 + 1 = k /\ \A i \in 1..k : 1 + i - 1 = i
        BY <4>1
      <4>5. Len(SubSeq(acc, 1, k)) = k
        BY <4>1, <4>3
      <4> QED
        BY <4>3, <4>4, <4>5 DEF k
    <3> HIDE DEF s
    <3>2. out = s
      BY <2>2, <2>4, <3>1, SeqEqual
    <3> QED
      BY <3>2 DEF s
  <2>7. Len(out) = Len(acc) => out = acc
    BY <2>2, <2>4, SeqEqual
  <2> QED
    BY <2>4, <2>5, <2>6, <2>7 DEF n, out, acc
<1> QED
  BY <1>1, NetInvariant, PTL
=============================================================================
