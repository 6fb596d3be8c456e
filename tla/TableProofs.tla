--------------------------- MODULE TableProofs ----------------------------
(***************************************************************************)
(* Proofs about tables that are kept in step with something else, for      *)
(* every number of nodes, services, networks, keys and failures: what a    *)
(* node knows of etcd, the tables of its cluster, and a leaderboard with   *)
(* the collection it is saved in.                                          *)
(***************************************************************************)
EXTENDS EtcdDiscovery, Cluster, Rank, SequenceTheorems, WellFoundedInduction, TLAPS

(***************************************************************************)
(* What a node knows of etcd.                                              *)
(*                                                                         *)
(* A node that follows the keys of etcd sees in the end of every           *)
(* commotion what etcd has, although several watchers of a key may run at  *)
(* a time, tell what others told before, and end with changes unread.  At  *)
(* any time one of four things holds for another node: a watcher of its    *)
(* key has its snapshot still before it, or has a change of the node       *)
(* unread, or is to be started again, or the last thing that the service   *)
(* was told of the node, which may be what its tables hold, is true.       *)
(***************************************************************************)

Infos == {"none", "up", "retired"}
Changes == [node : Nodes, info : Infos]
WatcherType ==
  [pc : {"free", "start", "get", "loop"}, key : Keys, cli : Clients, buf : Seq(Changes)]
EventType ==
  [typ : {"gets"}, key : Keys, kvs : [Nodes -> Infos]] \cup
  [typ : {"put", "delete"}, key : Keys, node : Nodes, info : Infos]

EtcdTypeOK ==
  /\ DOMAIN store = Nodes /\ \A n \in Nodes : store[n].info \in Infos
  /\ watchers \in [Ws -> WatcherType] /\ chanEvent \in Seq(EventType)
  /\ view \in [Nodes -> Infos] /\ known \in [Keys -> SUBSET Nodes]
  /\ timers \in [Clients -> Nat]

\* The positions of the changes of n in what etcd has for a watcher, and whether
\* the last of them is v.
About(buf, n) == {i \in 1..Len(buf) : buf[i].node = n}
Fresh(buf, n, v) ==
  \A i \in About(buf, n) : (\A j \in About(buf, n) : j <= i) => buf[i].info = v

\* The positions of the events that tell of n, what one tells, and whether n will
\* be v when all are handled and it is old now.
Tells(e, n) == e.key = Networks[n] /\ (e.typ = "gets" \/ e.node = n)
Telling(q, n) == {i \in 1..Len(q) : Tells(q[i], n)}
Value(e, n) == IF e.typ = "gets" THEN e.kvs[n] ELSE e.info
Settled(q, n, old, v) ==
  \/ Telling(q, n) = {} /\ old = v
  \/ \E i \in Telling(q, n) : Value(q[i], n) = v /\ \A j \in Telling(q, n) : j <= i

WatcherOK(w) ==
  /\ watchers[w].pc # "free" => watchers[w].key \in watchKeys[watchers[w].cli]
  /\ watchers[w].pc = "start" => Len(watchers[w].buf) = 0
  /\ \A i \in 1..Len(watchers[w].buf) : Networks[watchers[w].buf[i].node] = watchers[w].key
  /\ watchers[w].pc \in {"get", "loop"} =>
       \A n \in Nodes : Networks[n] = watchers[w].key => Fresh(watchers[w].buf, n, store[n].info)

EventOK(e) ==
  /\ e.typ = "gets" => \A n \in Nodes : Networks[n] # e.key => e.kvs[n] = "none"
  /\ e.typ # "gets" => e.key = Networks[e.node] /\ (e.typ = "delete" <=> e.info = "none")

\* A client that watches k is about to start watchers.
Due(k) == \E c \in Clients : k \in watchKeys[c] /\ timers[c] > 0

WatchersInv == \A w \in Ws : WatcherOK(w)
EventsInv == \A i \in 1..Len(chanEvent) : EventOK(chanEvent[i])
KnownInv ==
  /\ \A k \in Keys : \A n \in known[k] : Networks[n] = k
  /\ \A n \in Others : view[n] # "none" => n \in known[Networks[n]]
FollowedInv == \A k \in Keys : Active(k) # {} \/ Due(k)

Starting(n) == \E w \in Active(Networks[n]) : watchers[w].pc \in {"start", "get"}
Unread(n) == \E w \in Active(Networks[n]) : About(watchers[w].buf, n) # {}
Informed(n) ==
  \/ Starting(n) \/ Unread(n) \/ Due(Networks[n])
  \/ Settled(chanEvent, n, view[n], store[n].info)
InformedInv == \A n \in Others : Informed(n)

EtcdInv ==
  EtcdTypeOK /\ WatchersInv /\ EventsInv /\ KnownInv /\ FollowedInv /\ InformedInv

-----------------------------------------------------------------------------
(* Sequences of changes and of events. *)

LEMMA ChangeAdded ==
  ASSUME NEW buf \in Seq(Changes), NEW e \in Changes, NEW n, NEW v
  PROVE  /\ Append(buf, e) \in Seq(Changes)
         /\ About(buf, n) # {} => About(Append(buf, e), n) # {}
         /\ e.node # n /\ Fresh(buf, n, v) => Fresh(Append(buf, e), n, v)
         /\ e.node = n => About(Append(buf, e), n) # {} /\ Fresh(Append(buf, e), n, e.info)
<1> DEFINE b == Append(buf, e)
<1>1. /\ b \in Seq(Changes) /\ Len(b) = Len(buf) + 1 /\ Len(buf) \in Nat
      /\ b[Len(buf) + 1] = e /\ \A i \in 1..Len(buf) : b[i] = buf[i]
  OBVIOUS
<1> HIDE DEF b
<1>2. About(buf, n) \subseteq About(b, n)
  BY <1>1 DEF About
<1>3. ASSUME e.node # n PROVE About(b, n) = About(buf, n)
  BY <1>1, <1>3 DEF About
<1>4. ASSUME e.node # n, Fresh(buf, n, v) PROVE Fresh(b, n, v)
  <2>1. About(b, n) = About(buf, n)
    BY <1>3, <1>4
  <2>2. \A i \in About(buf, n) : b[i] = buf[i]
    BY <1>1 DEF About
  <2> QED  BY <1>4, <2>1, <2>2 DEF Fresh
<1>5. ASSUME e.node = n PROVE About(b, n) # {} /\ Fresh(b, n, e.info)
  <2>1. Len(buf) + 1 \in About(b, n)
    BY <1>1, <1>5 DEF About
  <2>2. \A i \in About(b, n) : i \in 1..(Len(buf) + 1)
    BY <1>1 DEF About
  <2>3. ASSUME NEW i \in About(b, n), \A j \in About(b, n) : j <= i
        PROVE  b[i].info = e.info
    <3>1. Len(buf) + 1 <= i
      BY <2>1, <2>3
    <3>2. i = Len(buf) + 1
      BY <1>1, <2>2, <3>1
    <3> QED  BY <1>1, <3>2
  <2> QED  BY <2>1, <2>3 DEF Fresh
<1> QED  BY <1>1, <1>2, <1>4, <1>5 DEF b

LEMMA ChangeRead ==
  ASSUME NEW buf \in Seq(Changes), Len(buf) # 0, NEW n, NEW v, Fresh(buf, n, v)
  PROVE  /\ Head(buf) \in Changes /\ Tail(buf) \in Seq(Changes)
         /\ Head(buf) = buf[1] /\ Len(Tail(buf)) = Len(buf) - 1
         /\ \A i \in 1..Len(Tail(buf)) : Tail(buf)[i] = buf[i + 1]
         /\ Fresh(Tail(buf), n, v)
         /\ Head(buf).node # n /\ About(buf, n) # {} => About(Tail(buf), n) # {}
         /\ Head(buf).node = n /\ About(Tail(buf), n) = {} => Head(buf).info = v
<1> DEFINE t == Tail(buf)
           h == Head(buf)
<1>0. buf # <<>> /\ Len(buf) \in Nat
  OBVIOUS
<1>1. /\ t \in Seq(Changes) /\ Len(t) = Len(buf) - 1
      /\ h = buf[1] /\ h \in Changes /\ \A i \in 1..Len(t) : t[i] = buf[i + 1]
  BY <1>0, HeadTailProperties
<1> HIDE DEF t, h
<1>2. \A i \in Int : i \in About(t, n) <=> i + 1 \in About(buf, n) /\ i >= 1
  <2> SUFFICES ASSUME NEW i \in Int
               PROVE  i \in About(t, n) <=> i + 1 \in About(buf, n) /\ i >= 1
    OBVIOUS
  <2>1. i \in 1..Len(t) <=> i + 1 \in 1..Len(buf) /\ i >= 1
    BY <1>0, <1>1
  <2>2. i \in 1..Len(t) => t[i] = buf[i + 1]
    BY <1>1
  <2> QED  BY <2>1, <2>2 DEF About
<1>3. About(buf, n) \subseteq Int /\ About(t, n) \subseteq Int
  BY <1>0, <1>1 DEF About
<1>4. Fresh(t, n, v)
  <2> SUFFICES ASSUME NEW i \in About(t, n), \A j \in About(t, n) : j <= i
               PROVE  t[i].info = v
    BY DEF Fresh
  <2>1. i \in 1..Len(t) /\ t[i] = buf[i + 1] /\ i + 1 \in About(buf, n)
    BY <1>1, <1>2, <1>3 DEF About
  <2>2. ASSUME NEW j \in About(buf, n) PROVE j <= i + 1
    <3>1. j \in Int /\ j >= 1 /\ i \in Int /\ i >= 1
      BY <1>0, <1>1, <2>1 DEF About
    <3>2. CASE j = 1
      BY <3>1, <3>2
    <3>3. CASE j # 1
      <4>1. j - 1 \in Int /\ (j - 1) + 1 = j /\ j - 1 >= 1
        BY <3>1, <3>3
      <4>2. j - 1 \in About(t, n)
        BY <1>2, <4>1
      <4> QED  BY <3>1, <4>2
    <3> QED  BY <3>2, <3>3
  <2> QED  BY <2>1, <2>2 DEF Fresh
<1>5. ASSUME h.node # n, About(buf, n) # {} PROVE About(t, n) # {}
  <2>1. PICK j \in About(buf, n) : TRUE
    BY <1>5
  <2>2. j \in 1..Len(buf) /\ j # 1
    BY <1>1, <1>5, <2>1 DEF About
  <2>3. j - 1 \in Int /\ (j - 1) + 1 = j /\ j - 1 >= 1
    BY <1>0, <2>2
  <2> QED  BY <1>2, <2>3
<1>6. ASSUME h.node = n, About(t, n) = {} PROVE h.info = v
  <2>1. 1 \in About(buf, n)
    BY <1>0, <1>1, <1>6 DEF About
  <2>2. ASSUME NEW j \in About(buf, n) PROVE j <= 1
    <3>1. j \in Int
      BY <1>3
    <3>2. CASE j > 1
      <4>1. j - 1 \in Int /\ (j - 1) + 1 = j /\ j - 1 >= 1
        BY <3>1, <3>2
      <4> QED  BY <1>2, <1>6, <4>1
    <3> QED  BY <3>1, <3>2
  <2> QED  BY <1>1, <2>1, <2>2 DEF Fresh
<1> QED  BY <1>1, <1>4, <1>5, <1>6 DEF t, h

LEMMA EventAdded ==
  ASSUME NEW q \in Seq(EventType), NEW e \in EventType, NEW n, NEW old, NEW v
  PROVE  /\ Append(q, e) \in Seq(EventType)
         /\ Tells(e, n) /\ Value(e, n) = v => Settled(Append(q, e), n, old, v)
         /\ ~Tells(e, n) /\ Settled(q, n, old, v) => Settled(Append(q, e), n, old, v)
<1> DEFINE r == Append(q, e)
<1>1. /\ r \in Seq(EventType) /\ Len(r) = Len(q) + 1 /\ Len(q) \in Nat
      /\ r[Len(q) + 1] = e /\ \A i \in 1..Len(q) : r[i] = q[i]
  OBVIOUS
<1> HIDE DEF r
<1>2. ASSUME Tells(e, n), Value(e, n) = v PROVE Settled(r, n, old, v)
  <2>1. Len(q) + 1 \in Telling(r, n)
    BY <1>1, <1>2 DEF Telling
  <2>2. \A j \in Telling(r, n) : j <= Len(q) + 1
    BY <1>1 DEF Telling
  <2> QED  BY <1>1, <1>2, <2>1, <2>2 DEF Settled
<1>3. ASSUME ~Tells(e, n), Settled(q, n, old, v) PROVE Settled(r, n, old, v)
  <2>1. Telling(r, n) = Telling(q, n)
    BY <1>1, <1>3 DEF Telling
  <2>2. \A i \in Telling(q, n) : r[i] = q[i]
    BY <1>1 DEF Telling
  <2> QED  BY <1>3, <2>1, <2>2 DEF Settled
<1> QED  BY <1>1, <1>2, <1>3 DEF r

LEMMA EventHandled ==
  ASSUME NEW q \in Seq(EventType), q # <<>>, NEW n, NEW old, NEW v, Settled(q, n, old, v)
  PROVE  /\ Head(q) \in EventType /\ Head(q) = q[1] /\ Tail(q) \in Seq(EventType)
         /\ Len(q) \in Nat /\ Len(q) > 0 /\ Len(Tail(q)) = Len(q) - 1
         /\ \A i \in 1..Len(Tail(q)) : Tail(q)[i] = q[i + 1]
         /\ Tells(Head(q), n) => Settled(Tail(q), n, Value(Head(q), n), v)
         /\ ~Tells(Head(q), n) => Settled(Tail(q), n, old, v)
<1> DEFINE t == Tail(q)
           h == Head(q)
<1>0. Len(q) \in Nat /\ Len(q) > 0
  OBVIOUS
<1>1. /\ t \in Seq(EventType) /\ Len(t) = Len(q) - 1
      /\ h = q[1] /\ h \in EventType /\ \A i \in 1..Len(t) : t[i] = q[i + 1]
  BY <1>0, HeadTailProperties
<1> HIDE DEF t, h
<1>2. \A i \in Int : i \in Telling(t, n) <=> i + 1 \in Telling(q, n) /\ i >= 1
  <2> SUFFICES ASSUME NEW i \in Int
               PROVE  i \in Telling(t, n) <=> i + 1 \in Telling(q, n) /\ i >= 1
    OBVIOUS
  <2>1. i \in 1..Len(t) <=> i + 1 \in 1..Len(q) /\ i >= 1
    BY <1>0, <1>1
  <2>2. i \in 1..Len(t) => t[i] = q[i + 1]
    BY <1>1
  <2> QED  BY <2>1, <2>2 DEF Telling
<1>3. Telling(q, n) \subseteq Int /\ Telling(t, n) \subseteq Int /\ (1 \in Telling(q, n) <=> Tells(h, n))
  BY <1>0, <1>1 DEF Telling
<1>4. ASSUME NEW i \in Telling(q, n), \A j \in Telling(q, n) : j <= i, i # 1,
             Value(q[i], n) = v, NEW o
      PROVE  Settled(t, n, o, v)
  <2>1. i \in 1..Len(q)
    BY DEF Telling
  <2>2. i - 1 \in Int /\ (i - 1) + 1 = i /\ i - 1 >= 1 /\ i - 1 \in 1..Len(t)
    BY <1>0, <1>1, <1>4, <2>1
  <2>3. i - 1 \in Telling(t, n) /\ t[i - 1] = q[i]
    BY <1>1, <1>2, <2>2
  <2>4. ASSUME NEW j \in Telling(t, n) PROVE j <= i - 1
    <3>1. j \in Int /\ j + 1 \in Telling(q, n)
      BY <1>2, <1>3
    <3>2. j + 1 <= i
      BY <1>4, <3>1
    <3> QED  BY <2>1, <3>1, <3>2
  <2> QED  BY <1>4, <2>3, <2>4 DEF Settled
<1>5. ASSUME Telling(q, n) \subseteq {1} PROVE Telling(t, n) = {}
  <2> SUFFICES ASSUME NEW i \in Telling(t, n) PROVE FALSE
    OBVIOUS
  <2>1. i \in Int /\ i + 1 \in Telling(q, n) /\ i >= 1
    BY <1>2, <1>3
  <2> QED  BY <1>5, <2>1
<1>6. ASSUME Tells(h, n) PROVE Settled(t, n, Value(h, n), v)
  <2>1. 1 \in Telling(q, n)
    BY <1>3, <1>6
  <2>2. PICK i \in Telling(q, n) : Value(q[i], n) = v /\ \A j \in Telling(q, n) : j <= i
    BY <2>1 DEF Settled
  <2>3. CASE i = 1
    <3>1. Telling(q, n) \subseteq {1}
      <4> SUFFICES ASSUME NEW j \in Telling(q, n) PROVE j = 1
        OBVIOUS
      <4>1. j \in 1..Len(q) /\ j <= 1
        BY <2>2, <2>3 DEF Telling
      <4> QED  BY <1>0, <4>1
    <3>2. Value(h, n) = v
      BY <1>1, <2>2, <2>3
    <3> QED  BY <1>5, <3>1, <3>2 DEF Settled
  <2>4. CASE i # 1
    BY <1>4, <2>2, <2>4
  <2> QED  BY <2>3, <2>4
<1>7. ASSUME ~Tells(h, n) PROVE Settled(t, n, old, v)
  <2>1. 1 \notin Telling(q, n)
    BY <1>3, <1>7
  <2>2. CASE Telling(q, n) = {} /\ old = v
    BY <1>5, <2>2 DEF Settled
  <2>3. CASE \E i \in Telling(q, n) : Value(q[i], n) = v /\ \A j \in Telling(q, n) : j <= i
    BY <1>4, <2>1, <2>3
  <2> QED  BY <2>2, <2>3 DEF Settled
<1> QED  BY <1>0, <1>1, <1>6, <1>7 DEF t, h
-----------------------------------------------------------------------------
(* Etcd discovery. *)

LEMMA EtcdConstants ==
  /\ Networks \in [Nodes -> Keys] /\ NoWatcher \in WatcherType /\ NoWatcher.pc = "free"
  /\ NoWatcher.buf = <<>> /\ Len(NoWatcher.buf) = 0
  /\ \A c \in Clients : \A k \in watchKeys[c] : k \in Keys
  /\ \A k \in Keys : \E c \in Clients : k \in watchKeys[c]
<1>1. Networks \in [Nodes -> Keys] /\ Me \in Nodes
  BY EtcdAssumption
<1>2. /\ \A c \in Clients : \A k \in watchKeys[c] : k \in Keys
      /\ \A k \in Keys : \E c \in Clients : k \in watchKeys[c]
  BY DEF Keys
<1>3. (CHOOSE k \in Keys : TRUE) \in Keys /\ (CHOOSE c \in Clients : TRUE) \in Clients
  <2>1. PICK k \in Keys : TRUE
    BY <1>1
  <2>2. PICK c \in Clients : TRUE
    BY <1>2, <2>1
  <2> QED  BY <2>1, <2>2
<1>4. << >> \in Seq(Changes) /\ Len(<< >>) = 0
  OBVIOUS
<1>5. NoWatcher \in WatcherType /\ NoWatcher.pc = "free" /\ NoWatcher.buf = << >>
  BY <1>3, <1>4 DEF NoWatcher, WatcherType
<1> QED  BY <1>1, <1>2, <1>4, <1>5

LEMMA EtcdStarts == EtcdInit => EtcdInv
<1> SUFFICES ASSUME EtcdInit PROVE EtcdInv
  OBVIOUS
<1>1. EtcdTypeOK
  <2>1. store = [n \in Nodes |-> NoKey] /\ NoKey.info = "none"
    BY DEF EtcdInit, NoKey
  <2>2. watchers \in [Ws -> WatcherType]
    BY EtcdConstants DEF EtcdInit
  <2>3. chanEvent \in Seq(EventType)
    BY DEF EtcdInit
  <2>4. view \in [Nodes -> Infos] /\ known \in [Keys -> SUBSET Nodes] /\ timers \in [Clients -> Nat]
    BY DEF EtcdInit, Infos
  <2> QED  BY <2>1, <2>2, <2>3, <2>4 DEF EtcdTypeOK, Infos
<1>2. WatchersInv
  <2>1. \A w \in Ws : watchers[w] = NoWatcher
    BY DEF EtcdInit
  <2>2. \A w \in Ws : watchers[w].pc = "free" /\ Len(watchers[w].buf) = 0
    BY <2>1, EtcdConstants
  <2> QED  BY <2>2 DEF WatchersInv, WatcherOK
<1>3. EventsInv
  BY DEF EtcdInit, EventsInv
<1>4. KnownInv
  BY DEF EtcdInit, KnownInv, Others
<1>5. \A k \in Keys : Due(k)
  BY EtcdConstants DEF EtcdInit, Due
<1>6. FollowedInv /\ InformedInv
  BY <1>5, EtcdConstants DEF FollowedInv, InformedInv, Informed, Others
<1> QED  BY <1>1, <1>2, <1>3, <1>4, <1>6 DEF EtcdInv

\* What a step of a node or of etcd can do to what Me follows: one key changes.
LEMMA NodeStepChanges ==
  ASSUME NEW n \in Nodes,
         \/ OnStart(n) \/ Grant(n) \/ PutKey(n) \/ KeepAlive(n) \/ KeepAliveEnds(n)
         \/ OnRetire(n) \/ tryLaterRetire(n) \/ OnRelease(n) \/ Crash(n)
         \/ \E l \in Leases : Expire(n, l)
  PROVE  UNCHANGED myState /\ (NoChange \/ \E v : v.info \in Infos /\ Change(n, v))
<1> DEFINE Changed == \E v : v.info \in Infos /\ Change(n, v)
<1>1. ASSUME NEW info \in Infos, Put(n, info) PROVE Changed
  <2>1. Change(n, [info |-> info, lease |-> leaseID[n]])
    BY <1>1 DEF Put
  <2>2. [info |-> info, lease |-> leaseID[n]].info \in Infos
    OBVIOUS
  <2> QED  BY <2>1, <2>2
<1>2. ASSUME NEW l, Ends(n, l) PROVE NoChange \/ Changed
  <2>1. NoKey.info \in Infos
    BY DEF NoKey, Infos
  <2> QED  BY <1>2, <2>1 DEF Ends
<1>3. ASSUME retire(n) PROVE NoChange \/ Changed
  <2>1. "retired" \in Infos
    BY DEF Infos
  <2> QED  BY <1>1, <1>3, <2>1 DEF retire
<1> HIDE DEF Changed
<1>4. CASE OnStart(n) \/ Grant(n) \/ KeepAlive(n) \/ KeepAliveEnds(n)
  BY <1>4 DEF OnStart, Grant, KeepAlive, KeepAliveEnds, NoChange, etcdState, myState
<1>5. CASE PutKey(n)
  <2>1. Info(n) \in Infos
    BY DEF Info, Infos
  <2> QED  BY <1>1, <1>5, <2>1 DEF PutKey, Changed
<1>6. CASE OnRetire(n) \/ tryLaterRetire(n)
  BY <1>3, <1>6 DEF OnRetire, tryLaterRetire, Changed
<1>7. CASE OnRelease(n)
  BY <1>2, <1>7 DEF OnRelease, Stops, close, Changed
<1>8. CASE Crash(n)
  BY <1>8 DEF Crash, Stops
<1>9. CASE \E l \in Leases : Expire(n, l)
  BY <1>2, <1>9 DEF Expire, Changed
<1> QED  BY <1>4, <1>5, <1>6, <1>7, <1>8, <1>9

\* A key changes: every watch has the change, unread.
LEMMA ChangeKeeps ==
  ASSUME EtcdInv, NEW n \in Nodes, NEW v, v.info \in Infos, Change(n, v), UNCHANGED myState
  PROVE  EtcdInv'
<1> USE DEF EtcdInv
<1>1. UNCHANGED <<timers, chanEvent, view, known>>
  BY DEF myState
<1> DEFINE e == [node |-> n, info |-> v.info]
<1>2. e \in Changes /\ e.node = n /\ e.info = v.info
  BY DEF Changes
<1>3. /\ DOMAIN store' = Nodes /\ store'[n] = v
      /\ \A m \in Nodes : m # n => store'[m] = store[m]
  BY DEF EtcdTypeOK, Change
<1> HIDE DEF e
<1>4. ASSUME NEW w \in Ws
      PROVE  /\ watchers'[w].pc = watchers[w].pc /\ watchers'[w].key = watchers[w].key
             /\ watchers'[w].cli = watchers[w].cli /\ watchers'[w] \in WatcherType
             /\ watchers'[w].buf = IF Watched(w, n) THEN Append(watchers[w].buf, e) ELSE watchers[w].buf
  <2>1. watchers[w] \in WatcherType
    BY DEF EtcdTypeOK
  <2>2. Append(watchers[w].buf, e) \in Seq(Changes)
    BY <1>2, <2>1 DEF WatcherType
  <2>3. watchers'[w] = IF Watched(w, n)
                       THEN [watchers[w] EXCEPT !.buf = Append(watchers[w].buf, e)]
                       ELSE watchers[w]
    BY DEF Change, e
  <2> QED  BY <2>1, <2>2, <2>3 DEF WatcherType
<1>5. EtcdTypeOK'
  <2>1. watchers' = [w \in Ws |-> watchers'[w]]
    BY DEF Change
  <2>2. watchers' \in [Ws -> WatcherType]
    BY <1>4, <2>1
  <2> QED  BY <1>1, <1>3, <2>2 DEF EtcdTypeOK
<1>6. ASSUME NEW w \in Ws, WatcherOK(w) PROVE WatcherOK(w)'
  <2>1. watchers[w].buf \in Seq(Changes)
    BY DEF EtcdTypeOK, WatcherType
  <2>2. CASE Watched(w, n)
    <3>1. /\ watchers[w].pc \in {"get", "loop"} /\ watchers[w].key = Networks[n]
          /\ watchers'[w].buf = Append(watchers[w].buf, e)
      BY <1>4, <2>2 DEF Watched
    <3>2. \A i \in 1..Len(watchers'[w].buf) : Networks[watchers'[w].buf[i].node] = watchers'[w].key
      <4>1. /\ Len(watchers'[w].buf) = Len(watchers[w].buf) + 1 /\ Len(watchers[w].buf) \in Nat
            /\ watchers'[w].buf[Len(watchers[w].buf) + 1] = e
            /\ \A i \in 1..Len(watchers[w].buf) : watchers'[w].buf[i] = watchers[w].buf[i]
        BY <2>1, <3>1
      <4>2. \A i \in 1..Len(watchers[w].buf) : Networks[watchers[w].buf[i].node] = watchers[w].key
        BY <1>6 DEF WatcherOK
      <4> TAKE i \in 1..Len(watchers'[w].buf)
      <4>3. i = Len(watchers[w].buf) + 1 \/ i \in 1..Len(watchers[w].buf)
        BY <4>1
      <4> QED  BY <1>2, <1>4, <3>1, <4>1, <4>2, <4>3
    <3>3. ASSUME NEW m \in Nodes, Networks[m] = watchers[w].key
          PROVE  Fresh(watchers'[w].buf, m, store'[m].info)
      <4>1. Fresh(watchers[w].buf, m, store[m].info)
        BY <1>6, <3>1, <3>3 DEF WatcherOK
      <4>2. CASE m = n
        BY <1>2, <1>3, <2>1, <3>1, <4>2, ChangeAdded
      <4>3. CASE m # n
        BY <1>2, <1>3, <2>1, <3>1, <4>1, <4>3, ChangeAdded
      <4> QED  BY <4>2, <4>3
    <3>4. watchers'[w].pc # "start" /\ watchers'[w].key \in watchKeys[watchers'[w].cli]
      BY <1>4, <1>6, <3>1 DEF WatcherOK
    <3> QED  BY <1>4, <3>2, <3>3, <3>4 DEF WatcherOK
  <2>3. CASE ~Watched(w, n)
    <3>1. watchers'[w].buf = watchers[w].buf
      BY <1>4, <2>3
    <3>2. ASSUME NEW m \in Nodes, watchers[w].pc \in {"get", "loop"}, Networks[m] = watchers[w].key
          PROVE  store'[m] = store[m]
      BY <1>3, <2>3, <3>2 DEF Watched
    <3>3. /\ watchers'[w].pc = watchers[w].pc /\ watchers'[w].key = watchers[w].key
          /\ watchers'[w].cli = watchers[w].cli
      BY <1>4
    <3>4. watchers'[w].pc \in {"get", "loop"} =>
            \A m \in Nodes : Networks[m] = watchers'[w].key =>
              Fresh(watchers'[w].buf, m, store'[m].info)
      BY <1>6, <3>1, <3>2, <3>3 DEF WatcherOK
    <3> QED  BY <1>6, <3>1, <3>3, <3>4 DEF WatcherOK
  <2> QED  BY <2>2, <2>3
<1>7. WatchersInv'
  BY <1>6 DEF WatchersInv
<1>8. EventsInv' /\ KnownInv'
  BY <1>1 DEF EventsInv, EventOK, KnownInv
<1>9. \A k : Active(k)' = Active(k) /\ (Due(k)' <=> Due(k))
  BY <1>1, <1>4 DEF Active, Due
<1>10. FollowedInv'
  BY <1>9 DEF FollowedInv
<1>11. ASSUME NEW m \in Others PROVE Informed(m)'
  <2>0. m \in Nodes /\ Networks[m] \in Keys
    BY EtcdConstants DEF Others
  <2>1. \A w \in Active(Networks[m]) : w \in Ws /\ watchers[w].pc # "free" /\ watchers[w].key = Networks[m]
    BY DEF Active
  <2>2. CASE Starting(m)
    BY <1>4, <1>9, <2>1, <2>2 DEF Starting, Informed
  <2>3. CASE Unread(m)
    <3>1. PICK w \in Active(Networks[m]) : About(watchers[w].buf, m) # {}
      BY <2>3 DEF Unread
    <3>2. w \in Ws /\ watchers[w].buf \in Seq(Changes)
      BY <2>1 DEF EtcdTypeOK, WatcherType
    <3>3. About(Append(watchers[w].buf, e), m) # {}
      BY <1>2, <3>1, <3>2, ChangeAdded
    <3>4. About(watchers'[w].buf, m) # {}
      BY <1>4, <3>1, <3>2, <3>3
    <3>5. w \in Active(Networks[m])'
      BY <1>9, <3>1
    <3> QED  BY <3>4, <3>5 DEF Unread, Informed
  <2>4. CASE Due(Networks[m])
    BY <1>9, <2>4 DEF Informed
  <2>5. CASE m # n /\ Settled(chanEvent, m, view[m], store[m].info)
    <3>1. store'[m] = store[m]
      BY <1>3, <2>0, <2>5
    <3> QED  BY <1>1, <2>5, <3>1 DEF Informed
  <2>6. CASE m = n /\ ~Starting(m) /\ ~Due(Networks[m])
    <3>1. PICK w \in Active(Networks[m]) : TRUE
      BY <2>0, <2>6 DEF FollowedInv
    <3>2. w \in Ws /\ watchers[w].pc = "loop"
      BY <2>1, <2>6, <3>1 DEF Starting, EtcdTypeOK, WatcherType
    <3>3. Watched(w, n) /\ watchers[w].buf \in Seq(Changes)
      BY <2>1, <2>6, <3>1, <3>2 DEF Watched, EtcdTypeOK, WatcherType
    <3>4. watchers'[w].buf = Append(watchers[w].buf, e)
      BY <1>4, <3>2, <3>3
    <3>5. About(watchers'[w].buf, m) # {}
      BY <1>2, <2>6, <3>3, <3>4, ChangeAdded
    <3>6. w \in Active(Networks[m])'
      BY <1>9, <3>1
    <3> QED  BY <3>5, <3>6 DEF Unread, Informed
  <2> QED  BY <2>2, <2>3, <2>4, <2>5, <2>6 DEF InformedInv, Informed
<1> QED  BY <1>5, <1>7, <1>8, <1>10, <1>11 DEF InformedInv, Others

LEMMA WatchByClientKeeps ==
  ASSUME EtcdInv, NEW c \in Clients, watchByClient(c)
  PROVE  EtcdInv'
<1> USE DEF EtcdInv
<1>1. UNCHANGED <<store, chanEvent, view, known>> /\ timers[c] > 0
      /\ timers' = [timers EXCEPT ![c] = @ - 1]
  BY DEF watchByClient, etcdState
<1>2. PICK slots \in [watchKeys[c] -> {w \in Ws : watchers[w].pc = "free"}] :
        /\ \A k, j \in watchKeys[c] : k # j => slots[k] # slots[j]
        /\ watchers' = [w \in Ws |-> IF \E k \in watchKeys[c] : slots[k] = w
                                     THEN [pc |-> "start", key |-> CHOOSE k \in watchKeys[c] : slots[k] = w,
                                           cli |-> c, buf |-> <<>>]
                                     ELSE watchers[w]]
  BY DEF watchByClient
<1> DEFINE New(w) == \E k \in watchKeys[c] : slots[k] = w
<1>3. ASSUME NEW w \in Ws, New(w)
      PROVE  /\ watchers[w].pc = "free" /\ watchers'[w] \in WatcherType
             /\ watchers'[w].pc = "start" /\ Len(watchers'[w].buf) = 0
             /\ watchers'[w].key \in watchKeys[watchers'[w].cli]
             /\ slots[watchers'[w].key] = w
  <2> DEFINE key == CHOOSE k \in watchKeys[c] : slots[k] = w
  <2>1. key \in watchKeys[c] /\ slots[key] = w
    BY <1>3
  <2>2. key \in Keys
    BY <2>1, EtcdConstants
  <2>3. watchers'[w] = [pc |-> "start", key |-> key, cli |-> c, buf |-> << >>]
    BY <1>2, <1>3
  <2> HIDE DEF key
  <2>4. << >> \in Seq(Changes) /\ Len(<< >>) = 0
    OBVIOUS
  <2> QED  BY <1>2, <2>1, <2>2, <2>3, <2>4 DEF WatcherType
<1>4. ASSUME NEW w \in Ws, ~New(w) PROVE watchers'[w] = watchers[w]
  BY <1>2, <1>4
<1>5. \A k \in watchKeys[c] : \E w \in Ws : New(w) /\ watchers'[w].key = k
  <2> TAKE k \in watchKeys[c]
  <2>1. slots[k] \in Ws /\ New(slots[k])
    BY <1>2
  <2>2. slots[watchers'[slots[k]].key] = slots[k] /\ watchers'[slots[k]].key \in watchKeys[c]
    <3>1. watchers'[slots[k]].cli = c
      BY <1>2, <2>1
    <3> QED  BY <1>3, <2>1, <3>1
  <2>3. watchers'[slots[k]].key = k
    BY <1>2, <2>2
  <2> QED  BY <2>1, <2>3
<1>6. timers' \in [Clients -> Nat] /\ \A d \in Clients : d # c => timers'[d] = timers[d]
  <2>1. timers \in [Clients -> Nat] /\ timers[c] - 1 \in Nat
    BY <1>1 DEF EtcdTypeOK
  <2> QED  BY <1>1, <2>1
<1>6a. watchers' = [w \in Ws |-> watchers'[w]]
  BY <1>2
<1> HIDE DEF New
<1>7. EtcdTypeOK'
  <2>1. \A w \in Ws : watchers'[w] \in WatcherType
    BY <1>3, <1>4 DEF EtcdTypeOK
  <2> QED  BY <1>1, <1>6, <1>6a, <2>1 DEF EtcdTypeOK
<1>8. ASSUME NEW w \in Ws PROVE WatcherOK(w)'
  <2>1. CASE New(w)
    BY <1>3, <2>1 DEF WatcherOK
  <2>2. CASE ~New(w)
    BY <1>1, <1>4, <2>2 DEF WatchersInv, WatcherOK
  <2> QED  BY <2>1, <2>2
<1>9. EventsInv' /\ KnownInv'
  BY <1>1 DEF EventsInv, EventOK, KnownInv
\* An active watcher goes on, and for the keys of c there is a new one.
<1>10. ASSUME NEW k, NEW w \in Active(k)
       PROVE  w \in Active(k)' /\ watchers'[w] = watchers[w]
  <2>1. w \in Ws /\ watchers[w].pc # "free" /\ watchers[w].key = k
    BY DEF Active
  <2>2. watchers'[w] = watchers[w]
    BY <1>3, <1>4, <2>1
  <2> QED  BY <2>1, <2>2 DEF Active
<1>11. ASSUME NEW k \in watchKeys[c]
       PROVE  \E w \in Active(k)' : watchers'[w].pc = "start"
  <2>1. PICK w \in Ws : New(w) /\ watchers'[w].key = k
    BY <1>5
  <2>2. watchers'[w].pc = "start"
    BY <1>3, <2>1
  <2> QED  BY <2>1, <2>2 DEF Active
<1>12. ASSUME NEW k, k \notin watchKeys[c] PROVE Due(k) => Due(k)'
  BY <1>6, <1>12 DEF Due
<1>13. FollowedInv'
  <2> SUFFICES ASSUME NEW k \in Keys PROVE Active(k)' # {} \/ Due(k)'
    BY DEF FollowedInv
  <2>1. CASE k \in watchKeys[c]
    BY <1>11, <2>1
  <2>2. CASE k \notin watchKeys[c]
    BY <1>10, <1>12, <2>2 DEF FollowedInv
  <2> QED  BY <2>1, <2>2
<1>14. ASSUME NEW n \in Others PROVE Informed(n)'
  <2>1. CASE Networks[n] \in watchKeys[c]
    BY <1>11, <2>1 DEF Informed, Starting
  <2>2. CASE Networks[n] \notin watchKeys[c]
    <3>1. Starting(n) => Starting(n)'
      BY <1>10 DEF Starting
    <3>2. Unread(n) => Unread(n)'
      BY <1>10 DEF Unread
    <3>3. Due(Networks[n]) => Due(Networks[n])'
      BY <1>12, <2>2
    <3>4. Settled(chanEvent, n, view[n], store[n].info) =>
            Settled(chanEvent, n, view[n], store[n].info)'
      BY <1>1
    <3> QED  BY <3>1, <3>2, <3>3, <3>4 DEF InformedInv, Informed
  <2> QED  BY <2>1, <2>2
<1> QED  BY <1>7, <1>8, <1>9, <1>13, <1>14 DEF WatchersInv, InformedInv, Others

\* A step of watcher w that leaves the store and the tables alone.
LEMMA WatcherSteps1 ==
  ASSUME EtcdInv, NEW w \in Ws, NEW r \in WatcherType, watchers' = [watchers EXCEPT ![w] = r]
  PROVE  /\ watchers' \in [Ws -> WatcherType] /\ watchers'[w] = r
         /\ watchers[w] \in WatcherType /\ watchers[w].buf \in Seq(Changes)
         /\ \A x \in Ws : x # w => watchers'[x] = watchers[x]
         /\ \A k : \A x \in Active(k) : x \in Ws /\ watchers[x].pc # "free" /\ watchers[x].key = k
         /\ \A k : \A x \in Active(k) : x # w => x \in Active(k)'
         /\ r.pc # "free" => w \in Active(r.key)'
<1>1. /\ watchers \in [Ws -> WatcherType] /\ watchers' \in [Ws -> WatcherType] /\ watchers'[w] = r
      /\ \A x \in Ws : x # w => watchers'[x] = watchers[x]
  BY DEF EtcdInv, EtcdTypeOK
<1>2. watchers[w] \in WatcherType /\ watchers[w].buf \in Seq(Changes)
  BY <1>1 DEF WatcherType
<1>3. \A k : \A x \in Active(k) : x \in Ws /\ watchers[x].pc # "free" /\ watchers[x].key = k
  BY DEF Active
<1>4. \A k : \A x \in Active(k) : x # w => x \in Active(k)'
  BY <1>1 DEF Active
<1>5. r.pc # "free" => w \in Active(r.key)'
  BY <1>1 DEF Active
<1> QED  BY <1>1, <1>2, <1>3, <1>4, <1>5

LEMMA WatchKeeps ==
  ASSUME EtcdInv, NEW w \in Ws, Watch(w)
  PROVE  EtcdInv'
<1> USE DEF EtcdInv
<1>1. UNCHANGED <<store, timers, chanEvent, view, known>> /\ watchers[w].pc = "start"
  BY DEF Watch, etcdState, myState
<1>1a. PICK r : r = [watchers[w] EXCEPT !.pc = "get"]
  OBVIOUS
<1>2. watchers' = [watchers EXCEPT ![w] = r]
  BY <1>1a DEF Watch
<1>3. /\ r \in WatcherType /\ r.pc = "get" /\ r.key = watchers[w].key /\ r.cli = watchers[w].cli
      /\ r.buf = watchers[w].buf
  BY <1>1a DEF EtcdTypeOK, WatcherType
<1>4. /\ watchers' \in [Ws -> WatcherType] /\ watchers'[w] = r
      /\ \A x \in Ws : x # w => watchers'[x] = watchers[x]
      /\ \A k : \A x \in Active(k) : x \in Ws /\ watchers[x].pc # "free" /\ watchers[x].key = k
      /\ \A k : \A x \in Active(k) : x # w => x \in Active(k)'
      /\ w \in Active(r.key)'
  BY <1>2, <1>3, WatcherSteps1
<1>5. EtcdTypeOK'
  BY <1>1, <1>4 DEF EtcdTypeOK
<1>6. ASSUME NEW x \in Ws PROVE WatcherOK(x)'
  <2>1. CASE x = w
    <3>1. WatcherOK(w) /\ Len(watchers[w].buf) = 0
      BY <1>1 DEF WatchersInv, WatcherOK
    <3>2. Len(r.buf) = 0 /\ r.key \in watchKeys[r.cli]
      BY <1>1, <1>3, <3>1 DEF WatcherOK
    <3>3. \A n : About(r.buf, n) = {}
      BY <3>2 DEF About
    <3>4. \A n \in Nodes : Fresh(r.buf, n, store'[n].info)
      BY <3>3 DEF Fresh
    <3> QED  BY <1>3, <1>4, <2>1, <3>2, <3>4 DEF WatcherOK
  <2>2. CASE x # w
    BY <1>1, <1>4, <2>2 DEF WatchersInv, WatcherOK
  <2> QED  BY <2>1, <2>2
<1>7. EventsInv' /\ KnownInv'
  BY <1>1 DEF EventsInv, EventOK, KnownInv
<1>8. \A k : \A x \in Active(k) : x \in Active(k)'
  BY <1>3, <1>4
<1>9. \A k : Due(k)' <=> Due(k)
  BY <1>1 DEF Due
<1>10. FollowedInv'
  BY <1>8, <1>9 DEF FollowedInv
<1>11. ASSUME NEW n \in Others PROVE Informed(n)'
  <2>1. Starting(n) => Starting(n)'
    BY <1>3, <1>4, <1>8 DEF Starting
  <2>2. Unread(n) => Unread(n)'
    BY <1>3, <1>4, <1>8 DEF Unread
  <2>3. Settled(chanEvent, n, view[n], store[n].info) =>
          Settled(chanEvent, n, view[n], store[n].info)'
    BY <1>1
  <2> QED  BY <1>9, <2>1, <2>2, <2>3 DEF InformedInv, Informed
<1> QED  BY <1>5, <1>6, <1>7, <1>10, <1>11 DEF WatchersInv, InformedInv, Others

\* A watcher ends: its client is to start watchers again.
LEMMA GoneKeeps ==
  ASSUME EtcdInv, NEW w \in Ws, watchers[w].pc \in {"get", "loop"}, Gone(w),
         UNCHANGED <<store, chanEvent, view, known>>
  PROVE  EtcdInv'
<1> USE DEF EtcdInv
<1>0. PICK c, k0 : c = watchers[w].cli /\ k0 = watchers[w].key
  OBVIOUS
<1>1. NoWatcher \in WatcherType /\ NoWatcher.pc = "free" /\ Len(NoWatcher.buf) = 0
  BY EtcdConstants
<1>2. watchers' = [watchers EXCEPT ![w] = NoWatcher] /\ timers' = [timers EXCEPT ![c] = @ + 1]
  BY <1>0 DEF Gone, tryWatch
<1>3. /\ watchers' \in [Ws -> WatcherType] /\ watchers'[w] = NoWatcher
      /\ watchers[w] \in WatcherType
      /\ \A x \in Ws : x # w => watchers'[x] = watchers[x]
      /\ \A k : \A x \in Active(k) : x \in Ws /\ watchers[x].pc # "free" /\ watchers[x].key = k
      /\ \A k : \A x \in Active(k) : x # w => x \in Active(k)'
  BY <1>1, <1>2, WatcherSteps1
<1>4. c \in Clients /\ k0 \in Keys /\ k0 \in watchKeys[c]
  <2>1. c \in Clients /\ k0 \in Keys
    BY <1>0, <1>3 DEF WatcherType
  <2>2. WatcherOK(w)
    BY DEF WatchersInv
  <2> QED  BY <1>0, <2>1, <2>2 DEF WatcherOK
<1>5. timers' \in [Clients -> Nat] /\ timers'[c] > 0 /\ \A d \in Clients : timers'[d] >= timers[d]
  <2>1. timers \in [Clients -> Nat]
    BY DEF EtcdTypeOK
  <2>2. timers'[c] = timers[c] + 1 /\ \A d \in Clients : d # c => timers'[d] = timers[d]
    BY <1>2, <1>4, <2>1
  <2> QED  BY <1>2, <1>4, <2>1, <2>2
<1>6. EtcdTypeOK'
  BY <1>3, <1>5 DEF EtcdTypeOK
<1>7. ASSUME NEW x \in Ws PROVE WatcherOK(x)'
  <2>1. CASE x = w
    BY <1>1, <1>3, <2>1 DEF WatcherOK
  <2>2. CASE x # w
    BY <1>3, <2>2 DEF WatchersInv, WatcherOK
  <2> QED  BY <2>1, <2>2
<1>8. EventsInv' /\ KnownInv'
  BY DEF EventsInv, EventOK, KnownInv
<1>9. Due(k0)' /\ \A k : Due(k) => Due(k)'
  <2>1. Due(k0)'
    BY <1>4, <1>5 DEF Due
  <2>2. ASSUME NEW k, Due(k) PROVE Due(k)'
    <3>1. PICK d \in Clients : k \in watchKeys[d] /\ timers[d] > 0
      BY <2>2 DEF Due
    <3>2. timers[d] \in Nat /\ timers'[d] \in Nat /\ timers'[d] >= timers[d]
      BY <1>5 DEF EtcdTypeOK
    <3>3. timers'[d] > 0
      BY <3>1, <3>2
    <3> QED  BY <3>1, <3>3 DEF Due
  <2> QED  BY <2>1, <2>2
<1>10. ASSUME NEW k, k # k0, NEW x \in Active(k)
       PROVE  x \in Active(k)' /\ watchers'[x] = watchers[x]
  BY <1>0, <1>3, <1>10
<1>11. FollowedInv'
  BY <1>9, <1>10 DEF FollowedInv
<1>12. ASSUME NEW n \in Others PROVE Informed(n)'
  <2>1. CASE Networks[n] = k0
    BY <1>9, <2>1 DEF Informed
  <2>2. CASE Networks[n] # k0
    <3>1. Starting(n) => Starting(n)'
      BY <1>10, <2>2 DEF Starting
    <3>2. Unread(n) => Unread(n)'
      BY <1>10, <2>2 DEF Unread
    <3>3. Settled(chanEvent, n, view[n], store[n].info) =>
            Settled(chanEvent, n, view[n], store[n].info)'
      OBVIOUS
    <3> QED  BY <1>9, <3>1, <3>2, <3>3 DEF InformedInv, Informed
  <2> QED  BY <2>1, <2>2
<1> QED  BY <1>6, <1>7, <1>8, <1>11, <1>12 DEF WatchersInv, InformedInv, Others

LEMMA EtcdUnchanged ==
  ASSUME EtcdInv, UNCHANGED <<store, watchers, chanEvent, view, known, timers>>
  PROVE  EtcdInv'
<1>1. EtcdTypeOK' /\ WatchersInv' /\ EventsInv' /\ KnownInv'
  BY DEF EtcdInv, EtcdTypeOK, WatchersInv, WatcherOK, EventsInv, EventOK, KnownInv
<1>2. \A k : Active(k)' = Active(k) /\ (Due(k)' <=> Due(k))
  BY DEF Active, Due
<1>3. FollowedInv'
  BY <1>2 DEF EtcdInv, FollowedInv
<1>4. InformedInv'
  BY <1>2 DEF EtcdInv, InformedInv, Informed, Starting, Unread
<1> QED  BY <1>1, <1>3, <1>4 DEF EtcdInv

\* The snapshot is what etcd has.
LEMMA GetServicesKeeps ==
  ASSUME EtcdInv, NEW w \in Ws, getServices(w)
  PROVE  EtcdInv'
<1> USE DEF EtcdInv
<1>1. watchers[w].pc = "get" /\ UNCHANGED <<store, view, known>>
  BY DEF getServices, etcdState
<1>2. PICK k0, e, r :
        /\ k0 = watchers[w].key /\ e = [typ |-> "gets", key |-> k0, kvs |-> Snapshot(k0)]
        /\ r = [watchers[w] EXCEPT !.pc = "loop"]
  OBVIOUS
<1>3. CASE Fail /\ Gone(w) /\ UNCHANGED chanEvent
  BY <1>1, <1>3, GoneKeeps
<1>4. CASE /\ Notify(e) /\ watchers' = [watchers EXCEPT ![w].pc = "loop"]
           /\ UNCHANGED <<timers, fails>>
  <2>1. /\ r \in WatcherType /\ r.pc = "loop" /\ r.key = k0 /\ r.cli = watchers[w].cli
        /\ r.buf = watchers[w].buf /\ k0 \in Keys
    BY <1>2 DEF EtcdTypeOK, WatcherType
  <2>2. watchers' = [watchers EXCEPT ![w] = r]
    BY <1>2, <1>4
  <2>3. /\ watchers' \in [Ws -> WatcherType] /\ watchers'[w] = r
        /\ \A x \in Ws : x # w => watchers'[x] = watchers[x]
        /\ \A k : \A x \in Active(k) : x \in Ws /\ watchers[x].pc # "free" /\ watchers[x].key = k
        /\ \A k : \A x \in Active(k) : x # w => x \in Active(k)'
        /\ w \in Active(r.key)'
    BY <2>1, <2>2, WatcherSteps1
  <2>4. /\ e \in EventType /\ e.typ = "gets" /\ e.key = k0
        /\ \A n \in Nodes : e.kvs[n] = IF Networks[n] = k0 THEN store[n].info ELSE "none"
    <3>1. Snapshot(k0) \in [Nodes -> Infos]
      BY DEF Snapshot, EtcdTypeOK, Infos
    <3>2. \A n \in Nodes : Snapshot(k0)[n] = IF Networks[n] = k0 THEN store[n].info ELSE "none"
      BY DEF Snapshot
    <3> QED  BY <1>2, <2>1, <3>1, <3>2 DEF EventType
  <2>5. chanEvent' = Append(chanEvent, e) /\ chanEvent \in Seq(EventType) /\ chanEvent' \in Seq(EventType)
    BY <1>4, <2>4 DEF Notify, EtcdTypeOK
  <2>6. EtcdTypeOK'
    BY <1>1, <1>4, <2>3, <2>5 DEF EtcdTypeOK
  <2>7. ASSUME NEW x \in Ws PROVE WatcherOK(x)'
    <3>1. CASE x = w
      <4>1. WatcherOK(w)
        BY DEF WatchersInv
      <4>2. r.key \in watchKeys[r.cli]
        BY <1>1, <1>2, <2>1, <4>1 DEF WatcherOK
      <4>3. \A i \in 1..Len(r.buf) : Networks[r.buf[i].node] = r.key
        BY <1>2, <2>1, <4>1 DEF WatcherOK
      <4>4. \A n \in Nodes : Networks[n] = r.key => Fresh(r.buf, n, store'[n].info)
        BY <1>1, <1>2, <2>1, <4>1 DEF WatcherOK
      <4> QED  BY <2>1, <2>3, <3>1, <4>2, <4>3, <4>4 DEF WatcherOK
    <3>2. CASE x # w
      BY <1>1, <2>3, <3>2 DEF WatchersInv, WatcherOK
    <3> QED  BY <3>1, <3>2
  <2>8. EventsInv'
    <3>1. EventOK(e)
      BY <2>4 DEF EventOK
    <3>2. ASSUME NEW i \in 1..Len(chanEvent') PROVE EventOK(chanEvent'[i])
      <4>1. /\ Len(chanEvent') = Len(chanEvent) + 1 /\ Len(chanEvent) \in Nat
            /\ chanEvent'[Len(chanEvent) + 1] = e
            /\ \A j \in 1..Len(chanEvent) : chanEvent'[j] = chanEvent[j]
        BY <2>4, <2>5
      <4>2. i = Len(chanEvent) + 1 \/ i \in 1..Len(chanEvent)
        BY <4>1
      <4> QED  BY <3>1, <4>1, <4>2 DEF EventsInv
    <3> QED  BY <3>2 DEF EventsInv, EventOK
  <2>9. KnownInv'
    BY <1>1 DEF KnownInv
  <2>10. \A k : \A x \in Active(k) : x \in Active(k)'
    BY <1>2, <2>1, <2>3
  <2>11. \A k : Due(k)' <=> Due(k)
    BY <1>4 DEF Due
  <2>12. FollowedInv'
    BY <2>10, <2>11 DEF FollowedInv
  <2>13. ASSUME NEW n \in Others PROVE Informed(n)'
    <3>0. n \in Nodes
      BY DEF Others
    <3>1. CASE Networks[n] = k0
      <4>1. Tells(e, n) /\ Value(e, n) = store[n].info
        BY <2>4, <3>0, <3>1 DEF Tells, Value
      <4>2. Settled(chanEvent', n, view'[n], store'[n].info)
        BY <1>1, <2>4, <2>5, <4>1, EventAdded
      <4> QED  BY <4>2 DEF Informed
    <3>2. CASE Networks[n] # k0
      <4>1. ~Tells(e, n)
        BY <2>4, <3>2 DEF Tells
      <4>2. ASSUME NEW x \in Active(Networks[n]) PROVE x \in Active(Networks[n])' /\ watchers'[x] = watchers[x]
        BY <1>2, <2>3, <3>2
      <4>3. Starting(n) => Starting(n)'
        BY <4>2 DEF Starting
      <4>4. Unread(n) => Unread(n)'
        BY <4>2 DEF Unread
      <4>5. Settled(chanEvent, n, view[n], store[n].info) =>
              Settled(chanEvent', n, view'[n], store'[n].info)
        BY <1>1, <2>4, <2>5, <4>1, EventAdded
      <4> QED  BY <2>11, <4>3, <4>4, <4>5 DEF InformedInv, Informed
    <3> QED  BY <3>1, <3>2
  <2> QED  BY <2>6, <2>7, <2>8, <2>9, <2>12, <2>13 DEF WatchersInv, InformedInv, Others
<1> QED  BY <1>2, <1>3, <1>4 DEF getServices

\* A change that is read is told; the last of a node is what etcd has.
LEMMA WatcherKeeps ==
  ASSUME EtcdInv, NEW w \in Ws, watcher(w)
  PROVE  EtcdInv'
<1> USE DEF EtcdInv
<1>1. /\ watchers[w].pc = "loop" /\ watchers[w].buf # <<>>
      /\ UNCHANGED <<store, timers, view, known>>
  BY DEF watcher, etcdState
<1>2. PICK k0, h, e, r :
        /\ k0 = watchers[w].key /\ h = Head(watchers[w].buf)
        /\ e = [typ |-> IF h.info = "none" THEN "delete" ELSE "put", key |-> k0,
                node |-> h.node, info |-> h.info]
        /\ r = [watchers[w] EXCEPT !.buf = Tail(watchers[w].buf)]
  OBVIOUS
<1>3. chanEvent' = Append(chanEvent, e) /\ watchers' = [watchers EXCEPT ![w] = r]
  BY <1>2 DEF watcher, Notify
<1>4. watchers[w] \in WatcherType /\ watchers[w].buf \in Seq(Changes) /\ Len(watchers[w].buf) # 0
  <2>1. watchers[w] \in WatcherType /\ watchers[w].buf \in Seq(Changes)
    BY DEF EtcdTypeOK, WatcherType
  <2> QED  BY <1>1, <2>1
<1>5. /\ h \in Changes /\ Tail(watchers[w].buf) \in Seq(Changes)
      /\ h = watchers[w].buf[1] /\ Len(Tail(watchers[w].buf)) = Len(watchers[w].buf) - 1
      /\ \A i \in 1..Len(Tail(watchers[w].buf)) : Tail(watchers[w].buf)[i] = watchers[w].buf[i + 1]
      /\ 1 \in 1..Len(watchers[w].buf)
  <2>1. watchers[w].buf # <<>> /\ Len(watchers[w].buf) \in Nat
    BY <1>1, <1>4
  <2> QED  BY <1>2, <1>4, <2>1, HeadTailProperties
<1>6. /\ r \in WatcherType /\ r.pc = "loop" /\ r.key = k0 /\ r.cli = watchers[w].cli
      /\ r.buf = Tail(watchers[w].buf) /\ k0 \in Keys
  BY <1>1, <1>2, <1>4, <1>5 DEF WatcherType
<1>7. /\ watchers' \in [Ws -> WatcherType] /\ watchers'[w] = r
      /\ \A x \in Ws : x # w => watchers'[x] = watchers[x]
      /\ \A k : \A x \in Active(k) : x \in Ws /\ watchers[x].pc # "free" /\ watchers[x].key = k
      /\ \A k : \A x \in Active(k) : x # w => x \in Active(k)'
      /\ w \in Active(r.key)'
  BY <1>3, <1>6, WatcherSteps1
<1>8. WatcherOK(w)
  BY DEF WatchersInv
<1>9. /\ e \in EventType /\ e.typ # "gets" /\ e.key = k0 /\ e.node = h.node /\ e.info = h.info
      /\ (e.typ = "delete" <=> e.info = "none") /\ Networks[h.node] = k0
  <2>1. h.node \in Nodes /\ h.info \in Infos
    BY <1>5 DEF Changes
  <2>2. Networks[h.node] = k0
    BY <1>2, <1>5, <1>8 DEF WatcherOK
  <2> QED  BY <1>2, <1>6, <2>1, <2>2 DEF EventType
<1>10. chanEvent \in Seq(EventType) /\ chanEvent' \in Seq(EventType)
  BY <1>3, <1>9 DEF EtcdTypeOK
<1>11. EtcdTypeOK'
  BY <1>1, <1>7, <1>10 DEF EtcdTypeOK
<1>12. ASSUME NEW n \in Nodes, Networks[n] = k0
       PROVE  /\ Fresh(r.buf, n, store[n].info)
              /\ h.node # n /\ About(watchers[w].buf, n) # {} => About(r.buf, n) # {}
              /\ h.node = n /\ About(r.buf, n) = {} => h.info = store[n].info
  <2>1. Fresh(watchers[w].buf, n, store[n].info)
    BY <1>1, <1>2, <1>8, <1>12 DEF WatcherOK
  <2> QED  BY <1>2, <1>4, <1>6, <2>1, ChangeRead
<1>13. ASSUME NEW x \in Ws PROVE WatcherOK(x)'
  <2>1. CASE x = w
    <3>1. \A i \in 1..Len(r.buf) : Networks[r.buf[i].node] = r.key
      <4> TAKE i \in 1..Len(r.buf)
      <4>1. i + 1 \in 1..Len(watchers[w].buf) /\ r.buf[i] = watchers[w].buf[i + 1]
        BY <1>4, <1>5, <1>6
      <4> QED  BY <1>2, <1>6, <1>8, <4>1 DEF WatcherOK
    <3>2. \A n \in Nodes : Networks[n] = r.key => Fresh(r.buf, n, store'[n].info)
      BY <1>1, <1>6, <1>12
    <3>3. r.key \in watchKeys[r.cli]
      BY <1>1, <1>2, <1>6, <1>8 DEF WatcherOK
    <3> QED  BY <1>6, <1>7, <2>1, <3>1, <3>2, <3>3 DEF WatcherOK
  <2>2. CASE x # w
    BY <1>1, <1>7, <2>2 DEF WatchersInv, WatcherOK
  <2> QED  BY <2>1, <2>2
<1>14. EventsInv'
  <2>1. EventOK(e)
    BY <1>9 DEF EventOK
  <2>2. ASSUME NEW i \in 1..Len(chanEvent') PROVE EventOK(chanEvent'[i])
    <3>1. /\ Len(chanEvent') = Len(chanEvent) + 1 /\ Len(chanEvent) \in Nat
          /\ chanEvent'[Len(chanEvent) + 1] = e
          /\ \A j \in 1..Len(chanEvent) : chanEvent'[j] = chanEvent[j]
      BY <1>3, <1>9, <1>10
    <3>2. i = Len(chanEvent) + 1 \/ i \in 1..Len(chanEvent)
      BY <3>1
    <3> QED  BY <2>1, <3>1, <3>2 DEF EventsInv
  <2> QED  BY <2>2 DEF EventsInv, EventOK
<1>15. KnownInv'
  BY <1>1 DEF KnownInv
<1>16. \A k : \A x \in Active(k) : x \in Active(k)'
  BY <1>2, <1>6, <1>7
<1>17. \A k : Due(k)' <=> Due(k)
  BY <1>1 DEF Due
<1>18. FollowedInv'
  BY <1>16, <1>17 DEF FollowedInv
<1>19. ASSUME NEW n \in Others PROVE Informed(n)'
  <2>0. n \in Nodes
    BY DEF Others
  <2>1. Starting(n) => Starting(n)'
    <3>1. ASSUME NEW x \in Active(Networks[n]), watchers[x].pc \in {"start", "get"}
          PROVE  x \in Active(Networks[n])' /\ watchers'[x] = watchers[x]
      BY <1>1, <1>7, <3>1
    <3> QED  BY <3>1 DEF Starting
  <2>2. CASE h.node = n /\ About(r.buf, n) = {}
    <3>1. Tells(e, n) /\ Value(e, n) = store[n].info
      BY <1>9, <1>12, <2>0, <2>2 DEF Tells, Value
    <3>2. Settled(chanEvent', n, view'[n], store'[n].info)
      BY <1>1, <1>3, <1>9, <1>10, <3>1, EventAdded
    <3> QED  BY <3>2 DEF Informed
  <2>3. CASE h.node = n /\ About(r.buf, n) # {}
    <3>1. w \in Active(Networks[n])'
      BY <1>6, <1>7, <1>9, <2>3
    <3>2. About(watchers'[w].buf, n) # {}
      BY <1>7, <2>3
    <3> QED  BY <3>1, <3>2 DEF Informed, Unread
  <2>4. CASE h.node # n
    <3>1. ~Tells(e, n)
      BY <1>9, <2>4 DEF Tells
    <3>2. Settled(chanEvent, n, view[n], store[n].info) =>
            Settled(chanEvent', n, view'[n], store'[n].info)
      BY <1>1, <1>3, <1>9, <1>10, <3>1, EventAdded
    <3>3. ASSUME NEW x \in Active(Networks[n]), About(watchers[x].buf, n) # {}
          PROVE  x \in Active(Networks[n])' /\ About(watchers'[x].buf, n) # {}
      <4>1. CASE x = w
        BY <1>2, <1>7, <1>12, <1>16, <2>0, <2>4, <3>3, <4>1
      <4>2. CASE x # w
        BY <1>7, <3>3, <4>2
      <4> QED  BY <4>1, <4>2
    <3>4. Unread(n) => Unread(n)'
      BY <3>3 DEF Unread
    <3> QED  BY <1>17, <2>1, <3>2, <3>4 DEF InformedInv, Informed
  <2> QED  BY <2>2, <2>3, <2>4
<1> QED  BY <1>11, <1>13, <1>14, <1>15, <1>18, <1>19 DEF WatchersInv, InformedInv, Others

\* The service handles an event: n becomes what the event tells of it, if it does.
LEMMA EventKeeps ==
  ASSUME EtcdInv, OnEtcdDiscovery
  PROVE  EtcdInv'
<1> USE DEF EtcdInv
<1>1. chanEvent # <<>> /\ UNCHANGED <<store, timers, watchers>> /\ chanEvent' = Tail(chanEvent)
  BY DEF OnEtcdDiscovery, etcdState
<1>2. PICK e : e = Head(chanEvent)
  OBVIOUS
<1>3. /\ chanEvent \in Seq(EventType) /\ view \in [Nodes -> Infos] /\ known \in [Keys -> SUBSET Nodes]
  BY DEF EtcdTypeOK
<1>4. /\ e \in EventType /\ e = chanEvent[1] /\ chanEvent' \in Seq(EventType)
      /\ Len(chanEvent) \in Nat /\ Len(chanEvent) > 0 /\ Len(chanEvent') = Len(chanEvent) - 1
      /\ \A i \in 1..Len(chanEvent') : chanEvent'[i] = chanEvent[i + 1]
  <2>1. Len(chanEvent) \in Nat /\ Len(chanEvent) > 0
    BY <1>1, <1>3
  <2> QED  BY <1>1, <1>2, <1>3, <2>1, HeadTailProperties
<1>5. EventOK(e)
  BY <1>4 DEF EventsInv
<1>6. /\ view' \in [Nodes -> Infos] /\ known' \in [Keys -> SUBSET Nodes]
      /\ \A k \in Keys : \A n \in known'[k] : Networks[n] = k
      /\ \A n \in Others : view'[n] # "none" => n \in known'[Networks[n]]
      /\ \A n \in Others : view'[n] = IF Tells(e, n) THEN Value(e, n) ELSE view[n]
  <2>1. CASE e.typ = "gets"
    <3>1. e.key \in Keys /\ e.kvs \in [Nodes -> Infos]
      BY <1>4, <2>1 DEF EventType
    <3>2. \A n \in Nodes : Networks[n] # e.key => e.kvs[n] = "none"
      BY <1>5, <2>1 DEF EventOK
    <3>3. OnEventGets(e)
      BY <1>2, <2>1 DEF OnEtcdDiscovery
    <3> DEFINE there == {n \in Nodes : e.kvs[n] # "none"}
               expired == known[e.key] \ (there \cup {Me})
    <3>4. /\ view' = [n \in Nodes |-> IF n \in there \ {Me} THEN e.kvs[n]
                                      ELSE IF n \in expired THEN "none" ELSE view[n]]
          /\ known' = [known EXCEPT ![e.key] = (@ \cup there) \ expired]
      BY <3>3 DEF OnEventGets
    <3>5. "none" \in Infos
      BY DEF Infos
    <3>6. view' \in [Nodes -> Infos]
      BY <1>3, <3>1, <3>4, <3>5
    <3>7. known' \in [Keys -> SUBSET Nodes]
      BY <1>3, <3>1, <3>4
    <3>8. known'[e.key] = (known[e.key] \cup there) \ expired /\ \A k \in Keys : k # e.key => known'[k] = known[k]
      BY <1>3, <3>1, <3>4
    <3>9. \A n \in there : Networks[n] = e.key
      BY <3>2
    <3>10. \A k \in Keys : \A n \in known'[k] : Networks[n] = k
      BY <3>8, <3>9 DEF KnownInv
    <3>11. ASSUME NEW n \in Others
           PROVE  /\ view'[n] # "none" => n \in known'[Networks[n]]
                  /\ view'[n] = IF Tells(e, n) THEN Value(e, n) ELSE view[n]
      <4>0. n \in Nodes /\ n # Me /\ Networks[n] \in Keys
        BY EtcdConstants DEF Others
      <4>1. view'[n] = IF n \in there THEN e.kvs[n] ELSE IF n \in expired THEN "none" ELSE view[n]
        BY <3>4, <4>0
      <4>2. /\ n \in there <=> e.kvs[n] # "none"
            /\ n \in expired <=> n \in known[e.key] /\ e.kvs[n] = "none"
        BY <4>0
      <4>3. view[n] # "none" => n \in known[Networks[n]]
        BY DEF KnownInv
      <4>4. n \in known[e.key] => Networks[n] = e.key
        BY <3>1 DEF KnownInv
      <4>5. /\ n \in known'[e.key] <=> (n \in known[e.key] \/ n \in there) /\ n \notin expired
            /\ Networks[n] # e.key => known'[Networks[n]] = known[Networks[n]]
        BY <3>8, <4>0
      <4> HIDE DEF there, expired
      <4>6. CASE Networks[n] = e.key
        <5>1. Tells(e, n) /\ Value(e, n) = e.kvs[n]
          BY <2>1, <4>6 DEF Tells, Value
        <5> QED  BY <4>1, <4>2, <4>3, <4>5, <4>6, <5>1
      <4>7. CASE Networks[n] # e.key
        <5>1. ~Tells(e, n) /\ e.kvs[n] = "none"
          BY <3>2, <4>0, <4>7 DEF Tells
        <5> QED  BY <4>1, <4>2, <4>3, <4>4, <4>5, <4>7, <5>1
      <4> QED  BY <4>6, <4>7
    <3> QED  BY <3>6, <3>7, <3>10, <3>11
  <2>2. CASE e.typ # "gets"
    <3>1. /\ e.typ \in {"put", "delete"} /\ e.key \in Keys /\ e.node \in Nodes /\ e.info \in Infos
          /\ e.key = Networks[e.node] /\ (e.typ = "delete" <=> e.info = "none")
      BY <1>4, <1>5, <2>2 DEF EventType, EventOK
    <3>2. view' = IF e.node = Me THEN view ELSE [view EXCEPT ![e.node] = e.info]
      BY <1>2, <3>1 DEF OnEtcdDiscovery, OnEventPut, OnEventDelete, setNodeInfo, delNode
    <3>3. /\ e.typ = "put" => known' = [known EXCEPT ![e.key] = @ \cup {e.node}]
          /\ e.typ = "delete" => known' = IF e.node = Me THEN known ELSE [known EXCEPT ![e.key] = @ \ {e.node}]
      BY <1>2, <3>1 DEF OnEtcdDiscovery, OnEventPut, OnEventDelete, addNodeId
    <3>4. view' \in [Nodes -> Infos] /\ known' \in [Keys -> SUBSET Nodes]
      BY <1>3, <3>1, <3>2, <3>3
    <3>5. \A k \in Keys : /\ k # e.key => known'[k] = known[k]
                          /\ \A n \in known'[k] : n \in known[k] \/ (n = e.node /\ k = e.key)
                          /\ \A n \in known[k] : n # e.node => n \in known'[k]
      BY <1>3, <3>1, <3>3
    <3>6. e.typ = "put" => e.node \in known'[e.key]
      BY <1>3, <3>1, <3>3
    <3>7. \A k \in Keys : \A n \in known'[k] : Networks[n] = k
      BY <3>1, <3>5 DEF KnownInv
    <3>8. ASSUME NEW n \in Others
          PROVE  /\ view'[n] # "none" => n \in known'[Networks[n]]
                 /\ view'[n] = IF Tells(e, n) THEN Value(e, n) ELSE view[n]
      <4>0. n \in Nodes /\ n # Me /\ Networks[n] \in Keys
        BY EtcdConstants DEF Others
      <4>1. view'[n] = IF n = e.node THEN e.info ELSE view[n]
        BY <1>3, <3>1, <3>2, <4>0
      <4>2. Tells(e, n) <=> n = e.node
        BY <2>2, <3>1 DEF Tells
      <4>3. Value(e, n) = e.info
        BY <2>2 DEF Value
      <4>4. view[n] # "none" => n \in known[Networks[n]]
        BY DEF KnownInv
      <4> QED  BY <3>1, <3>5, <3>6, <4>0, <4>1, <4>2, <4>3, <4>4
    <3> QED  BY <3>4, <3>7, <3>8
  <2> QED  BY <2>1, <2>2
<1>7. EtcdTypeOK'
  BY <1>1, <1>4, <1>6 DEF EtcdTypeOK
<1>8. WatchersInv'
  BY <1>1 DEF WatchersInv, WatcherOK
<1>9. EventsInv'
  <2>1. ASSUME NEW i \in 1..Len(chanEvent') PROVE EventOK(chanEvent'[i])
    <3>1. i + 1 \in 1..Len(chanEvent) /\ chanEvent'[i] = chanEvent[i + 1]
      BY <1>4
    <3> QED  BY <3>1 DEF EventsInv
  <2> QED  BY <2>1 DEF EventsInv, EventOK
<1>10. \A k : Active(k)' = Active(k) /\ (Due(k)' <=> Due(k))
  BY <1>1 DEF Active, Due
<1>11. FollowedInv'
  BY <1>10 DEF FollowedInv
<1>12. ASSUME NEW n \in Others PROVE Informed(n)'
  <2>1. Starting(n) => Starting(n)'
    BY <1>1, <1>10 DEF Starting
  <2>2. Unread(n) => Unread(n)'
    BY <1>1, <1>10 DEF Unread
  <2>3. ASSUME Settled(chanEvent, n, view[n], store[n].info)
        PROVE  Settled(chanEvent', n, view'[n], store'[n].info)
    <3>1. /\ Tells(e, n) => Settled(Tail(chanEvent), n, Value(e, n), store[n].info)
          /\ ~Tells(e, n) => Settled(Tail(chanEvent), n, view[n], store[n].info)
      BY <1>1, <1>2, <1>3, <2>3, EventHandled
    <3> QED  BY <1>1, <1>6, <3>1
  <2> QED  BY <1>10, <2>1, <2>2, <2>3 DEF InformedInv, Informed
<1> QED  BY <1>6, <1>7, <1>8, <1>9, <1>11, <1>12 DEF KnownInv, InformedInv, Others

LEMMA EtcdStep ==
  ASSUME EtcdInv, [EtcdNext]_etcdVars
  PROVE  EtcdInv'
<1>1. CASE \E n \in Nodes :
             \/ OnStart(n) \/ Grant(n) \/ PutKey(n) \/ KeepAlive(n) \/ KeepAliveEnds(n)
             \/ OnRetire(n) \/ tryLaterRetire(n) \/ OnRelease(n) \/ Crash(n)
             \/ \E l \in Leases : Expire(n, l)
  <2>1. PICK n \in Nodes : UNCHANGED myState /\ (NoChange \/ \E v : v.info \in Infos /\ Change(n, v))
    BY <1>1, NodeStepChanges
  <2>2. CASE NoChange
    BY <2>1, <2>2, EtcdUnchanged DEF NoChange, myState
  <2>3. CASE \E v : v.info \in Infos /\ Change(n, v)
    BY <2>1, <2>3, ChangeKeeps
  <2> QED  BY <2>1, <2>2, <2>3
<1>2. CASE \E c \in Clients : watchByClient(c)
  BY <1>2, WatchByClientKeeps
<1>3. CASE \E w \in Ws : Watch(w) \/ getServices(w) \/ watcher(w) \/ WatchEnds(w)
  <2>1. ASSUME NEW w \in Ws, WatchEnds(w) PROVE EtcdInv'
    BY <2>1, GoneKeeps DEF WatchEnds, etcdState
  <2> QED  BY <1>3, <2>1, WatchKeeps, GetServicesKeeps, WatcherKeeps
<1>4. CASE OnEtcdDiscovery
  BY <1>4, EventKeeps
<1>5. CASE UNCHANGED etcdVars
  BY <1>5, EtcdUnchanged DEF etcdVars, etcdState, myState
<1> QED  BY <1>1, <1>2, <1>3, <1>4, <1>5 DEF EtcdNext

LEMMA EtcdInvariant == EtcdSpec => []EtcdInv
<1>1. EtcdInit => EtcdInv
  BY EtcdStarts
<1>2. EtcdInv /\ [EtcdNext]_etcdVars => EtcdInv'
  BY EtcdStep
<1> QED  BY <1>1, <1>2, PTL DEF EtcdSpec

\* Whenever the watchers of a network have told all they know, none of them is to be
\* started again and the service has handled what it was told, the cluster of the
\* node has of every other node of the network what etcd has: for every number of
\* watchers at a time, every order in which they tell, and every failure.
THEOREM WhatMeKnowsIsWhatEtcdHas == EtcdSpec => []ViewFollowsStore
<1>1. ASSUME EtcdInv PROVE ViewFollowsStore
  <2> SUFFICES ASSUME NEW n \in Others, CaughtUp(Networks[n]) PROVE view[n] = store[n].info
    BY DEF ViewFollowsStore
  <2>1. /\ \A w \in Active(Networks[n]) : watchers[w].pc = "loop" /\ watchers[w].buf = <<>>
        /\ \A c \in Clients : Networks[n] \in watchKeys[c] => timers[c] = 0
        /\ \A i \in DOMAIN chanEvent : chanEvent[i].key # Networks[n]
    BY DEF CaughtUp
  <2>2. ~Starting(n) /\ ~Due(Networks[n])
    BY <2>1 DEF Starting, Due
  <2>3. ~Unread(n)
    <3>1. \A w \in Active(Networks[n]) : Len(watchers[w].buf) = 0
      BY <2>1
    <3> QED  BY <3>1 DEF Unread, About
  <2>4. Settled(chanEvent, n, view[n], store[n].info)
    BY <1>1, <2>2, <2>3 DEF EtcdInv, InformedInv, Informed
  <2>5. DOMAIN chanEvent = 1..Len(chanEvent)
    BY <1>1 DEF EtcdInv, EtcdTypeOK
  <2>6. Telling(chanEvent, n) = {}
    BY <2>1, <2>5 DEF Telling, Tells
  <2> QED  BY <2>4, <2>6 DEF Settled
<1>2. EtcdInv => ViewFollowsStore
  BY <1>1
<1> QED  BY EtcdInvariant, <1>2, PTL
-----------------------------------------------------------------------------
(***************************************************************************)
(* The tables of the cluster.                                              *)
(*                                                                         *)
(* While a change holds the lock the tables leave out the node that is     *)
(* set, and the services that were notified already know more than the     *)
(* tables do; apart from that every table is what the known nodes offer,   *)
(* and the last event about a node in a service's channel, or what the     *)
(* service was told if there is none, is what the node offers.             *)
(***************************************************************************)

Offered == UNION (Announcements \cup {LocalOffers})
NodeType == [offers : SUBSET Offered, retire : BOOLEAN, connected : BOOLEAN]
NoticeType == [isDiscovery : BOOLEAN, node : RemoteNodes, offers : SUBSET Offered]
WriterType ==
  {NoWriter} \cup
  [op : {"set"}, node : RemoteNodes, offers : SUBSET Offered, retire : BOOLEAN,
   todo : SUBSET Listeners] \cup
  [op : {"del"}, node : RemoteNodes, offers : SUBSET Offered, todo : SUBSET Listeners]

ClusterTypeOK ==
  /\ mapRpc \in [DOMAIN mapRpc -> NodeType] /\ DOMAIN mapRpc \subseteq RemoteNodes \cup {LocalNode}
  /\ writer \in WriterType /\ bound \in [Listeners -> SUBSET {"discover", "conn"}]
  /\ rpcListeners \subseteq Listeners /\ inbox \in [Listeners -> Seq(NoticeType)]
  /\ told \in [Listeners -> [RemoteNodes -> SUBSET Offered]]
  /\ current \in [Listeners -> SUBSET RemoteNodes]

OffersInv ==
  /\ \A n \in DOMAIN mapRpc : n # LocalNode /\ n \notin MasterNodes => mapRpc[n].offers # {}
  /\ writer.op = "set" => writer.offers # {} \/ writer.node \in MasterNodes
  /\ writer.op = "del" => writer.node \in DOMAIN mapRpc /\ writer.offers = mapRpc[writer.node].offers

\* The nodes that the tables list.
Listed == IF writer.op = "set" THEN DOMAIN mapRpc \ {writer.node} ELSE DOMAIN mapRpc
TablesInv ==
  /\ \A p \in mapServiceNode : \E n \in Listed : \E o \in mapRpc[n].offers : p = <<o[1], n>>
  /\ \A n \in Listed : \A o \in mapRpc[n].offers : <<o[1], n>> \in mapServiceNode
  /\ \A p \in mapTemplateServiceNode : \E n \in Listed : \E o \in mapRpc[n].offers :
       o[2] # NoTemplate /\ p = <<o[2], o[1]>>

\* What an event says, and whether a service that was told old of n will know it as
\* v when it has handled the events q.
Means(ev) == IF ev.isDiscovery THEN ev.offers ELSE {}
Naming(q, n) == {i \in 1..Len(q) : q[i].node = n}
Learns(q, n, old, v) ==
  \/ Naming(q, n) = {} /\ old = v
  \/ \E i \in Naming(q, n) : Means(q[i]) = v /\ \A j \in Naming(q, n) : j <= i

\* The services of n as service s should know them.
Notified(s, n) == writer.op # "free" /\ writer.node = n /\ s \notin writer.todo
Offers(n) == IF n \in DOMAIN mapRpc THEN mapRpc[n].offers ELSE {}
Announced(s, n) ==
  IF Notified(s, n) THEN (IF writer.op = "set" THEN writer.offers ELSE {}) ELSE Offers(n)
NoticesInv ==
  \A s \in Listeners : \A n \in current[s] : Learns(inbox[s], n, told[s][n], Announced(s, n))

ClusterInv == ClusterTypeOK /\ OffersInv /\ TablesInv /\ NoticesInv

LEMMA NoticeAdded ==
  ASSUME NEW q \in Seq(NoticeType), NEW e \in NoticeType, NEW n, NEW old, NEW v
  PROVE  /\ Append(q, e) \in Seq(NoticeType)
         /\ e.node = n /\ Means(e) = v => Learns(Append(q, e), n, old, v)
         /\ e.node # n /\ Learns(q, n, old, v) => Learns(Append(q, e), n, old, v)
<1> DEFINE r == Append(q, e)
<1>1. /\ r \in Seq(NoticeType) /\ Len(r) = Len(q) + 1 /\ Len(q) \in Nat
      /\ r[Len(q) + 1] = e /\ \A i \in 1..Len(q) : r[i] = q[i]
  OBVIOUS
<1> HIDE DEF r
<1>2. ASSUME e.node = n, Means(e) = v PROVE Learns(r, n, old, v)
  <2>1. Len(q) + 1 \in Naming(r, n)
    BY <1>1, <1>2 DEF Naming
  <2>2. \A j \in Naming(r, n) : j <= Len(q) + 1
    BY <1>1 DEF Naming
  <2> QED  BY <1>1, <1>2, <2>1, <2>2 DEF Learns
<1>3. ASSUME e.node # n, Learns(q, n, old, v) PROVE Learns(r, n, old, v)
  <2>1. Naming(r, n) = Naming(q, n)
    BY <1>1, <1>3 DEF Naming
  <2>2. \A i \in Naming(q, n) : r[i] = q[i]
    BY <1>1 DEF Naming
  <2> QED  BY <1>3, <2>1, <2>2 DEF Learns
<1> QED  BY <1>1, <1>2, <1>3 DEF r

LEMMA NoticeHandled ==
  ASSUME NEW q \in Seq(NoticeType), q # <<>>, NEW n, NEW old, NEW v, Learns(q, n, old, v)
  PROVE  /\ Head(q).node = n => Learns(Tail(q), n, Means(Head(q)), v)
         /\ Head(q).node # n => Learns(Tail(q), n, old, v)
<1> DEFINE t == Tail(q)
           h == Head(q)
<1>0. Len(q) \in Nat /\ Len(q) > 0
  OBVIOUS
<1>1. /\ t \in Seq(NoticeType) /\ Len(t) = Len(q) - 1
      /\ h = q[1] /\ h \in NoticeType /\ \A i \in 1..Len(t) : t[i] = q[i + 1]
  BY <1>0, HeadTailProperties
<1> HIDE DEF t, h
<1>2. \A i \in Int : i \in Naming(t, n) <=> i + 1 \in Naming(q, n) /\ i >= 1
  <2> SUFFICES ASSUME NEW i \in Int
               PROVE  i \in Naming(t, n) <=> i + 1 \in Naming(q, n) /\ i >= 1
    OBVIOUS
  <2>1. i \in 1..Len(t) <=> i + 1 \in 1..Len(q) /\ i >= 1
    BY <1>0, <1>1
  <2>2. i \in 1..Len(t) => t[i] = q[i + 1]
    BY <1>1
  <2> QED  BY <2>1, <2>2 DEF Naming
<1>3. Naming(q, n) \subseteq Int /\ Naming(t, n) \subseteq Int /\ (1 \in Naming(q, n) <=> h.node = n)
  BY <1>0, <1>1 DEF Naming
<1>4. ASSUME NEW i \in Naming(q, n), \A j \in Naming(q, n) : j <= i, i # 1,
             Means(q[i]) = v, NEW o
      PROVE  Learns(t, n, o, v)
  <2>1. i \in 1..Len(q)
    BY DEF Naming
  <2>2. i - 1 \in Int /\ (i - 1) + 1 = i /\ i - 1 >= 1 /\ i - 1 \in 1..Len(t)
    BY <1>0, <1>1, <1>4, <2>1
  <2>3. i - 1 \in Naming(t, n) /\ t[i - 1] = q[i]
    BY <1>1, <1>2, <2>2
  <2>4. ASSUME NEW j \in Naming(t, n) PROVE j <= i - 1
    <3>1. j \in Int /\ j + 1 \in Naming(q, n)
      BY <1>2, <1>3
    <3>2. j + 1 <= i
      BY <1>4, <3>1
    <3> QED  BY <2>1, <3>1, <3>2
  <2> QED  BY <1>4, <2>3, <2>4 DEF Learns
<1>5. ASSUME Naming(q, n) \subseteq {1} PROVE Naming(t, n) = {}
  <2> SUFFICES ASSUME NEW i \in Naming(t, n) PROVE FALSE
    OBVIOUS
  <2>1. i \in Int /\ i + 1 \in Naming(q, n) /\ i >= 1
    BY <1>2, <1>3
  <2> QED  BY <1>5, <2>1
<1>6. ASSUME h.node = n PROVE Learns(t, n, Means(h), v)
  <2>1. 1 \in Naming(q, n)
    BY <1>3, <1>6
  <2>2. PICK i \in Naming(q, n) : Means(q[i]) = v /\ \A j \in Naming(q, n) : j <= i
    BY <2>1 DEF Learns
  <2>3. CASE i = 1
    <3>1. Naming(q, n) \subseteq {1}
      <4> SUFFICES ASSUME NEW j \in Naming(q, n) PROVE j = 1
        OBVIOUS
      <4>1. j \in 1..Len(q) /\ j <= 1
        BY <2>2, <2>3 DEF Naming
      <4> QED  BY <1>0, <4>1
    <3>2. Means(h) = v
      BY <1>1, <2>2, <2>3
    <3> QED  BY <1>5, <3>1, <3>2 DEF Learns
  <2>4. CASE i # 1
    BY <1>4, <2>2, <2>4
  <2> QED  BY <2>3, <2>4
<1>7. ASSUME h.node # n PROVE Learns(t, n, old, v)
  <2>1. 1 \notin Naming(q, n)
    BY <1>3, <1>7
  <2>2. CASE Naming(q, n) = {} /\ old = v
    BY <1>5, <2>2 DEF Learns
  <2>3. CASE \E i \in Naming(q, n) : Means(q[i]) = v /\ \A j \in Naming(q, n) : j <= i
    BY <1>4, <2>1, <2>3
  <2> QED  BY <2>2, <2>3 DEF Learns
<1> QED  BY <1>6, <1>7 DEF t, h

LEMMA WriterFacts ==
  ASSUME writer \in WriterType
  PROVE  /\ writer.op \in {"free", "set", "del"} /\ writer.todo \subseteq Listeners
         /\ writer.op = "free" <=> writer = NoWriter
         /\ writer = NoWriter => writer.op = "free"
         /\ writer.op # "free" => writer.node \in RemoteNodes /\ writer.offers \subseteq Offered
         /\ writer.op = "set" => writer.retire \in BOOLEAN
BY DEF WriterType, NoWriter

LEMMA OffersArePairs ==
  \A o \in Offered : o = <<o[1], o[2]>>
BY ClusterAssumption DEF Offered

LEMMA ClusterStarts == ClusterInit => ClusterInv
<1> SUFFICES ASSUME ClusterInit PROVE ClusterInv
  OBVIOUS
<1>1. /\ DOMAIN mapRpc = {LocalNode} /\ mapRpc[LocalNode].offers = LocalOffers
      /\ mapRpc[LocalNode] \in NodeType /\ writer = NoWriter /\ writer.op = "free"
  BY DEF ClusterInit, NodeType, Offered, NoWriter
<1>2. ClusterTypeOK
  BY <1>1 DEF ClusterInit, ClusterTypeOK, WriterType
<1>3. OffersInv
  BY <1>1 DEF OffersInv
<1>4. Listed = {LocalNode}
  BY <1>1 DEF Listed
<1>5. TablesInv
  BY <1>1, <1>4 DEF ClusterInit, TablesInv, NamesOf, TemplatesOf
<1>6. NoticesInv
  BY DEF ClusterInit, NoticesInv
<1> QED  BY <1>2, <1>3, <1>5, <1>6 DEF ClusterInv

\* The lock is taken for a node that discovery brings: the tables forget it, and the
\* services that will not be notified are out of date.
LEMMA SetNodeKeeps ==
  ASSUME ClusterInv, NEW node \in RemoteNodes, NEW offers \in SUBSET Offered,
         offers # {} \/ node \in MasterNodes, NEW retire0 \in BOOLEAN, SetNode(node, offers, retire0)
  PROVE  ClusterInv'
<1> USE DEF ClusterInv
<1>2. (offers # {} \/ node \in MasterNodes) /\ offers \subseteq Offered
  OBVIOUS
<1>3. /\ writer = NoWriter /\ UNCHANGED <<mapRpc, bound, rpcListeners, inbox, told>>
      /\ writer' = [op |-> "set", node |-> node, offers |-> offers, retire |-> retire0,
                    todo |-> rpcListeners]
      /\ current' = Unheard(node)
  BY DEF SetNode
<1>4. writer.op = "free" /\ Listed = DOMAIN mapRpc
  BY <1>3 DEF NoWriter, Listed
<1>5. /\ writer' \in WriterType /\ writer'.op = "set" /\ writer'.node = node
      /\ writer'.offers = offers /\ writer'.todo = rpcListeners
  BY <1>2, <1>3 DEF WriterType, ClusterTypeOK
<1>6. ASSUME NEW s \in Listeners
      PROVE  /\ current'[s] \subseteq current[s]
             /\ s \notin rpcListeners => node \notin current'[s]
  BY <1>3 DEF Unheard
<1>7. ClusterTypeOK'
  <2>1. current' \in [Listeners -> SUBSET RemoteNodes]
    BY <1>3 DEF Unheard, ClusterTypeOK
  <2> QED  BY <1>3, <1>5, <2>1 DEF ClusterTypeOK
<1>8. OffersInv'
  BY <1>2, <1>3, <1>5 DEF OffersInv
<1>9. Listed' = DOMAIN mapRpc \ {node}
  BY <1>3, <1>5 DEF Listed
<1>10. /\ mapServiceNode' \subseteq mapServiceNode /\ mapTemplateServiceNode' \subseteq mapTemplateServiceNode
       /\ \A n \in DOMAIN mapRpc \ {node} : \A x : <<x, n>> \in mapServiceNode => <<x, n>> \in mapServiceNode'
       /\ node \in DOMAIN mapRpc => \A o \in mapRpc[node].offers :
            /\ <<o[1], node>> \notin mapServiceNode'
            /\ o[2] # NoTemplate => <<o[2], o[1]>> \notin mapTemplateServiceNode'
  <2>1. CASE node \in DOMAIN mapRpc
    <3>1. /\ mapServiceNode' = mapServiceNode \ (NamesOf(mapRpc[node].offers) \X {node})
          /\ mapTemplateServiceNode' = mapTemplateServiceNode \ TemplatesOf(mapRpc[node].offers)
      BY <2>1 DEF SetNode, delServiceNode
    <3>2. \A o \in mapRpc[node].offers :
            /\ o[1] \in NamesOf(mapRpc[node].offers)
            /\ o[2] # NoTemplate => <<o[2], o[1]>> \in TemplatesOf(mapRpc[node].offers)
      BY DEF NamesOf, TemplatesOf
    <3> QED  BY <3>1, <3>2
  <2>2. CASE node \notin DOMAIN mapRpc
    BY <2>2 DEF SetNode
  <2> QED  BY <2>1, <2>2
<1>11. TablesInv'
  <2>1. ASSUME NEW p \in mapServiceNode'
        PROVE  \E n \in Listed' : \E o \in mapRpc'[n].offers : p = <<o[1], n>>
    <3>1. PICK n \in DOMAIN mapRpc : \E o \in mapRpc[n].offers : p = <<o[1], n>>
      BY <1>4, <1>10 DEF TablesInv
    <3>2. n # node
      BY <1>10, <3>1
    <3> QED  BY <1>3, <1>9, <3>1, <3>2
  <2>2. ASSUME NEW n \in Listed', NEW o \in mapRpc'[n].offers PROVE <<o[1], n>> \in mapServiceNode'
    BY <1>3, <1>4, <1>9, <1>10 DEF TablesInv
  <2>3. ASSUME NEW p \in mapTemplateServiceNode'
        PROVE  \E n \in Listed' : \E o \in mapRpc'[n].offers : o[2] # NoTemplate /\ p = <<o[2], o[1]>>
    <3>1. PICK n \in DOMAIN mapRpc : \E o \in mapRpc[n].offers : o[2] # NoTemplate /\ p = <<o[2], o[1]>>
      BY <1>4, <1>10 DEF TablesInv
    <3>2. n # node
      BY <1>10, <3>1
    <3> QED  BY <1>3, <1>9, <3>1, <3>2
  <2> QED  BY <2>1, <2>2, <2>3 DEF TablesInv
<1>12. NoticesInv'
  <2> SUFFICES ASSUME NEW s \in Listeners, NEW n \in current'[s]
               PROVE  Learns(inbox'[s], n, told'[s][n], Announced(s, n)')
    BY DEF NoticesInv
  <2>1. Learns(inbox[s], n, told[s][n], Announced(s, n))
    BY <1>6 DEF NoticesInv
  <2>2. Announced(s, n) = Offers(n)
    BY <1>4 DEF Announced, Notified
  <2>3. ~Notified(s, n)'
    BY <1>5, <1>6 DEF Notified
  <2>4. Announced(s, n)' = Offers(n)
    BY <1>3, <2>3 DEF Announced, Offers
  <2> QED  BY <1>3, <2>1, <2>2, <2>4
<1> QED  BY <1>7, <1>8, <1>11, <1>12

LEMMA SetNodeInfoKeeps ==
  ASSUME ClusterInv, NEW master \in MasterNodes, NEW node \in RemoteNodes,
         NEW a \in Announcements, NEW retire0 \in BOOLEAN, SetNodeInfo(master, node, a, retire0)
  PROVE  ClusterInv'
<1>1. PICK offers : offers = Discovered(master, node, a)
  OBVIOUS
<1>2. offers # {} /\ offers \in SUBSET Offered /\ SetNode(node, offers, retire0)
  BY <1>1 DEF SetNodeInfo, Discovered, Offered
<1> QED  BY <1>2, SetNodeKeeps

\* A master of the configuration is set without services.
LEMMA AddMasterKeeps ==
  ASSUME ClusterInv, NEW node \in MasterNodes, addDiscoveryMaster(node)
  PROVE  ClusterInv'
<1>1. node \in RemoteNodes /\ SetNode(node, {}, FALSE)
  BY ClusterAssumption DEF addDiscoveryMaster
<1> QED  BY <1>1, SetNodeKeeps

LEMMA DelNodeKeeps ==
  ASSUME ClusterInv, NEW node \in RemoteNodes, DelNode(node)
  PROVE  ClusterInv'
<1> USE DEF ClusterInv
<1>1. /\ writer = NoWriter /\ node \in DOMAIN mapRpc
      /\ UNCHANGED <<mapRpc, mapServiceNode, mapTemplateServiceNode, bound, rpcListeners, inbox, told>>
      /\ writer' = [op |-> "del", node |-> node, offers |-> mapRpc[node].offers, todo |-> rpcListeners]
      /\ current' = Unheard(node)
  BY DEF DelNode, tableVars
<1>2. writer.op = "free" /\ Listed = DOMAIN mapRpc
  BY <1>1 DEF NoWriter, Listed
<1>3. mapRpc[node].offers \subseteq Offered
  BY <1>1 DEF ClusterTypeOK, NodeType
<1>4. /\ writer' \in WriterType /\ writer'.op = "del" /\ writer'.node = node
      /\ writer'.offers = mapRpc[node].offers /\ writer'.todo = rpcListeners
  BY <1>1, <1>3 DEF WriterType, ClusterTypeOK
<1>5. ASSUME NEW s \in Listeners
      PROVE  /\ current'[s] \subseteq current[s]
             /\ s \notin rpcListeners => node \notin current'[s]
  BY <1>1 DEF Unheard
<1>6. ClusterTypeOK'
  <2>1. current' \in [Listeners -> SUBSET RemoteNodes]
    BY <1>1 DEF Unheard, ClusterTypeOK
  <2> QED  BY <1>1, <1>4, <2>1 DEF ClusterTypeOK
<1>7. OffersInv'
  BY <1>1, <1>4 DEF OffersInv
<1>8. Listed' = DOMAIN mapRpc
  BY <1>1, <1>4 DEF Listed
<1>9. TablesInv'
  BY <1>1, <1>2, <1>8 DEF TablesInv
<1>10. NoticesInv'
  <2> SUFFICES ASSUME NEW s \in Listeners, NEW n \in current'[s]
               PROVE  Learns(inbox'[s], n, told'[s][n], Announced(s, n)')
    BY DEF NoticesInv
  <2>1. Learns(inbox[s], n, told[s][n], Announced(s, n))
    BY <1>5 DEF NoticesInv
  <2>2. Announced(s, n) = Offers(n)
    BY <1>2 DEF Announced, Notified
  <2>3. ~Notified(s, n)'
    BY <1>4, <1>5 DEF Notified
  <2>4. Announced(s, n)' = Offers(n)
    BY <1>1, <2>3 DEF Announced, Offers
  <2> QED  BY <1>1, <2>1, <2>2, <2>4
<1> QED  BY <1>6, <1>7, <1>9, <1>10

\* A service is notified: it has the event, or it is out of date.
LEMMA TriggerKeeps ==
  ASSUME ClusterInv, NEW s \in Listeners, TriggerDiscoveryEvent(s)
  PROVE  ClusterInv'
<1> USE DEF ClusterInv
<1>1. /\ s \in writer.todo /\ writer' = [writer EXCEPT !.todo = @ \ {s}]
      /\ UNCHANGED <<mapRpc, mapServiceNode, mapTemplateServiceNode, bound, rpcListeners, told>>
  BY DEF TriggerDiscoveryEvent, tableVars
<1>2. PICK ev, delivered, node :
        /\ ev = [isDiscovery |-> writer.op = "set", node |-> writer.node, offers |-> writer.offers]
        /\ delivered = ("discover" \in bound[s] /\ Len(inbox[s]) < EventRoom)
        /\ node = writer.node
  OBVIOUS
<1>3. /\ inbox' = IF delivered THEN [inbox EXCEPT ![s] = Append(@, ev)] ELSE inbox
      /\ current' = [current EXCEPT ![s] = IF delivered THEN @ \cup {node} ELSE @ \ {node}]
  BY <1>2 DEF TriggerDiscoveryEvent
<1>4. /\ writer \in WriterType /\ writer.op \in {"set", "del"} /\ node \in RemoteNodes
      /\ writer.offers \subseteq Offered /\ writer.todo \subseteq Listeners
  <2>1. writer \in WriterType
    BY DEF ClusterTypeOK
  <2>2. writer # NoWriter
    BY <1>1 DEF NoWriter
  <2> QED  BY <1>2, <2>1, <2>2, WriterFacts
<1>5. /\ writer' \in WriterType /\ writer'.op = writer.op /\ writer'.node = writer.node
      /\ writer'.offers = writer.offers /\ writer'.todo = writer.todo \ {s}
  BY <1>1, <1>4 DEF WriterType, NoWriter
<1>6. ev \in NoticeType /\ ev.node = node /\ ev.offers = writer.offers
  <2>1. (writer.op = "set") \in BOOLEAN
    OBVIOUS
  <2> QED  BY <1>2, <1>4, <2>1 DEF NoticeType
<1>7. Means(ev) = IF writer.op = "set" THEN writer.offers ELSE {}
  <2>1. ev.isDiscovery = (writer.op = "set")
    BY <1>2
  <2> QED  BY <1>6, <2>1 DEF Means
<1>8. /\ inbox \in [Listeners -> Seq(NoticeType)] /\ inbox' \in [Listeners -> Seq(NoticeType)]
      /\ current \in [Listeners -> SUBSET RemoteNodes] /\ current' \in [Listeners -> SUBSET RemoteNodes]
  <2>1. inbox \in [Listeners -> Seq(NoticeType)] /\ current \in [Listeners -> SUBSET RemoteNodes]
    BY DEF ClusterTypeOK
  <2>2. Append(inbox[s], ev) \in Seq(NoticeType)
    BY <1>6, <2>1
  <2> QED  BY <1>3, <1>4, <2>1, <2>2
<1>9. ClusterTypeOK'
  BY <1>1, <1>5, <1>8 DEF ClusterTypeOK
<1>10. OffersInv'
  BY <1>1, <1>5 DEF OffersInv
<1>11. Listed' = Listed
  BY <1>1, <1>5 DEF Listed
<1>12. TablesInv'
  BY <1>1, <1>11 DEF TablesInv
<1>13. ASSUME NEW t \in Listeners, NEW n, (t # s \/ n # node) PROVE Announced(t, n)' = Announced(t, n)
  <2>1. Offers(n)' = Offers(n)
    BY <1>1 DEF Offers
  <2>2. Notified(t, n)' <=> Notified(t, n)
    BY <1>2, <1>5, <1>13 DEF Notified
  <2> QED  BY <1>5, <2>1, <2>2 DEF Announced
<1>14. NoticesInv'
  <2> SUFFICES ASSUME NEW t \in Listeners, NEW n \in current'[t]
               PROVE  Learns(inbox'[t], n, told'[t][n], Announced(t, n)')
    BY DEF NoticesInv
  <2>1. CASE t # s
    <3>1. inbox'[t] = inbox[t] /\ current'[t] = current[t]
      BY <1>3, <1>8, <2>1
    <3> QED  BY <1>1, <1>13, <2>1, <3>1 DEF NoticesInv
  <2>2. CASE t = s /\ n # node
    <3>1. n \in current[s]
      BY <1>3, <1>8, <2>2
    <3>2. Learns(inbox[s], n, told[s][n], Announced(s, n))
      BY <3>1 DEF NoticesInv
    <3>3. inbox[s] \in Seq(NoticeType) /\ (inbox'[s] = inbox[s] \/ inbox'[s] = Append(inbox[s], ev))
      BY <1>3, <1>8
    <3>4. Learns(Append(inbox[s], ev), n, told[s][n], Announced(s, n))
      BY <1>6, <2>2, <3>2, <3>3, NoticeAdded
    <3> QED  BY <1>1, <1>13, <2>2, <3>2, <3>3, <3>4
  <2>3. CASE t = s /\ n = node
    <3>1. delivered
      BY <1>3, <1>8, <2>3
    <3>2. inbox'[s] = Append(inbox[s], ev) /\ inbox[s] \in Seq(NoticeType)
      BY <1>3, <1>8, <3>1
    <3>3. Notified(s, n)'
      BY <1>2, <1>4, <1>5, <2>3 DEF Notified
    <3>4. Announced(s, n)' = Means(ev)
      BY <1>5, <1>7, <3>3 DEF Announced
    <3> QED  BY <1>6, <2>3, <3>2, <3>4, NoticeAdded
  <2> QED  BY <2>1, <2>2, <2>3
<1> QED  BY <1>9, <1>10, <1>12, <1>14

LEMMA SetNodeDoneKeeps ==
  ASSUME ClusterInv, SetNodeDone
  PROVE  ClusterInv'
<1> USE DEF ClusterInv
<1>1. /\ writer.op = "set" /\ writer.todo = {} /\ writer' = NoWriter
      /\ mapServiceNode' = mapServiceNode \cup (NamesOf(writer.offers) \X {writer.node})
      /\ mapTemplateServiceNode' = mapTemplateServiceNode \cup TemplatesOf(writer.offers)
      /\ UNCHANGED <<bound, rpcListeners, inbox, told, current>>
  BY DEF SetNodeDone
<1>2. PICK node, offers : node = writer.node /\ offers = writer.offers
  OBVIOUS
<1>3. /\ node \in RemoteNodes /\ offers \subseteq Offered /\ (offers # {} \/ node \in MasterNodes) /\ writer.retire \in BOOLEAN
      /\ Listed = DOMAIN mapRpc \ {node}
  <2>1. writer \in WriterType
    BY DEF ClusterTypeOK
  <2> QED  BY <1>1, <1>2, <2>1, WriterFacts DEF OffersInv, Listed
<1>4. /\ DOMAIN mapRpc' = DOMAIN mapRpc \cup {node} /\ mapRpc'[node].offers = offers
      /\ \A n \in DOMAIN mapRpc : n # node => mapRpc'[n] = mapRpc[n]
      /\ mapRpc' \in [DOMAIN mapRpc' -> NodeType]
  <2> DEFINE new == [offers |-> offers, retire |-> writer.retire,
                     connected |-> node \in DOMAIN mapRpc /\ mapRpc[node].connected]
  <2>1. mapRpc' = [n \in DOMAIN mapRpc \cup {node} |-> IF n # node THEN mapRpc[n] ELSE new]
    BY <1>2 DEF SetNodeDone
  <2>2. (node \in DOMAIN mapRpc /\ mapRpc[node].connected) \in BOOLEAN
    OBVIOUS
  <2>3. new \in NodeType /\ new.offers = offers
    BY <1>3, <2>2 DEF NodeType
  <2>4. \A n \in DOMAIN mapRpc : mapRpc[n] \in NodeType
    BY DEF ClusterTypeOK
  <2> HIDE DEF new
  <2> QED  BY <2>1, <2>3, <2>4
<1>5. writer' \in WriterType /\ writer'.op = "free" /\ Listed' = DOMAIN mapRpc'
  BY <1>1 DEF WriterType, NoWriter, Listed
<1>6. ClusterTypeOK'
  BY <1>1, <1>3, <1>4, <1>5 DEF ClusterTypeOK
<1>7. OffersInv'
  BY <1>3, <1>4, <1>5 DEF OffersInv
<1>8. TablesInv'
  <2>1. ASSUME NEW p \in mapServiceNode'
        PROVE  \E n \in Listed' : \E o \in mapRpc'[n].offers : p = <<o[1], n>>
    <3>1. CASE p \in mapServiceNode
      BY <1>3, <1>4, <1>5, <3>1 DEF TablesInv
    <3>2. CASE p \in NamesOf(offers) \X {node}
      <4>1. PICK o \in offers : p = <<o[1], node>>
        BY <3>2 DEF NamesOf
      <4> QED  BY <1>4, <1>5, <4>1
    <3> QED  BY <1>1, <1>2, <3>1, <3>2
  <2>2. ASSUME NEW n \in Listed', NEW o \in mapRpc'[n].offers PROVE <<o[1], n>> \in mapServiceNode'
    <3>1. CASE n = node
      <4>1. o[1] \in NamesOf(offers)
        BY <1>4, <3>1 DEF NamesOf
      <4> QED  BY <1>1, <1>2, <3>1, <4>1
    <3>2. CASE n # node
      BY <1>1, <1>3, <1>4, <1>5, <3>2 DEF TablesInv
    <3> QED  BY <3>1, <3>2
  <2>3. ASSUME NEW p \in mapTemplateServiceNode'
        PROVE  \E n \in Listed' : \E o \in mapRpc'[n].offers : o[2] # NoTemplate /\ p = <<o[2], o[1]>>
    <3>1. CASE p \in mapTemplateServiceNode
      BY <1>3, <1>4, <1>5, <3>1 DEF TablesInv
    <3>2. CASE p \in TemplatesOf(offers)
      <4>1. PICK o \in offers : o[2] # NoTemplate /\ p = <<o[2], o[1]>>
        BY <3>2 DEF TemplatesOf
      <4> QED  BY <1>4, <1>5, <4>1
    <3> QED  BY <1>1, <1>2, <3>1, <3>2
  <2> QED  BY <2>1, <2>2, <2>3 DEF TablesInv
<1>9. NoticesInv'
  <2> SUFFICES ASSUME NEW s \in Listeners, NEW n \in current'[s]
               PROVE  Learns(inbox'[s], n, told'[s][n], Announced(s, n)')
    BY DEF NoticesInv
  <2>1. Learns(inbox[s], n, told[s][n], Announced(s, n))
    BY <1>1 DEF NoticesInv
  <2>2. Announced(s, n)' = Offers(n)'
    BY <1>5 DEF Announced, Notified
  <2>3. CASE n = node
    <3>1. Announced(s, n) = offers
      BY <1>1, <1>2, <2>3 DEF Announced, Notified
    <3>2. Offers(n)' = offers
      BY <1>4, <2>3 DEF Offers
    <3> QED  BY <1>1, <2>1, <2>2, <3>1, <3>2
  <2>4. CASE n # node
    <3>1. Announced(s, n) = Offers(n)
      BY <1>2, <2>4 DEF Announced, Notified
    <3>2. Offers(n)' = Offers(n)
      BY <1>4, <2>4 DEF Offers
    <3> QED  BY <1>1, <2>1, <2>2, <3>1, <3>2
  <2> QED  BY <2>3, <2>4
<1> QED  BY <1>6, <1>7, <1>8, <1>9

LEMMA DelNodeDoneKeeps ==
  ASSUME ClusterInv, DelNodeDone
  PROVE  ClusterInv'
<1> USE DEF ClusterInv
<1>1. /\ writer.op = "del" /\ writer.todo = {} /\ writer' = NoWriter
      /\ UNCHANGED <<bound, rpcListeners, inbox, told, current>>
  BY DEF DelNodeDone
<1>2. PICK node, offers : node = writer.node /\ offers = writer.offers
  OBVIOUS
<1>3. /\ node \in DOMAIN mapRpc /\ offers = mapRpc[node].offers /\ Listed = DOMAIN mapRpc
  BY <1>1, <1>2 DEF OffersInv, Listed
<1>4. /\ mapServiceNode' = mapServiceNode \ (NamesOf(offers) \X {node})
      /\ mapTemplateServiceNode' = mapTemplateServiceNode \ TemplatesOf(offers)
      /\ mapRpc' = [n \in DOMAIN mapRpc \ {node} |-> mapRpc[n]]
  BY <1>2 DEF DelNodeDone, delServiceNode
<1>5. /\ DOMAIN mapRpc' = DOMAIN mapRpc \ {node}
      /\ \A n \in DOMAIN mapRpc' : mapRpc'[n] = mapRpc[n]
      /\ mapRpc' \in [DOMAIN mapRpc' -> NodeType]
  BY <1>4 DEF ClusterTypeOK
<1>6. writer' \in WriterType /\ writer'.op = "free" /\ Listed' = DOMAIN mapRpc'
  BY <1>1 DEF WriterType, NoWriter, Listed
<1>7. ClusterTypeOK'
  BY <1>1, <1>5, <1>6 DEF ClusterTypeOK
<1>8. OffersInv'
  BY <1>5, <1>6 DEF OffersInv
<1>9. TablesInv'
  <2>0. \A o \in offers : o[1] \in NamesOf(offers) /\ (o[2] # NoTemplate => <<o[2], o[1]>> \in TemplatesOf(offers))
    BY DEF NamesOf, TemplatesOf
  <2>1. ASSUME NEW p \in mapServiceNode'
        PROVE  \E n \in Listed' : \E o \in mapRpc'[n].offers : p = <<o[1], n>>
    <3>1. PICK n \in DOMAIN mapRpc : \E o \in mapRpc[n].offers : p = <<o[1], n>>
      BY <1>3, <1>4 DEF TablesInv
    <3>2. ASSUME n = node PROVE FALSE
      <4>1. PICK o \in offers : p = <<o[1], node>>
        BY <1>3, <3>1, <3>2
      <4>2. p \in NamesOf(offers) \X {node}
        BY <2>0, <4>1
      <4> QED  BY <1>4, <4>2
    <3> QED  BY <1>5, <1>6, <3>1, <3>2
  <2>2. ASSUME NEW n \in Listed', NEW o \in mapRpc'[n].offers PROVE <<o[1], n>> \in mapServiceNode'
    <3>1. n \in DOMAIN mapRpc /\ n # node /\ o \in mapRpc[n].offers
      BY <1>5, <1>6
    <3>2. <<o[1], n>> \in mapServiceNode
      BY <1>3, <3>1 DEF TablesInv
    <3> QED  BY <1>4, <3>1, <3>2
  <2>3. ASSUME NEW p \in mapTemplateServiceNode'
        PROVE  \E n \in Listed' : \E o \in mapRpc'[n].offers : o[2] # NoTemplate /\ p = <<o[2], o[1]>>
    <3>1. PICK n \in DOMAIN mapRpc : \E o \in mapRpc[n].offers : o[2] # NoTemplate /\ p = <<o[2], o[1]>>
      BY <1>3, <1>4 DEF TablesInv
    <3>2. ASSUME n = node PROVE FALSE
      <4>1. PICK o \in offers : o[2] # NoTemplate /\ p = <<o[2], o[1]>>
        BY <1>3, <3>1, <3>2
      <4>2. p \in TemplatesOf(offers)
        BY <2>0, <4>1
      <4> QED  BY <1>4, <4>2
    <3> QED  BY <1>5, <1>6, <3>1, <3>2
  <2> QED  BY <2>1, <2>2, <2>3 DEF TablesInv
<1>10. NoticesInv'
  <2> SUFFICES ASSUME NEW s \in Listeners, NEW n \in current'[s]
               PROVE  Learns(inbox'[s], n, told'[s][n], Announced(s, n)')
    BY DEF NoticesInv
  <2>1. Learns(inbox[s], n, told[s][n], Announced(s, n))
    BY <1>1 DEF NoticesInv
  <2>2. Announced(s, n)' = Offers(n)'
    BY <1>6 DEF Announced, Notified
  <2>3. CASE n = node
    <3>1. Announced(s, n) = {}
      BY <1>1, <1>2, <2>3 DEF Announced, Notified
    <3>2. Offers(n)' = {}
      BY <1>5, <2>3 DEF Offers
    <3> QED  BY <1>1, <2>1, <2>2, <3>1, <3>2
  <2>4. CASE n # node
    <3>1. Announced(s, n) = Offers(n)
      BY <1>2, <2>4 DEF Announced, Notified
    <3>2. Offers(n)' = Offers(n)
      BY <1>5, <2>4 DEF Offers
    <3> QED  BY <1>1, <2>1, <2>2, <3>1, <3>2
  <2> QED  BY <2>3, <2>4
<1> QED  BY <1>7, <1>8, <1>9, <1>10

LEMMA ClientEventKeeps ==
  ASSUME ClusterInv, NEW node \in RemoteNodes, ClientEvent(node)
  PROVE  ClusterInv'
<1> USE DEF ClusterInv
<1>1. /\ node \in DOMAIN mapRpc
      /\ UNCHANGED <<mapServiceNode, mapTemplateServiceNode, writer, bound, rpcListeners, inbox, told, current>>
  BY DEF ClientEvent
<1>2. /\ DOMAIN mapRpc' = DOMAIN mapRpc /\ mapRpc' \in [DOMAIN mapRpc' -> NodeType]
      /\ \A n \in DOMAIN mapRpc : mapRpc'[n].offers = mapRpc[n].offers
  <2>1. mapRpc' = [mapRpc EXCEPT ![node] = [mapRpc[node] EXCEPT !.connected = ~mapRpc[node].connected]]
    BY DEF ClientEvent
  <2>2. mapRpc \in [DOMAIN mapRpc -> NodeType]
    BY DEF ClusterTypeOK
  <2>3. /\ [mapRpc[node] EXCEPT !.connected = ~mapRpc[node].connected] \in NodeType
        /\ [mapRpc[node] EXCEPT !.connected = ~mapRpc[node].connected].offers = mapRpc[node].offers
    BY <1>1, <2>2 DEF NodeType
  <2> QED  BY <1>1, <2>1, <2>2, <2>3
<1>3. ClusterTypeOK'
  BY <1>1, <1>2 DEF ClusterTypeOK
<1>4. OffersInv'
  BY <1>1, <1>2 DEF OffersInv
<1>5. Listed' = Listed /\ Listed \subseteq DOMAIN mapRpc
  BY <1>1, <1>2 DEF Listed
<1>6. TablesInv'
  <2>1. \A n \in Listed : mapRpc'[n].offers = mapRpc[n].offers
    BY <1>2, <1>5
  <2> QED  BY <1>1, <1>5, <2>1 DEF TablesInv
<1>7. \A s, n : Announced(s, n)' = Announced(s, n)
  BY <1>1, <1>2 DEF Announced, Notified, Offers
<1>8. NoticesInv'
  BY <1>1, <1>7 DEF NoticesInv
<1> QED  BY <1>3, <1>4, <1>6, <1>8

\* Steps that leave the tables, the lock, the channels and what was told alone.
LEMMA ListenersKeep ==
  ASSUME ClusterInv, UNCHANGED <<tableVars, writer, inbox, told, current>>,
         bound' \in [Listeners -> SUBSET {"discover", "conn"}], rpcListeners' \subseteq Listeners
  PROVE  ClusterInv'
<1> USE DEF ClusterInv
<1>1. UNCHANGED <<mapRpc, mapServiceNode, mapTemplateServiceNode>>
  BY DEF tableVars
<1>2. ClusterTypeOK' /\ OffersInv'
  BY <1>1 DEF ClusterTypeOK, OffersInv
<1>3. TablesInv'
  BY <1>1 DEF TablesInv, Listed
<1>4. NoticesInv'
  BY <1>1 DEF NoticesInv, Announced, Notified, Offers
<1> QED  BY <1>2, <1>3, <1>4

LEMMA RegListenersKeep ==
  ASSUME ClusterInv, NEW s \in Listeners, NEW what \in {"discover", "conn"},
         RegListener(s, what) \/ UnRegListener(s, what)
  PROVE  ClusterInv'
<1>1. bound \in [Listeners -> SUBSET {"discover", "conn"}] /\ rpcListeners \subseteq Listeners
  BY DEF ClusterInv, ClusterTypeOK
<1>2. UNCHANGED <<tableVars, writer, inbox, told, current>>
  BY DEF RegListener, UnRegListener
<1>3. bound' = [bound EXCEPT ![s] = @ \cup {what}] \/ bound' = [bound EXCEPT ![s] = @ \ {what}]
  BY DEF RegListener, UnRegListener
<1>4. rpcListeners' \subseteq Listeners
  BY <1>1 DEF RegListener, UnRegListener, RegRpcEvent, UnRegRpcEvent
<1>5. bound' \in [Listeners -> SUBSET {"discover", "conn"}]
  BY <1>1, <1>3
<1> QED  BY <1>2, <1>4, <1>5, ListenersKeep

LEMMA OnDiscoverKeeps ==
  ASSUME ClusterInv, NEW s \in Listeners, OnDiscoverServiceEvent(s)
  PROVE  ClusterInv'
<1> USE DEF ClusterInv
<1>1. /\ inbox[s] # <<>> /\ inbox' = [inbox EXCEPT ![s] = Tail(@)]
      /\ UNCHANGED <<mapRpc, mapServiceNode, mapTemplateServiceNode, writer, bound, rpcListeners>>
  BY DEF OnDiscoverServiceEvent, tableVars
<1>2. PICK ev, node : ev = Head(inbox[s]) /\ node = ev.node
  OBVIOUS
<1>3. /\ inbox \in [Listeners -> Seq(NoticeType)] /\ told \in [Listeners -> [RemoteNodes -> SUBSET Offered]]
      /\ current \in [Listeners -> SUBSET RemoteNodes]
  BY DEF ClusterTypeOK
<1>4. inbox[s] \in Seq(NoticeType) /\ ev \in NoticeType /\ Tail(inbox[s]) \in Seq(NoticeType)
  <2>1. inbox[s] \in Seq(NoticeType)
    BY <1>3
  <2> QED  BY <1>1, <1>2, <2>1, HeadTailProperties
<1>5. node \in RemoteNodes /\ Means(ev) \subseteq Offered
  BY <1>2, <1>4 DEF NoticeType, Means
<1>6. CASE "discover" \in bound[s]
  <2>1. told' = [told EXCEPT ![s][node] = Means(ev)] /\ current' = current
    BY <1>2, <1>6 DEF OnDiscoverServiceEvent, Means
  <2>2. /\ told' \in [Listeners -> [RemoteNodes -> SUBSET Offered]] /\ told'[s][node] = Means(ev)
        /\ \A n \in RemoteNodes : n # node => told'[s][n] = told[s][n]
        /\ \A t \in Listeners : t # s => told'[t] = told[t]
    BY <1>3, <1>5, <2>1
  <2>3. /\ inbox' \in [Listeners -> Seq(NoticeType)] /\ inbox'[s] = Tail(inbox[s])
        /\ \A t \in Listeners : t # s => inbox'[t] = inbox[t]
    BY <1>1, <1>3, <1>4
  <2>4. ClusterTypeOK'
    BY <1>1, <2>1, <2>2, <2>3 DEF ClusterTypeOK
  <2>5. ASSUME NEW t \in Listeners, NEW n \in current'[t]
        PROVE  Learns(inbox'[t], n, told'[t][n], Announced(t, n)')
    <3>1. Learns(inbox[t], n, told[t][n], Announced(t, n))
      BY <2>1 DEF NoticesInv
    <3>2. Announced(t, n)' = Announced(t, n)
      BY <1>1 DEF Announced, Notified, Offers
    <3>3. CASE t # s
      BY <2>2, <2>3, <3>1, <3>2, <3>3
    <3>4. CASE t = s
      <4>1. n \in RemoteNodes
        BY <1>3, <2>1
      <4>2. /\ node = n => Learns(Tail(inbox[s]), n, Means(ev), Announced(t, n))
            /\ node # n => Learns(Tail(inbox[s]), n, told[s][n], Announced(t, n))
        BY <1>1, <1>2, <1>4, <3>1, <3>4, NoticeHandled
      <4> QED  BY <2>2, <2>3, <3>2, <3>4, <4>1, <4>2
    <3> QED  BY <3>3, <3>4
  <2>6. OffersInv' /\ TablesInv'
    BY <1>1 DEF OffersInv, TablesInv, Listed
  <2> QED  BY <2>4, <2>5, <2>6 DEF NoticesInv
<1>7. CASE "discover" \notin bound[s]
  <2>1. told' = told /\ current' = [current EXCEPT ![s] = @ \ {node}]
    BY <1>2, <1>7 DEF OnDiscoverServiceEvent
  <2>2. /\ current' \in [Listeners -> SUBSET RemoteNodes] /\ current'[s] = current[s] \ {node}
        /\ \A t \in Listeners : t # s => current'[t] = current[t]
    BY <1>3, <2>1
  <2>3. /\ inbox' \in [Listeners -> Seq(NoticeType)] /\ inbox'[s] = Tail(inbox[s])
        /\ \A t \in Listeners : t # s => inbox'[t] = inbox[t]
    BY <1>1, <1>3, <1>4
  <2>4. ClusterTypeOK'
    BY <1>1, <2>1, <2>2, <2>3 DEF ClusterTypeOK
  <2>5. ASSUME NEW t \in Listeners, NEW n \in current'[t]
        PROVE  Learns(inbox'[t], n, told'[t][n], Announced(t, n)')
    <3>1. Learns(inbox[t], n, told[t][n], Announced(t, n))
      BY <2>2 DEF NoticesInv
    <3>2. Announced(t, n)' = Announced(t, n)
      BY <1>1 DEF Announced, Notified, Offers
    <3>3. CASE t # s
      BY <2>1, <2>3, <3>1, <3>2, <3>3
    <3>4. CASE t = s
      <4>1. n # node
        BY <2>2, <3>4
      <4>2. Learns(Tail(inbox[s]), n, told[s][n], Announced(t, n))
        BY <1>1, <1>2, <1>4, <3>1, <3>4, <4>1, NoticeHandled
      <4> QED  BY <2>1, <2>3, <3>2, <3>4, <4>2
    <3> QED  BY <3>3, <3>4
  <2>6. OffersInv' /\ TablesInv'
    BY <1>1 DEF OffersInv, TablesInv, Listed
  <2> QED  BY <2>4, <2>5, <2>6 DEF NoticesInv
<1> QED  BY <1>6, <1>7

LEMMA ClusterInvariant == ClusterSpec => []ClusterInv
<1>1. ClusterInit => ClusterInv
  BY ClusterStarts
<1>2. ASSUME ClusterInv, [ClusterNext]_clusterVars PROVE ClusterInv'
  <2>1. CASE \E master \in MasterNodes, n \in RemoteNodes, a \in Announcements, b \in BOOLEAN :
               SetNodeInfo(master, n, a, b)
    BY <1>2, <2>1, SetNodeInfoKeeps
  <2>2. CASE \E n \in RemoteNodes : DelNode(n)
    BY <1>2, <2>2, DelNodeKeeps
  <2>3. CASE \E s \in Listeners : TriggerDiscoveryEvent(s)
    BY <1>2, <2>3, TriggerKeeps
  <2>4. CASE SetNodeDone
    BY <1>2, <2>4, SetNodeDoneKeeps
  <2>5. CASE DelNodeDone
    BY <1>2, <2>5, DelNodeDoneKeeps
  <2>6. CASE \E n \in RemoteNodes : ClientEvent(n)
    BY <1>2, <2>6, ClientEventKeeps
  <2>7. CASE \E s \in Listeners, what \in {"discover", "conn"} : RegListener(s, what) \/ UnRegListener(s, what)
    BY <1>2, <2>7, RegListenersKeep
  <2>8. CASE \E s \in Listeners : OnDiscoverServiceEvent(s)
    BY <1>2, <2>8, OnDiscoverKeeps
  <2>10. CASE \E n \in MasterNodes : addDiscoveryMaster(n)
    BY <1>2, <2>10, AddMasterKeeps
  <2>9. CASE UNCHANGED clusterVars
    <3>1. UNCHANGED <<tableVars, writer, inbox, told, current, bound, rpcListeners>>
      BY <2>9 DEF clusterVars
    <3>2. bound' \in [Listeners -> SUBSET {"discover", "conn"}] /\ rpcListeners' \subseteq Listeners
      BY <1>2, <3>1 DEF ClusterInv, ClusterTypeOK
    <3> QED  BY <1>2, <3>1, <3>2, ListenersKeep
  <2> QED  BY <1>2, <2>1, <2>2, <2>3, <2>4, <2>5, <2>6, <2>7, <2>8, <2>9, <2>10 DEF ClusterNext
<1>3. ClusterInv /\ [ClusterNext]_clusterVars => ClusterInv'
  BY <1>2
<1> QED  BY <1>1, <1>3, PTL DEF ClusterSpec

\* Whenever the tables can be read they agree with each other and with the events of
\* discovery: a service that has handled the last event about a node finds the
\* services it named and a client if there are any, or if it is a master, a lookup by name finds
\* exactly the usable clients of the nodes that offer the service, and a lookup by
\* template goes to services that a known node made from it.
THEOREM TablesAgreeWithEvents == ClusterSpec => []LookupsAgree
<1>1. ASSUME ClusterInv PROVE LookupsAgree
  <2> SUFFICES ASSUME writer = NoWriter
               PROVE  LookupsAgree
    BY DEF LookupsAgree
  <2>0. /\ writer.op = "free" /\ Listed = DOMAIN mapRpc
        /\ DOMAIN mapRpc \subseteq RemoteNodes \cup {LocalNode}
        /\ \A n \in DOMAIN mapRpc : mapRpc[n] \in NodeType
    BY <1>1 DEF ClusterInv, ClusterTypeOK, NoWriter, Listed
  <2>1. \A name, n : <<name, n>> \in mapServiceNode <=>
          n \in DOMAIN mapRpc /\ \E o \in mapRpc[n].offers : name = o[1]
    <3> TAKE name, n
    <3>1. ASSUME <<name, n>> \in mapServiceNode
          PROVE  n \in DOMAIN mapRpc /\ \E o \in mapRpc[n].offers : name = o[1]
      <4>1. PICK m \in DOMAIN mapRpc : \E o \in mapRpc[m].offers : <<name, n>> = <<o[1], m>>
        BY <1>1, <2>0, <3>1 DEF ClusterInv, TablesInv
      <4> QED  BY <4>1
    <3>2. ASSUME n \in DOMAIN mapRpc, NEW o \in mapRpc[n].offers, name = o[1]
          PROVE  <<name, n>> \in mapServiceNode
      BY <1>1, <2>0, <3>2 DEF ClusterInv, TablesInv
    <3> QED  BY <3>1, <3>2
  <2>2. \A p \in mapServiceNode : p = <<p[1], p[2]>>
    <3> TAKE p \in mapServiceNode
    <3>1. PICK n \in DOMAIN mapRpc : \E o \in mapRpc[n].offers : p = <<o[1], n>>
      BY <1>1, <2>0 DEF ClusterInv, TablesInv
    <3> QED  BY <3>1
  <2>3. \A name, n : n \in GetNodeByServiceName(name) <=> <<name, n>> \in mapServiceNode
    <3> TAKE name, n
    <3>1. ASSUME n \in GetNodeByServiceName(name) PROVE <<name, n>> \in mapServiceNode
      <4>1. PICK p \in mapServiceNode : p[1] = name /\ p[2] = n
        BY <3>1 DEF GetNodeByServiceName
      <4> QED  BY <2>2, <4>1
    <3>2. ASSUME <<name, n>> \in mapServiceNode PROVE n \in GetNodeByServiceName(name)
      <4>1. <<name, n>> \in {q \in mapServiceNode : q[1] = name} /\ <<name, n>>[2] = n
        BY <3>2
      <4> QED  BY <4>1 DEF GetNodeByServiceName
    <3> QED  BY <3>1, <3>2
  <2>4. \A n : \A name : name \in NamesOf(Offers(n)) <=> <<name, n>> \in mapServiceNode
    BY <2>1 DEF NamesOf, Offers
  <2>5. ASSUME NEW s \in Listeners, NEW n \in RemoteNodes, HeardOf(s, n)
        PROVE  /\ NamesOf(told[s][n]) = {name \in {p[1] : p \in mapServiceNode} : HasService(n, name)}
               /\ GetRpcClient(n, "", FALSE) = {} => told[s][n] = {}
               /\ told[s][n] = {} => GetRpcClient(n, "", FALSE) = {} \/ n \in MasterNodes
    <3>1. n \in current[s] /\ \A i \in DOMAIN inbox[s] : inbox[s][i].node # n
      BY <2>5 DEF HeardOf
    <3>2. Naming(inbox[s], n) = {}
      <4>1. DOMAIN inbox[s] = 1..Len(inbox[s])
        BY <1>1 DEF ClusterInv, ClusterTypeOK
      <4> QED  BY <3>1, <4>1 DEF Naming
    <3>3. told[s][n] = Offers(n)
      <4>1. Learns(inbox[s], n, told[s][n], Announced(s, n))
        BY <1>1, <3>1 DEF ClusterInv, NoticesInv
      <4>2. Announced(s, n) = Offers(n)
        BY <2>0 DEF Announced, Notified
      <4> QED  BY <3>2, <4>1, <4>2 DEF Learns
    <3>4. NamesOf(told[s][n]) = {name \in {p[1] : p \in mapServiceNode} : HasService(n, name)}
      <4>1. \A name : <<name, n>> \in mapServiceNode => name \in {p[1] : p \in mapServiceNode}
        <5> TAKE name
        <5>1. <<name, n>>[1] = name
          OBVIOUS
        <5> QED  BY <5>1
      <4> QED  BY <2>4, <3>3, <4>1 DEF HasService
    <3>5. GetRpcClient(n, "", FALSE) = {n} \cap DOMAIN mapRpc
      BY ClusterAssumption DEF GetRpcClient
    <3>6. n # LocalNode
      BY ClusterAssumption
    <3>7. /\ GetRpcClient(n, "", FALSE) = {} => told[s][n] = {}
          /\ told[s][n] = {} => GetRpcClient(n, "", FALSE) = {} \/ n \in MasterNodes
      BY <1>1, <3>3, <3>5, <3>6 DEF Offers, ClusterInv, OffersInv
    <3> QED  BY <3>4, <3>7
  <2>6. ASSUME NEW nodes, NEW f \in BOOLEAN, NEW n
        PROVE  n \in Usable(nodes, f) <=>
                 n \in nodes /\ n \in DOMAIN mapRpc /\ mapRpc[n].connected /\ (f => ~mapRpc[n].retire)
    BY DEF Usable
  <2>7. ASSUME NEW name \in {p[1] : p \in mapServiceNode}, NEW f \in BOOLEAN
        PROVE  GetRpcClient(NoNode, name, f) =
                 {n \in DOMAIN mapRpc : /\ name \in NamesOf(mapRpc[n].offers)
                                        /\ mapRpc[n].connected /\ (f => ~mapRpc[n].retire)}
    <3>1. GetRpcClient(NoNode, name, f) = Usable(GetNodeByServiceName(name), f)
      BY DEF GetRpcClient, GetNodeIdByService
    <3>2. \A n \in DOMAIN mapRpc : name \in NamesOf(mapRpc[n].offers) <=> n \in GetNodeByServiceName(name)
      BY <2>3, <2>4 DEF Offers
    <3>3. \A n : n \in Usable(GetNodeByServiceName(name), f) <=>
            n \in DOMAIN mapRpc /\ name \in NamesOf(mapRpc[n].offers)
            /\ mapRpc[n].connected /\ (f => ~mapRpc[n].retire)
      BY <2>6, <3>2
    <3> QED  BY <3>1, <3>3
  <2>8. \A t, s : s \in ServicesOfTemplate(t) => \E n \in DOMAIN mapRpc : <<s, t>> \in mapRpc[n].offers
    <3> SUFFICES ASSUME NEW t, NEW s \in ServicesOfTemplate(t)
                 PROVE  \E n \in DOMAIN mapRpc : <<s, t>> \in mapRpc[n].offers
      OBVIOUS
    <3>1. PICK p \in mapTemplateServiceNode : p[1] = t /\ p[2] = s
      BY DEF ServicesOfTemplate
    <3>2. PICK n \in DOMAIN mapRpc : \E o \in mapRpc[n].offers : p = <<o[2], o[1]>>
      BY <1>1, <2>0, <3>1 DEF ClusterInv, TablesInv
    <3>3. PICK o \in mapRpc[n].offers : p = <<o[2], o[1]>>
      BY <3>2
    <3>4. o[2] = t /\ o[1] = s
      BY <3>1, <3>3
    <3>5. o \in Offered
      BY <2>0, <3>2, <3>3 DEF NodeType
    <3>6. o = <<s, t>>
      BY <3>4, <3>5, OffersArePairs
    <3> QED  BY <3>2, <3>3, <3>6
  <2>9. ASSUME NEW t
        PROVE  /\ GetNodeByTemplateServiceName(t) = GetServiceInfoByTemplateService(t)
               /\ \A s \in ServicesOfTemplate(t) : \E n \in DOMAIN mapRpc : <<s, t>> \in mapRpc[n].offers
               /\ GetNodeIdByTemplateService(t, FALSE) =
                    {n \in DOMAIN mapRpc : /\ NamesOf(mapRpc[n].offers) \cap ServicesOfTemplate(t) # {}
                                           /\ mapRpc[n].connected}
    <3>1. ASSUME NEW s \in ServicesOfTemplate(t) PROVE GetNodeByServiceName(s) # {}
      <4>1. PICK n \in DOMAIN mapRpc : <<s, t>> \in mapRpc[n].offers
        BY <2>8
      <4>2. s = <<s, t>>[1]
        OBVIOUS
      <4>3. <<s, n>> \in mapServiceNode
        BY <2>1, <4>1, <4>2
      <4> QED  BY <2>3, <4>3
    <3>2. GetNodeByTemplateServiceName(t) = GetServiceInfoByTemplateService(t)
      BY <3>1 DEF GetNodeByTemplateServiceName
    <3> DEFINE nodes == {p[2] : p \in GetServiceInfoByTemplateService(t)}
    <3>3. \A n : n \in nodes <=> \E s \in ServicesOfTemplate(t) : <<s, n>> \in mapServiceNode
      <4> TAKE n
      <4>1. ASSUME n \in nodes PROVE \E s \in ServicesOfTemplate(t) : <<s, n>> \in mapServiceNode
        <5>1. PICK p \in mapServiceNode : p[1] \in ServicesOfTemplate(t) /\ p[2] = n
          BY <4>1 DEF GetServiceInfoByTemplateService
        <5> QED  BY <2>2, <5>1
      <4>2. ASSUME NEW s \in ServicesOfTemplate(t), <<s, n>> \in mapServiceNode PROVE n \in nodes
        <5>1. <<s, n>>[1] = s /\ <<s, n>>[2] = n
          OBVIOUS
        <5>2. <<s, n>> \in GetServiceInfoByTemplateService(t)
          BY <4>2, <5>1 DEF GetServiceInfoByTemplateService
        <5> QED  BY <5>1, <5>2
      <4> QED  BY <4>1, <4>2
    <3> HIDE DEF nodes
    <3>4. \A n \in DOMAIN mapRpc : n \in nodes <=> NamesOf(mapRpc[n].offers) \cap ServicesOfTemplate(t) # {}
      <4> TAKE n \in DOMAIN mapRpc
      <4>1. \A s : <<s, n>> \in mapServiceNode <=> s \in NamesOf(mapRpc[n].offers)
        BY <2>4 DEF Offers
      <4> QED  BY <3>3, <4>1
    <3>5. \A n : n \in Usable(nodes, FALSE) <=> n \in nodes /\ n \in DOMAIN mapRpc /\ mapRpc[n].connected
      BY <2>6
    <3>6. GetNodeIdByTemplateService(t, FALSE) = Usable(nodes, FALSE)
      BY DEF GetNodeIdByTemplateService, nodes
    <3>7. GetNodeIdByTemplateService(t, FALSE) =
            {n \in DOMAIN mapRpc : /\ NamesOf(mapRpc[n].offers) \cap ServicesOfTemplate(t) # {}
                                   /\ mapRpc[n].connected}
      BY <3>4, <3>5, <3>6
    <3> QED  BY <2>8, <3>2, <3>7
  <2> QED  BY <2>5, <2>7, <2>9 DEF LookupsAgree
<1>2. ClusterInv => LookupsAgree
  BY <1>1
<1> QED  BY ClusterInvariant, <1>2, PTL

-----------------------------------------------------------------------------
(***************************************************************************)
(* A leaderboard.                                                          *)
(*                                                                         *)
(* The list, the map and the heap hold the same keys after every change    *)
(* because each change takes a key out of all three or puts it into all    *)
(* three.  What is saved follows key by key: the value of a key on the     *)
(* board is the one noted to be written, or the one taken to be written,   *)
(* or the one in the collection, whichever is the latest there is, and a   *)
(* key that is not on the board is in the collection, or will be, only if  *)
(* its removal is noted or taken too.                                      *)
(***************************************************************************)

\* Every set of natural numbers has a least member.
LEMMA LeastNat ==
  ASSUME NEW S \in SUBSET Nat, S # {}
  PROVE  \E x \in S : \A y \in S : x <= y
<1> DEFINE R == {p \in Nat \X Nat : p[1] < p[2]}
<1>1. IsWellFoundedOn(R, Nat)
  BY NatLessThanWellFounded DEF OpToRel
<1>1a. S \subseteq Nat OBVIOUS
<1> HIDE DEF R
<1>2. PICK x \in S : \A y \in S : ~(<<y, x>> \in R)
  BY <1>1, <1>1a, WFMin
<1>3. ASSUME NEW y \in S PROVE x <= y
  <2>1. ~(<<y, x>> \in R) BY <1>2
  <2>2. x \in Nat /\ y \in Nat BY <1>1a
  <2>3. ~(y < x) BY <2>1, <2>2 DEF R
  <2> QED BY <2>2, <2>3
<1> QED BY <1>3

Entry == [key : RankKeys, sort : Sorts]

\* An entry is put before the p-th, and the p-th is taken out.
LEMMA InsertAtFacts ==
  ASSUME NEW S, NEW s \in Seq(S), NEW e \in S, NEW p \in 1..(Len(s) + 1)
  PROVE  /\ InsertAt(s, p, e) \in Seq(S) /\ Len(InsertAt(s, p, e)) = Len(s) + 1
         /\ \A i \in 1..(Len(s) + 1) :
              InsertAt(s, p, e)[i] = IF i < p THEN s[i] ELSE IF i = p THEN e ELSE s[i - 1]
<1>1. Len(s) \in Nat /\ \A i \in 1..Len(s) : s[i] \in S
  BY LenProperties, ElementOfSeq
<1>2. PICK n, a, b, o, c : /\ n = Len(s) /\ a = SubSeq(s, 1, p - 1) /\ b = SubSeq(s, p, Len(s))
                           /\ o = <<e>> /\ c = a \o o
  OBVIOUS
<1>2a. n \in Nat /\ p \in Nat /\ 1 <= p /\ p <= n + 1
  <2>1. n \in Nat  BY <1>1, <1>2
  <2>2. p \in 1..(n + 1)  BY <1>2
  <2> QED  BY <2>1, <2>2
<1>3. a \in Seq(S) /\ Len(a) = p - 1 /\ \A i \in 1..(p - 1) : a[i] = s[i]
  <2>1. 1 \in Int /\ p - 1 \in Int /\ \A i \in 1..(p - 1) : s[i] \in S
    BY <1>1, <1>2, <1>2a
  <2>2. a \in Seq(S) /\ Len(a) = (IF 1 <= p - 1 THEN p - 1 - 1 + 1 ELSE 0)
        /\ \A i \in 1..(p - 1 - 1 + 1) : a[i] = s[1 + i - 1]
    BY <1>2, <2>1, SubSeqProperties
  <2> QED  BY <1>2a, <2>2
<1>4. b \in Seq(S) /\ Len(b) = n - p + 1 /\ \A i \in 1..(n - p + 1) : b[i] = s[p + i - 1]
  <2>1. p \in Int /\ n \in Int /\ \A i \in p..n : s[i] \in S
    BY <1>1, <1>2, <1>2a
  <2>2. b \in Seq(S) /\ Len(b) = (IF p <= n THEN n - p + 1 ELSE 0)
        /\ \A i \in 1..(n - p + 1) : b[i] = s[p + i - 1]
    BY <1>2, <2>1, SubSeqProperties
  <2> QED  BY <1>2a, <2>2
<1>5. o \in Seq(S) /\ Len(o) = 1 /\ o[1] = e
  BY <1>2
<1>6. c \in Seq(S) /\ Len(c) = p /\ \A i \in 1..p : c[i] = IF i < p THEN s[i] ELSE e
  <2>1. c \in Seq(S) /\ Len(c) = Len(a) + Len(o)
        /\ \A i \in 1..(Len(a) + Len(o)) : c[i] = IF i <= Len(a) THEN a[i] ELSE o[i - Len(a)]
    BY <1>2, <1>3, <1>5, ConcatProperties
  <2>2. Len(c) = p
    BY <1>2a, <1>3, <1>5, <2>1
  <2>3. ASSUME NEW i \in 1..p PROVE c[i] = IF i < p THEN s[i] ELSE e
    <3>1. c[i] = IF i <= p - 1 THEN a[i] ELSE o[i - (p - 1)]
      BY <1>2a, <1>3, <1>5, <2>1
    <3>2. CASE i < p
      BY <1>2a, <1>3, <3>1, <3>2
    <3>3. CASE i = p
      BY <1>2a, <1>5, <3>1, <3>3
    <3> QED  BY <1>2a, <3>2, <3>3
  <2> QED  BY <2>1, <2>2, <2>3
<1>7. InsertAt(s, p, e) = c \o b
  BY <1>2 DEF InsertAt
<1>8. c \o b \in Seq(S) /\ Len(c \o b) = Len(c) + Len(b)
      /\ \A i \in 1..(Len(c) + Len(b)) : (c \o b)[i] = IF i <= Len(c) THEN c[i] ELSE b[i - Len(c)]
  BY <1>4, <1>6, ConcatProperties
<1>9. Len(c) + Len(b) = n + 1
  BY <1>2a, <1>4, <1>6
<1>10. ASSUME NEW i \in 1..(n + 1)
       PROVE  (c \o b)[i] = IF i < p THEN s[i] ELSE IF i = p THEN e ELSE s[i - 1]
  <2>1. (c \o b)[i] = IF i <= p THEN c[i] ELSE b[i - p]
    BY <1>2a, <1>6, <1>8, <1>9
  <2>1a. i <= p \/ i > p
    BY <1>2a
  <2>2. CASE i <= p
    BY <1>2a, <1>6, <2>1, <2>2
  <2>3. CASE i > p
    <3>1. i - p \in 1..(n - p + 1) /\ p + (i - p) - 1 = i - 1
      BY <1>2a, <2>3
    <3>2. b[i - p] = s[i - 1]
      BY <1>4, <3>1
    <3> QED  BY <1>2a, <2>1, <2>3, <3>2
  <2> QED  BY <2>1a, <2>2, <2>3
<1> QED  BY <1>2, <1>7, <1>8, <1>9, <1>10

LEMMA RemoveAtFacts ==
  ASSUME NEW S, NEW s \in Seq(S), NEW p \in 1..Len(s)
  PROVE  /\ RemoveAt(s, p) \in Seq(S) /\ Len(RemoveAt(s, p)) = Len(s) - 1
         /\ \A i \in 1..(Len(s) - 1) : RemoveAt(s, p)[i] = IF i < p THEN s[i] ELSE s[i + 1]
<1>1. Len(s) \in Nat /\ \A i \in 1..Len(s) : s[i] \in S
  BY LenProperties, ElementOfSeq
<1>2. PICK n, a, b : n = Len(s) /\ a = SubSeq(s, 1, p - 1) /\ b = SubSeq(s, p + 1, Len(s))
  OBVIOUS
<1>2a. n \in Nat /\ p \in Nat /\ 1 <= p /\ p <= n
  <2>1. n \in Nat  BY <1>1, <1>2
  <2>2. p \in 1..n  BY <1>2
  <2> QED  BY <2>1, <2>2
<1>3. a \in Seq(S) /\ Len(a) = p - 1 /\ \A i \in 1..(p - 1) : a[i] = s[i]
  <2>1. 1 \in Int /\ p - 1 \in Int /\ \A i \in 1..(p - 1) : s[i] \in S
    BY <1>1, <1>2, <1>2a
  <2>2. a \in Seq(S) /\ Len(a) = (IF 1 <= p - 1 THEN p - 1 - 1 + 1 ELSE 0)
        /\ \A i \in 1..(p - 1 - 1 + 1) : a[i] = s[1 + i - 1]
    BY <1>2, <2>1, SubSeqProperties
  <2> QED  BY <1>2a, <2>2
<1>4. b \in Seq(S) /\ Len(b) = n - p /\ \A i \in 1..(n - p) : b[i] = s[p + i]
  <2>1. p + 1 \in Int /\ n \in Int /\ \A i \in (p + 1)..n : s[i] \in S
    BY <1>1, <1>2, <1>2a
  <2>2. b \in Seq(S) /\ Len(b) = (IF p + 1 <= n THEN n - (p + 1) + 1 ELSE 0)
        /\ \A i \in 1..(n - (p + 1) + 1) : b[i] = s[(p + 1) + i - 1]
    BY <1>2, <2>1, SubSeqProperties
  <2> QED  BY <1>2a, <2>2
<1>5. RemoveAt(s, p) = a \o b
  BY <1>2 DEF RemoveAt
<1>6. a \o b \in Seq(S) /\ Len(a \o b) = Len(a) + Len(b)
      /\ \A i \in 1..(Len(a) + Len(b)) : (a \o b)[i] = IF i <= Len(a) THEN a[i] ELSE b[i - Len(a)]
  BY <1>3, <1>4, ConcatProperties
<1>7. Len(a) + Len(b) = n - 1
  BY <1>2a, <1>3, <1>4
<1>8. ASSUME NEW i \in 1..(n - 1)
      PROVE  (a \o b)[i] = IF i < p THEN s[i] ELSE s[i + 1]
  <2>1. (a \o b)[i] = IF i <= p - 1 THEN a[i] ELSE b[i - (p - 1)]
    BY <1>2a, <1>3, <1>6, <1>7
  <2>1a. i < p \/ i >= p
    BY <1>2a
  <2>2. CASE i < p
    BY <1>2a, <1>3, <2>1, <2>2
  <2>3. CASE i >= p
    <3>1. i - (p - 1) \in 1..(n - p) /\ p + (i - (p - 1)) = i + 1
      BY <1>2a, <2>3
    <3>2. b[i - (p - 1)] = s[i + 1]
      BY <1>4, <3>1
    <3> QED  BY <1>2a, <2>1, <2>3, <3>2
  <2> QED  BY <2>1a, <2>2, <2>3
<1> QED  BY <1>2, <1>5, <1>6, <1>7, <1>8

\* The order is total and transitive.
\* The keys u, v and w with the values x, y and z, in descending and in ascending order.
Descends(u, x, v, y) == u # v /\ (x > y \/ (x = y /\ u > v))
Ascends(u, x, v, y) == u # v /\ (x < y \/ (x = y /\ u < v))
LEMMA OrderFacts ==
  ASSUME NEW u \in Nat, NEW v \in Nat, NEW w \in Nat, NEW x \in Int, NEW y \in Int, NEW z \in Int
  PROVE  /\ Descends(u, x, v, y) => ~Descends(v, y, u, x)
         /\ Descends(u, x, v, y) \/ Descends(v, y, u, x) \/ u = v
         /\ Descends(u, x, v, y) /\ Descends(v, y, w, z) /\ u # w => Descends(u, x, w, z)
         /\ Ascends(u, x, v, y) => ~Ascends(v, y, u, x)
         /\ Ascends(u, x, v, y) \/ Ascends(v, y, u, x) \/ u = v
         /\ Ascends(u, x, v, y) /\ Ascends(v, y, w, z) /\ u # w => Ascends(u, x, w, z)
<1>1. Descends(u, x, v, y) => ~Descends(v, y, u, x)
  BY DEF Descends
<1>2. Descends(u, x, v, y) \/ Descends(v, y, u, x) \/ u = v
  BY DEF Descends
<1>3. Descends(u, x, v, y) /\ Descends(v, y, w, z) /\ u # w => Descends(u, x, w, z)
  BY DEF Descends
<1>4. Ascends(u, x, v, y) => ~Ascends(v, y, u, x)
  BY DEF Ascends
<1>5. Ascends(u, x, v, y) \/ Ascends(v, y, u, x) \/ u = v
  BY DEF Ascends
<1>6. Ascends(u, x, v, y) /\ Ascends(v, y, w, z) /\ u # w => Ascends(u, x, w, z)
  BY DEF Ascends
<1> QED  BY <1>1, <1>2, <1>3, <1>4, <1>5, <1>6

LEMMA BeforeFacts ==
  ASSUME NEW a \in Entry, NEW b \in Entry, NEW c \in Entry
  PROVE  /\ Before(a, b) => ~Before(b, a) /\ a.key # b.key
         /\ Before(a, b) \/ Before(b, a) \/ a.key = b.key
         /\ Before(a, b) /\ Before(b, c) /\ a.key # c.key => Before(a, c)
<1>1. /\ a.key \in Nat /\ b.key \in Nat /\ c.key \in Nat
      /\ a.sort \in Int /\ b.sort \in Int /\ c.sort \in Int
  BY RankAssumption DEF Entry
<1>2. CASE IsDes
  BY <1>1, <1>2, OrderFacts DEF Before, Descends
<1>3. CASE ~IsDes
  BY <1>1, <1>3, OrderFacts DEF Before, Ascends
<1> QED  BY <1>2, <1>3

Sorted(list) == \A i \in 1..Len(list) : \A j \in 1..Len(list) : i < j => Before(list[i], list[j])

LEMMA InsertedFacts ==
  ASSUME NEW list \in Seq(Entry), Sorted(list), NEW e \in Entry,
         \A i \in 1..Len(list) : list[i].key # e.key
  PROVE  /\ Inserted(list, e) \in Seq(Entry) /\ Sorted(Inserted(list, e))
         /\ ToSet(Inserted(list, e)) = ToSet(list) \cup {e}
         /\ Len(Inserted(list, e)) = Len(list) + 1
<1>1. PICK n : n = Len(list)
  OBVIOUS
<1>2. n \in Nat /\ \A i \in 1..n : list[i] \in Entry
  BY <1>1, LenProperties, ElementOfSeq
<1>3. \E p \in 1..(n + 1) : /\ \A i \in 1..(p - 1) : Before(list[i], e)
                            /\ p <= n => ~Before(list[p], e)
  <2> DEFINE P == {p \in 1..(n + 1) : p <= n => ~Before(list[p], e)}
  <2>1. P \in SUBSET Nat /\ n + 1 \in P
    BY <1>2
  <2>2. PICK p \in P : \A q \in P : p <= q
    BY <2>1, LeastNat
  <2>3. ASSUME NEW i \in 1..(p - 1) PROVE Before(list[i], e)
    <3>1. i \in 1..(n + 1) /\ ~(p <= i)
      BY <1>2
    <3>2. i \notin P
      BY <2>2, <3>1
    <3> QED  BY <3>1, <3>2
  <2> QED  BY <2>3
<1>4. PICK p : p = PlaceOf(list, e)
  OBVIOUS
<1>5. p \in 1..(n + 1) /\ (\A i \in 1..(p - 1) : Before(list[i], e)) /\ (p <= n => ~Before(list[p], e))
  BY <1>1, <1>3, <1>4 DEF PlaceOf
<1>6. PICK r : r = Inserted(list, e)
  OBVIOUS
<1>7. r \in Seq(Entry) /\ Len(r) = n + 1
      /\ \A i \in 1..(n + 1) : r[i] = IF i < p THEN list[i] ELSE IF i = p THEN e ELSE list[i - 1]
  <2>1. p \in 1..(Len(list) + 1)
    BY <1>1, <1>5
  <2>2. r = InsertAt(list, p, e)
    BY <1>4, <1>6 DEF Inserted
  <2>3. /\ InsertAt(list, p, e) \in Seq(Entry) /\ Len(InsertAt(list, p, e)) = Len(list) + 1
        /\ \A i \in 1..(Len(list) + 1) :
             InsertAt(list, p, e)[i] = IF i < p THEN list[i] ELSE IF i = p THEN e ELSE list[i - 1]
    BY <2>1, InsertAtFacts
  <2> QED  BY <1>1, <2>2, <2>3
<1>8. ASSUME NEW i \in p..n PROVE Before(e, list[i])
  <2>1. i \in 1..n /\ p \in 1..n
    BY <1>2, <1>5
  <2>2. ~Before(list[p], e) /\ list[p].key # e.key /\ list[p] \in Entry /\ list[i] \in Entry
    BY <1>1, <1>2, <1>5, <2>1
  <2>3. Before(e, list[p])
    BY <2>2, BeforeFacts
  <2>4. CASE i = p
    BY <2>3, <2>4
  <2>5. CASE p < i
    <3>1. Before(list[p], list[i])
      BY <1>1, <2>1, <2>5 DEF Sorted
    <3> QED  BY <1>1, <2>1, <2>2, <2>3, <3>1, BeforeFacts
  <2> QED  BY <1>2, <1>5, <2>4, <2>5
<1>9. ASSUME NEW i \in 1..(n + 1), NEW j \in 1..(n + 1), i < j PROVE Before(r[i], r[j])
  <2>1. \A x \in 1..n, y \in 1..n : x < y => Before(list[x], list[y])
    BY <1>1 DEF Sorted
  <2>2. CASE j < p
    BY <1>2, <1>5, <1>7, <1>9, <2>1, <2>2
  <2>3. CASE j = p
    <3>1. i \in 1..(p - 1) /\ r[i] = list[i] /\ r[j] = e
      BY <1>2, <1>5, <1>7, <1>9, <2>3
    <3> QED  BY <1>5, <3>1
  <2>4. CASE i = p
    <3>1. j - 1 \in p..n /\ r[j] = list[j - 1] /\ r[i] = e
      BY <1>2, <1>5, <1>7, <1>9, <2>4
    <3> QED  BY <1>8, <3>1
  <2>5. CASE i < p /\ p < j
    <3>1. i \in 1..n /\ j - 1 \in 1..n /\ i < j - 1 /\ ~(j < p) /\ j # p
      BY <1>2, <1>5, <1>9, <2>5
    <3>2. r[i] = list[i] /\ r[j] = list[j - 1]
      BY <1>7, <2>5, <3>1
    <3> QED  BY <2>1, <3>1, <3>2
  <2>6. CASE p < i
    <3>1. i - 1 \in 1..n /\ j - 1 \in 1..n /\ i - 1 < j - 1 /\ r[i] = list[i - 1] /\ r[j] = list[j - 1]
      BY <1>2, <1>5, <1>7, <1>9, <2>6
    <3> QED  BY <2>1, <3>1
  <2> QED  BY <1>2, <1>5, <1>9, <2>2, <2>3, <2>4, <2>5, <2>6
<1>10. ToSet(r) = ToSet(list) \cup {e}
  <2>1. DOMAIN r = 1..(n + 1) /\ DOMAIN list = 1..n
    BY <1>1, <1>7, LenProperties
  <2>2. ASSUME NEW i \in 1..(n + 1) PROVE r[i] \in ToSet(list) \cup {e}
    <3>1. CASE i < p
      BY <1>2, <1>5, <1>7, <2>1, <3>1 DEF ToSet
    <3>2. CASE i = p
      BY <1>7, <3>2
    <3>3. CASE p < i
      <4>1. i - 1 \in 1..n /\ r[i] = list[i - 1]
        BY <1>2, <1>5, <1>7, <3>3
      <4> QED  BY <2>1, <4>1 DEF ToSet
    <3> QED  BY <1>2, <1>5, <3>1, <3>2, <3>3
  <2>3. ASSUME NEW i \in 1..n PROVE list[i] \in ToSet(r)
    <3>1. CASE i < p
      <4>1. i \in 1..(n + 1) /\ r[i] = list[i]
        BY <1>2, <1>7, <3>1
      <4> QED  BY <2>1, <4>1 DEF ToSet
    <3>2. CASE p <= i
      <4>1. i + 1 \in 1..(n + 1) /\ ~(i + 1 < p) /\ i + 1 # p /\ i + 1 - 1 = i
        BY <1>2, <1>5, <3>2
      <4>2. r[i + 1] = list[i]
        BY <1>7, <4>1
      <4> QED  BY <2>1, <4>1, <4>2 DEF ToSet
    <3> QED  BY <1>2, <1>5, <3>1, <3>2
  <2>4. e \in ToSet(r)
    BY <1>2, <1>5, <1>7, <2>1 DEF ToSet
  <2>5. ToSet(r) \subseteq ToSet(list) \cup {e}
    BY <2>1, <2>2 DEF ToSet
  <2>6. ToSet(list) \subseteq ToSet(r)
    <3>1. \A x \in ToSet(list) : \E i \in 1..n : x = list[i]
      BY <2>1 DEF ToSet
    <3> QED  BY <2>3, <3>1
  <2> QED  BY <2>4, <2>5, <2>6
<1>11. Sorted(r)
  BY <1>7, <1>9 DEF Sorted
<1> QED  BY <1>1, <1>6, <1>7, <1>10, <1>11

LEMMA RemovedFacts ==
  ASSUME NEW list \in Seq(Entry), Sorted(list), NEW k
  PROVE  /\ Removed(list, k) \in Seq(Entry) /\ Sorted(Removed(list, k))
         /\ ToSet(Removed(list, k)) = {x \in ToSet(list) : x.key # k}
         /\ \A i \in 1..Len(Removed(list, k)) : Removed(list, k)[i].key # k
<1>1. PICK n : n = Len(list)
  OBVIOUS
<1>2. n \in Nat /\ (\A i \in 1..n : list[i] \in Entry) /\ DOMAIN list = 1..n
  BY <1>1, LenProperties, ElementOfSeq
<1>3. CASE ~ \E i \in 1..n : list[i].key = k
  <2>1. Removed(list, k) = list
    BY <1>1, <1>3 DEF Removed
  <2> QED  BY <1>1, <1>2, <1>3, <2>1 DEF ToSet
<1>4. CASE \E i \in 1..n : list[i].key = k
  <2>1. PICK p : p = PositionOf(list, k)
    OBVIOUS
  <2>2. p \in 1..n /\ list[p].key = k
    BY <1>1, <1>4, <2>1 DEF PositionOf
  <2>3. PICK r : r = Removed(list, k)
    OBVIOUS
  <2>4. r \in Seq(Entry) /\ Len(r) = n - 1 /\ \A i \in 1..(n - 1) : r[i] = IF i < p THEN list[i] ELSE list[i + 1]
    BY <1>1, <1>4, <2>1, <2>2, <2>3, RemoveAtFacts DEF Removed
  <2>5. \A x \in 1..n, y \in 1..n : x < y => Before(list[x], list[y])
    BY <1>1 DEF Sorted
  <2>6. ASSUME NEW i \in 1..n, i # p PROVE list[i].key # k
    <3>1. Before(list[i], list[p]) \/ Before(list[p], list[i])
      BY <1>2, <2>2, <2>5, <2>6
    <3> QED  BY <2>2, <3>1 DEF Before
  <2>7. ASSUME NEW i \in 1..(n - 1), NEW j \in 1..(n - 1), i < j PROVE Before(r[i], r[j])
    <3>1. PICK x, y : x = (IF i < p THEN i ELSE i + 1) /\ y = (IF j < p THEN j ELSE j + 1)
      OBVIOUS
    <3>2. x \in 1..n /\ y \in 1..n /\ x < y
      BY <1>2, <2>2, <2>7, <3>1
    <3>3. r[i] = list[x] /\ r[j] = list[y]
      BY <2>4, <3>1
    <3> QED  BY <2>5, <3>2, <3>3
  <2>8. ASSUME NEW i \in 1..(n - 1) PROVE r[i] \in ToSet(list) /\ r[i].key # k
    <3>1. PICK x : x = (IF i < p THEN i ELSE i + 1)
      OBVIOUS
    <3>2. x \in 1..n /\ x # p
      BY <1>2, <2>2, <3>1
    <3>3. r[i] = list[x]
      BY <2>4, <3>1
    <3> QED  BY <1>2, <2>6, <3>2, <3>3 DEF ToSet
  <2>9. DOMAIN r = 1..(n - 1)
    BY <2>4, LenProperties
  <2>10. ASSUME NEW i \in 1..n, list[i].key # k PROVE list[i] \in ToSet(r)
    <3>1. PICK x : x = (IF i < p THEN i ELSE i - 1)
      OBVIOUS
    <3>2. i # p
      BY <2>2, <2>10
    <3>3. x \in 1..(n - 1) /\ i = (IF x < p THEN x ELSE x + 1)
      BY <1>2, <2>2, <3>1, <3>2
    <3>4. r[x] = list[i]
      BY <2>4, <3>3
    <3> QED  BY <2>9, <3>3, <3>4 DEF ToSet
  <2>11. ToSet(r) \subseteq {x \in ToSet(list) : x.key # k}
    BY <2>8, <2>9 DEF ToSet
  <2>12. {x \in ToSet(list) : x.key # k} \subseteq ToSet(r)
    <3>1. \A x \in ToSet(list) : \E i \in 1..n : x = list[i]
      BY <1>2 DEF ToSet
    <3> QED  BY <2>10, <3>1
  <2>13. Sorted(r)
    BY <2>4, <2>7 DEF Sorted
  <2> QED  BY <2>3, <2>4, <2>8, <2>11, <2>12, <2>13
<1> QED  BY <1>3, <1>4

-----------------------------------------------------------------------------
(* One board.                                                              *)

Record == [sort : Sorts, ts : Nat]
Fields == {"list", "map", "exp", "up", "rem"}

\* The parts that the list, the map and the heap say of the same keys.
ListInv(b) ==
  /\ b.list \in Seq(Entry) /\ Sorted(b.list)
  /\ ToSet(b.list) = {[key |-> k, sort |-> b.map[k].sort] : k \in DOMAIN b.map}
MapInv(b) ==
  /\ DOMAIN b = Fields
  /\ DOMAIN b.map \subseteq RankKeys /\ \A k \in DOMAIN b.map : b.map[k] \in Record
  /\ \A k \in DOMAIN b.exp : b.exp[k] \in Nat
NotesInv(b) ==
  /\ DOMAIN b.up \subseteq RankKeys /\ \A k \in DOMAIN b.up : b.up[k] \in Record
  /\ b.rem \subseteq RankKeys
HeapInv(b) == DOMAIN b.exp \subseteq DOMAIN b.map /\ DOMAIN b.map \subseteq DOMAIN b.exp \cup {0}
BoardInv(b) == ListInv(b) /\ MapInv(b) /\ NotesInv(b) /\ HeapInv(b)

\* A map with a key more, and one with a key less.
LEMMA WithFacts ==
  ASSUME NEW f, NEW k, NEW v
  PROVE  /\ DOMAIN With(f, k, v) = DOMAIN f \cup {k} /\ With(f, k, v)[k] = v
         /\ \A x \in DOMAIN f \ {k} : With(f, k, v)[x] = f[x]
BY DEF With

LEMMA WithoutFacts ==
  ASSUME NEW f, NEW k
  PROVE  /\ DOMAIN Without(f, k) = DOMAIN f \ {k}
         /\ \A x \in DOMAIN f \ {k} : Without(f, k)[x] = f[x]
BY DEF Without, Restrict

\* The entries of the list are the keys of the map with their values.
LEMMA EntriesFacts ==
  ASSUME NEW b, ListInv(b), MapInv(b)
  PROVE  /\ \A i \in 1..Len(b.list) :
              b.list[i].key \in DOMAIN b.map /\ b.list[i].sort = b.map[b.list[i].key].sort
         /\ \A k \in DOMAIN b.map : \E i \in 1..Len(b.list) : b.list[i].key = k
<1>1. DOMAIN b.list = 1..Len(b.list)
  BY LenProperties DEF ListInv
<1>2. ASSUME NEW i \in 1..Len(b.list)
      PROVE  b.list[i].key \in DOMAIN b.map /\ b.list[i].sort = b.map[b.list[i].key].sort
  <2>1. b.list[i] \in ToSet(b.list)
    BY <1>1 DEF ToSet
  <2>2. PICK k \in DOMAIN b.map : b.list[i] = [key |-> k, sort |-> b.map[k].sort]
    BY <2>1 DEF ListInv
  <2> QED  BY <2>2
<1>3. ASSUME NEW k \in DOMAIN b.map PROVE \E i \in 1..Len(b.list) : b.list[i].key = k
  <2>1. [key |-> k, sort |-> b.map[k].sort] \in ToSet(b.list)
    BY DEF ListInv
  <2>2. PICK i \in DOMAIN b.list : b.list[i] = [key |-> k, sort |-> b.map[k].sort]
    BY <2>1 DEF ToSet
  <2> QED  BY <1>1, <2>2
<1> QED  BY <1>2, <1>3

\* The entry of k is replaced or made.
LEMMA SetEntryFacts ==
  ASSUME NEW b, BoardInv(b), NEW k \in RankKeys, NEW s \in Sorts, NEW ts \in Nat,
         NEW c, c = SetEntry(b, k, s, ts)
  PROVE  /\ BoardInv(c) /\ c.up = b.up /\ c.rem = b.rem
         /\ DOMAIN c.map = DOMAIN b.map \cup {k} /\ c.map[k] = [sort |-> s, ts |-> ts]
         /\ \A j \in DOMAIN b.map \ {k} : c.map[j] = b.map[j]
<1>1. PICK e, l, m, t : /\ e = [key |-> k, sort |-> s] /\ l = Removed(b.list, k)
                        /\ m = With(b.map, k, [sort |-> s, ts |-> ts]) /\ t = With(b.exp, k, ts)
  OBVIOUS
<1>2. /\ DOMAIN c = Fields /\ c.list = Inserted(l, e) /\ c.map = m /\ c.exp = t
      /\ c.up = b.up /\ c.rem = b.rem
  BY <1>1 DEF SetEntry, BoardInv, MapInv, Fields
<1>3. DOMAIN m = DOMAIN b.map \cup {k} /\ m[k] = [sort |-> s, ts |-> ts]
      /\ \A j \in DOMAIN b.map \ {k} : m[j] = b.map[j]
  BY <1>1 DEF With
<1>4. DOMAIN t = DOMAIN b.exp \cup {k} /\ t[k] = ts /\ \A j \in DOMAIN b.exp \ {k} : t[j] = b.exp[j]
  BY <1>1 DEF With
<1>5. /\ l \in Seq(Entry) /\ Sorted(l) /\ ToSet(l) = {x \in ToSet(b.list) : x.key # k}
      /\ \A i \in 1..Len(l) : l[i].key # k
  BY <1>1, RemovedFacts DEF BoardInv, ListInv
<1>6. e \in Entry /\ e.key = k /\ e.sort = s
  BY <1>1 DEF Entry
<1>7. c.list \in Seq(Entry) /\ Sorted(c.list) /\ ToSet(c.list) = ToSet(l) \cup {e}
  BY <1>2, <1>5, <1>6, InsertedFacts
<1>8. ToSet(c.list) = {[key |-> j, sort |-> c.map[j].sort] : j \in DOMAIN c.map}
  <2>1. ASSUME NEW x \in ToSet(c.list)
        PROVE  \E j \in DOMAIN c.map : x = [key |-> j, sort |-> c.map[j].sort]
    <3>1. CASE x = e
      BY <1>1, <1>2, <1>3, <3>1
    <3>2. CASE x # e
      <4>1. x \in ToSet(b.list) /\ x.key # k
        BY <1>5, <1>7, <3>2
      <4>2. PICK j \in DOMAIN b.map : x = [key |-> j, sort |-> b.map[j].sort]
        BY <4>1 DEF BoardInv, ListInv
      <4>3. j # k
        BY <4>1, <4>2
      <4> QED  BY <1>2, <1>3, <4>2, <4>3
    <3> QED  BY <3>1, <3>2
  <2>2. ASSUME NEW j \in DOMAIN c.map PROVE [key |-> j, sort |-> c.map[j].sort] \in ToSet(c.list)
    <3>1. CASE j = k
      BY <1>1, <1>2, <1>3, <1>7, <3>1
    <3>2. CASE j # k
      <4>1. j \in DOMAIN b.map /\ c.map[j] = b.map[j]
        BY <1>2, <1>3, <3>2
      <4>2. [key |-> j, sort |-> b.map[j].sort] \in ToSet(b.list)
        BY <4>1 DEF BoardInv, ListInv
      <4> QED  BY <1>5, <1>7, <3>2, <4>1, <4>2
    <3> QED  BY <3>1, <3>2
  <2> QED  BY <2>1, <2>2
<1>9. ListInv(c)
  BY <1>7, <1>8 DEF ListInv
<1>10. [sort |-> s, ts |-> ts] \in Record
  BY DEF Record
<1>11. MapInv(c) /\ HeapInv(c)
  <2>1. DOMAIN c.map \subseteq RankKeys /\ HeapInv(c)
    BY <1>2, <1>3, <1>4 DEF BoardInv, MapInv, HeapInv
  <2>2. \A j \in DOMAIN c.map : c.map[j] \in Record
    BY <1>2, <1>3, <1>10 DEF BoardInv, MapInv
  <2>3. \A j \in DOMAIN c.exp : c.exp[j] \in Nat
    BY <1>2, <1>4 DEF BoardInv, MapInv
  <2> QED  BY <1>2, <2>1, <2>2, <2>3 DEF MapInv
<1>12. NotesInv(c)
  BY <1>2 DEF BoardInv, NotesInv
<1> QED  BY <1>2, <1>3, <1>9, <1>11, <1>12 DEF BoardInv

\* The entry of k leaves; pickExpireKey has taken it from the heap before.
LEMMA DeleteFacts ==
  ASSUME NEW b, ListInv(b), MapInv(b), NotesInv(b), NEW k \in DOMAIN b.map,
         DOMAIN b.exp \subseteq DOMAIN b.map, DOMAIN b.map \ {k} \subseteq DOMAIN b.exp \cup {0},
         NEW c, c = DeleteRankData(b, k)
  PROVE  /\ BoardInv(c) /\ c.up = (IF k = RankId THEN Empty ELSE b.up) /\ c.rem = b.rem \cup {k}
         /\ DOMAIN c.map = DOMAIN b.map \ {k} /\ \A j \in DOMAIN c.map : c.map[j] = b.map[j]
<1>1. PICK l, m, t, d : /\ l = Removed(b.list, k) /\ m = Without(b.map, k) /\ t = Without(b.exp, k)
                        /\ d = [b EXCEPT !.list = l, !.map = m, !.exp = t]
  OBVIOUS
<1>2. /\ DOMAIN d = Fields /\ d.list = l /\ d.map = m /\ d.exp = t /\ d.up = b.up /\ d.rem = b.rem
      /\ c = OnLeaveRank(d, k)
  BY <1>1 DEF DeleteRankData, MapInv, Fields
<1>3. /\ DOMAIN c = Fields /\ c.list = l /\ c.map = m /\ c.exp = t
      /\ c.up = (IF k = RankId THEN Empty ELSE b.up) /\ c.rem = b.rem \cup {k}
  BY <1>2 DEF OnLeaveRank, Fields
<1>4. DOMAIN m = DOMAIN b.map \ {k} /\ \A j \in DOMAIN b.map \ {k} : m[j] = b.map[j]
  BY <1>1, WithoutFacts
<1>5. DOMAIN t = DOMAIN b.exp \ {k} /\ \A j \in DOMAIN b.exp \ {k} : t[j] = b.exp[j]
  BY <1>1, WithoutFacts
<1>6. l \in Seq(Entry) /\ Sorted(l) /\ ToSet(l) = {x \in ToSet(b.list) : x.key # k}
  BY <1>1, RemovedFacts DEF ListInv
<1>7. ToSet(l) = {[key |-> j, sort |-> m[j].sort] : j \in DOMAIN m}
  <2>1. ASSUME NEW x \in ToSet(l) PROVE \E j \in DOMAIN m : x = [key |-> j, sort |-> m[j].sort]
    <3>1. x \in ToSet(b.list) /\ x.key # k
      BY <1>6
    <3>2. PICK j \in DOMAIN b.map : x = [key |-> j, sort |-> b.map[j].sort]
      BY <3>1 DEF ListInv
    <3>3. j # k
      BY <3>1, <3>2
    <3> QED  BY <1>4, <3>2, <3>3
  <2>2. ASSUME NEW j \in DOMAIN m PROVE [key |-> j, sort |-> m[j].sort] \in ToSet(l)
    <3>1. j \in DOMAIN b.map /\ j # k /\ m[j] = b.map[j]
      BY <1>4
    <3>2. [key |-> j, sort |-> b.map[j].sort] \in ToSet(b.list)
      BY <3>1 DEF ListInv
    <3> QED  BY <1>6, <3>1, <3>2
  <2> QED  BY <2>1, <2>2
<1>8. ListInv(c)
  BY <1>3, <1>6, <1>7 DEF ListInv
<1>9. MapInv(c) /\ HeapInv(c)
  BY <1>3, <1>4, <1>5 DEF MapInv, HeapInv
<1>10. NotesInv(c)
  <2>1. DOMAIN Empty = {} /\ k \in RankKeys
    BY DEF Empty, MapInv
  <2> QED  BY <1>3, <2>1 DEF NotesInv
<1> QED  BY <1>3, <1>4, <1>8, <1>9, <1>10 DEF BoardInv

\* What a change of the board b to c does to the key j and what is noted of it:
\* nothing, or it is on c and to be written, or it has left and is to be removed.
SameNote(b, c, j) ==
  /\ (j \in DOMAIN c.map) <=> (j \in DOMAIN b.map)
  /\ j \in DOMAIN b.map => c.map[j].sort = b.map[j].sort
  /\ (j \in DOMAIN c.up) <=> (j \in DOMAIN b.up)
  /\ j \in DOMAIN b.up => c.up[j] = b.up[j]
  /\ (j \in c.rem) <=> (j \in b.rem)
Noted(b, c, j) ==
  /\ j \in DOMAIN c.map /\ j \in DOMAIN c.up /\ c.up[j].sort = c.map[j].sort
  /\ (j \in c.rem) <=> (j \in b.rem)
Left(b, c, j) == j \in DOMAIN b.map /\ j \notin DOMAIN c.map /\ j \in c.rem
NotesChange(b, c, k) ==
  /\ \A j \in RankKeys \ {k} : SameNote(b, c, j) \/ Left(b, c, j)
  /\ SameNote(b, c, k) \/ Noted(b, c, k) \/ Left(b, c, k)

\* The entry of k is refreshed in the heap only.
LEMMA TouchFacts ==
  ASSUME NEW b, BoardInv(b), NEW k \in DOMAIN b.map, NEW ts \in Nat, NEW c,
         c = [b EXCEPT !.exp = With(@, k, ts)]
  PROVE  BoardInv(c) /\ c.map = b.map /\ c.up = b.up /\ c.rem = b.rem
<1>1. PICK t : t = With(b.exp, k, ts)
  OBVIOUS
<1>2. /\ DOMAIN c = Fields /\ c.list = b.list /\ c.map = b.map /\ c.exp = t
      /\ c.up = b.up /\ c.rem = b.rem
  BY <1>1 DEF BoardInv, MapInv, Fields
<1>3. DOMAIN t = DOMAIN b.exp \cup {k} /\ t[k] = ts /\ \A j \in DOMAIN b.exp \ {k} : t[j] = b.exp[j]
  BY <1>1 DEF With
<1>4. ListInv(c) /\ NotesInv(c)
  BY <1>2 DEF BoardInv, ListInv, NotesInv
<1>5. MapInv(c) /\ HeapInv(c)
  BY <1>2, <1>3 DEF BoardInv, MapInv, HeapInv
<1> QED  BY <1>2, <1>4, <1>5 DEF BoardInv

\* The value of k on the board is noted to be written.
LEMMA OnChangeFacts ==
  ASSUME NEW b, BoardInv(b), NEW k \in DOMAIN b.map, NEW c, c = OnChangeRankData(b, k)
  PROVE  /\ BoardInv(c) /\ c.map = b.map
         /\ RankId \notin RankKeys => c.rem = b.rem
         /\ DOMAIN c.up = DOMAIN b.up \cup {k} /\ c.up[k] = b.map[k]
         /\ \A j \in DOMAIN b.up \ {k} : c.up[j] = b.up[j]
<1>1. PICK u : u = With(b.up, k, b.map[k])
  OBVIOUS
<1>2. /\ DOMAIN c = Fields /\ c.list = b.list /\ c.map = b.map /\ c.exp = b.exp
      /\ c.up = u /\ c.rem = IF k = RankId THEN {} ELSE b.rem
  BY <1>1 DEF OnChangeRankData, BoardInv, MapInv, Fields
<1>3. DOMAIN u = DOMAIN b.up \cup {k} /\ u[k] = b.map[k] /\ \A j \in DOMAIN b.up \ {k} : u[j] = b.up[j]
  BY <1>1 DEF With
<1>4. k \in RankKeys /\ b.map[k] \in Record
  BY DEF BoardInv, MapInv
<1>5. ListInv(c) /\ MapInv(c) /\ HeapInv(c)
  BY <1>2 DEF BoardInv, ListInv, MapInv, HeapInv
<1>6. NotesInv(c)
  BY <1>2, <1>3, <1>4 DEF BoardInv, NotesInv
<1> QED  BY <1>2, <1>3, <1>4, <1>5, <1>6 DEF BoardInv

\* The entry of k is set and noted.
LEMMA PutFacts ==
  ASSUME NEW b, BoardInv(b), NEW k \in RankKeys, NEW s \in Sorts, NEW ts \in Nat,
         NEW c, c = OnChangeRankData(SetEntry(b, k, s, ts), k)
  PROVE  /\ BoardInv(c)
         /\ RankId \notin RankKeys =>
              Noted(b, c, k) /\ \A j \in RankKeys \ {k} : SameNote(b, c, j)
<1>1. PICK d : d = SetEntry(b, k, s, ts)
  OBVIOUS
<1>2. /\ BoardInv(d) /\ d.up = b.up /\ d.rem = b.rem
      /\ DOMAIN d.map = DOMAIN b.map \cup {k} /\ d.map[k] = [sort |-> s, ts |-> ts]
      /\ \A j \in DOMAIN b.map \ {k} : d.map[j] = b.map[j]
  BY <1>1, SetEntryFacts
<1>3. k \in DOMAIN d.map /\ c = OnChangeRankData(d, k)
  BY <1>1, <1>2
<1>4. /\ BoardInv(c) /\ c.map = d.map
      /\ RankId \notin RankKeys => c.rem = d.rem
      /\ DOMAIN c.up = DOMAIN d.up \cup {k} /\ c.up[k] = d.map[k]
      /\ \A j \in DOMAIN d.up \ {k} : c.up[j] = d.up[j]
  BY <1>2, <1>3, OnChangeFacts
<1>5. ASSUME RankId \notin RankKeys PROVE Noted(b, c, k)
  BY <1>2, <1>3, <1>4, <1>5 DEF Noted
<1>6. ASSUME RankId \notin RankKeys, NEW j \in RankKeys \ {k} PROVE SameNote(b, c, j)
  BY <1>2, <1>3, <1>4, <1>6 DEF SameNote
<1> QED  BY <1>4, <1>5, <1>6

\* RPC_IncreaseRankData and RPC_UpdateRankData.
LEMMA RefreshFacts ==
  ASSUME NEW b, BoardInv(b), NEW k \in RankKeys, NEW ts \in Nat
  PROVE  /\ k \in DOMAIN b.map =>
              LET c == OnChangeRankData([b EXCEPT !.exp = With(@, k, ts)], k)
              IN  BoardInv(c) /\ (RankId \notin RankKeys => NotesChange(b, c, k))
         /\ \A s \in Sorts :
              LET c == OnChangeRankData(SetEntry(b, k, s, ts), k)
              IN  BoardInv(c) /\ (RankId \notin RankKeys => NotesChange(b, c, k))
<1>1. ASSUME k \in DOMAIN b.map, NEW c, c = OnChangeRankData([b EXCEPT !.exp = With(@, k, ts)], k)
      PROVE  BoardInv(c) /\ (RankId \notin RankKeys => NotesChange(b, c, k))
  <2>1. PICK d : d = [b EXCEPT !.exp = With(@, k, ts)]
    OBVIOUS
  <2>2. BoardInv(d) /\ d.map = b.map /\ d.up = b.up /\ d.rem = b.rem
    BY <1>1, <2>1, TouchFacts
  <2>3. k \in DOMAIN d.map /\ c = OnChangeRankData(d, k)
    BY <1>1, <2>1, <2>2
  <2>4. /\ BoardInv(c) /\ c.map = d.map
        /\ RankId \notin RankKeys => c.rem = d.rem
        /\ DOMAIN c.up = DOMAIN d.up \cup {k} /\ c.up[k] = d.map[k]
        /\ \A j \in DOMAIN d.up \ {k} : c.up[j] = d.up[j]
    BY <2>2, <2>3, OnChangeFacts
  <2>5. ASSUME RankId \notin RankKeys PROVE Noted(b, c, k)
    BY <2>2, <2>3, <2>4, <2>5 DEF Noted
  <2>6. ASSUME RankId \notin RankKeys, NEW j \in RankKeys \ {k} PROVE SameNote(b, c, j)
    BY <2>2, <2>4, <2>6 DEF SameNote
  <2> QED  BY <2>4, <2>5, <2>6 DEF NotesChange
<1>2. ASSUME NEW s \in Sorts, NEW c, c = OnChangeRankData(SetEntry(b, k, s, ts), k)
      PROVE  BoardInv(c) /\ (RankId \notin RankKeys => NotesChange(b, c, k))
  BY <1>2, PutFacts DEF NotesChange
<1> QED  BY <1>1, <1>2

\* The entry of k leaves a board that is right.
LEMMA LeaveFacts ==
  ASSUME NEW b, BoardInv(b), NEW k \in DOMAIN b.map, NEW c, c = DeleteRankData(b, k)
  PROVE  /\ BoardInv(c)
         /\ RankId \notin RankKeys =>
              Left(b, c, k) /\ \A j \in RankKeys \ {k} : SameNote(b, c, j)
<1>1. /\ BoardInv(c) /\ c.up = (IF k = RankId THEN Empty ELSE b.up) /\ c.rem = b.rem \cup {k}
      /\ DOMAIN c.map = DOMAIN b.map \ {k} /\ \A j \in DOMAIN c.map : c.map[j] = b.map[j]
  BY DeleteFacts DEF BoardInv, HeapInv
<1>2. k \in RankKeys
  BY DEF BoardInv, MapInv
<1>3. ASSUME RankId \notin RankKeys PROVE c.up = b.up
  BY <1>1, <1>2, <1>3
<1>4. ASSUME RankId \notin RankKeys, NEW j \in RankKeys \ {k} PROVE SameNote(b, c, j)
  BY <1>1, <1>3, <1>4 DEF SameNote
<1> QED  BY <1>1, <1>4 DEF Left

\* pickExpireKey takes k from the heap, and then its entry leaves.
LEMMA PopFacts ==
  ASSUME NEW b, BoardInv(b), NEW k \in DOMAIN b.map,
         NEW c, c = DeleteRankData([b EXCEPT !.exp = Without(@, k)], k)
  PROVE  /\ BoardInv(c)
         /\ RankId \notin RankKeys =>
              Left(b, c, k) /\ \A j \in RankKeys \ {k} : SameNote(b, c, j)
<1>1. PICK t, d : t = Without(b.exp, k) /\ d = [b EXCEPT !.exp = t]
  OBVIOUS
<1>2. /\ DOMAIN d = Fields /\ d.list = b.list /\ d.map = b.map /\ d.exp = t
      /\ d.up = b.up /\ d.rem = b.rem
  BY <1>1 DEF BoardInv, MapInv, Fields
<1>3. DOMAIN t = DOMAIN b.exp \ {k} /\ \A j \in DOMAIN b.exp \ {k} : t[j] = b.exp[j]
  BY <1>1, WithoutFacts
<1>4. ListInv(d) /\ NotesInv(d)
  BY <1>2 DEF BoardInv, ListInv, NotesInv
<1>5. /\ MapInv(d) /\ DOMAIN d.exp \subseteq DOMAIN d.map
      /\ DOMAIN d.map \ {k} \subseteq DOMAIN d.exp \cup {0} /\ k \in DOMAIN d.map
  BY <1>2, <1>3 DEF BoardInv, MapInv, HeapInv
<1>6. c = DeleteRankData(d, k)
  BY <1>1
<1>7. /\ BoardInv(c) /\ c.up = (IF k = RankId THEN Empty ELSE d.up) /\ c.rem = d.rem \cup {k}
      /\ DOMAIN c.map = DOMAIN d.map \ {k} /\ \A j \in DOMAIN c.map : c.map[j] = d.map[j]
  <2>1. ASSUME NEW f, f = DeleteRankData(d, k)
        PROVE  /\ BoardInv(f) /\ f.up = (IF k = RankId THEN Empty ELSE d.up) /\ f.rem = d.rem \cup {k}
               /\ DOMAIN f.map = DOMAIN d.map \ {k} /\ \A j \in DOMAIN f.map : f.map[j] = d.map[j]
    BY <1>4, <1>5, <2>1, DeleteFacts
  <2> QED  BY <1>6, <2>1
<1>8. k \in RankKeys
  BY DEF BoardInv, MapInv
<1>9. ASSUME RankId \notin RankKeys PROVE c.up = b.up
  BY <1>2, <1>7, <1>8, <1>9
<1>10. ASSUME RankId \notin RankKeys, NEW j \in RankKeys \ {k} PROVE SameNote(b, c, j)
  BY <1>2, <1>7, <1>9, <1>10 DEF SameNote
<1> QED  BY <1>2, <1>7, <1>10 DEF Left

\* The key 0 leaves the heap only.
LEMMA ZeroFacts ==
  ASSUME NEW b, BoardInv(b), NEW c, c = [b EXCEPT !.exp = Without(@, 0)]
  PROVE  BoardInv(c) /\ \A j \in RankKeys : SameNote(b, c, j)
<1>1. PICK t : t = Without(b.exp, 0)
  OBVIOUS
<1>2. /\ DOMAIN c = Fields /\ c.list = b.list /\ c.map = b.map /\ c.exp = t
      /\ c.up = b.up /\ c.rem = b.rem
  BY <1>1 DEF BoardInv, MapInv, Fields
<1>3. DOMAIN t = DOMAIN b.exp \ {0} /\ \A j \in DOMAIN b.exp \ {0} : t[j] = b.exp[j]
  BY <1>1, WithoutFacts
<1>4. ListInv(c) /\ NotesInv(c)
  BY <1>2 DEF BoardInv, ListInv, NotesInv
<1>5. MapInv(c) /\ HeapInv(c)
  BY <1>2, <1>3 DEF BoardInv, MapInv, HeapInv
<1>6. \A j \in RankKeys : SameNote(b, c, j)
  BY <1>2 DEF SameNote
<1> QED  BY <1>4, <1>5, <1>6 DEF BoardInv

\* A full board gives up its last entry.
LEMMA ReplacedFacts ==
  ASSUME NEW b, BoardInv(b), NEW c, c = Replaced(b)
  PROVE  /\ BoardInv(c) /\ DOMAIN c.map \subseteq DOMAIN b.map
         /\ RankId \notin RankKeys => \A j \in RankKeys : SameNote(b, c, j) \/ Left(b, c, j)
<1>1. CASE ~Full(b)
  <2>1. c = b
    BY <1>1 DEF Replaced
  <2> QED  BY <2>1 DEF SameNote
<1>2. CASE Full(b)
  <2>1. Len(b.list) \in Nat /\ MaxLen \in Nat
    BY RankAssumption, LenProperties DEF BoardInv, ListInv
  <2>2. Len(b.list) \in 1..Len(b.list)
    BY <1>2, <2>1 DEF Full
  <2>3. PICK k : k = b.list[Len(b.list)].key
    OBVIOUS
  <2>4. k \in DOMAIN b.map
    BY <2>2, <2>3, EntriesFacts DEF BoardInv
  <2>5. c = DeleteRankData(b, k)
    BY <1>2, <2>3 DEF Replaced, Last
  <2>6. DOMAIN c.map = DOMAIN b.map \ {k}
    BY <2>4, <2>5, DeleteFacts DEF BoardInv, HeapInv
  <2> QED  BY <2>4, <2>5, <2>6, LeaveFacts
<1> QED  BY <1>1, <1>2

\* UpsetRank for a request.
LEMMA UpsetFacts ==
  ASSUME NEW b, BoardInv(b), NEW k \in RankKeys, NEW s \in Sorts, NEW ts \in Nat,
         NEW c, c = UpsetRank(b, k, s, ts, FALSE)
  PROVE  BoardInv(c) /\ (RankId \notin RankKeys => NotesChange(b, c, k))
<1>1. CASE k \in DOMAIN b.map
  <2>1. c = OnChangeRankData(SetEntry(b, k, s, ts), k)
    BY <1>1 DEF UpsetRank
  <2> QED  BY <2>1, PutFacts DEF NotesChange
<1>2. CASE k \notin DOMAIN b.map /\ ~checkInsertAndReplace(b, s)
  <2>1. c = b
    BY <1>2 DEF UpsetRank
  <2> QED  BY <2>1 DEF NotesChange, SameNote
<1>3. CASE k \notin DOMAIN b.map /\ checkInsertAndReplace(b, s)
  <2>1. PICK d : d = Replaced(b)
    OBVIOUS
  <2>2. c = OnChangeRankData(SetEntry(d, k, s, ts), k)
    BY <1>3, <2>1 DEF UpsetRank, OnEnterRank
  <2>3. /\ BoardInv(d)
        /\ RankId \notin RankKeys => \A j \in RankKeys : SameNote(b, d, j) \/ Left(b, d, j)
    BY <2>1, ReplacedFacts
  <2>4. /\ BoardInv(c)
        /\ RankId \notin RankKeys =>
             Noted(d, c, k) /\ \A j \in RankKeys \ {k} : SameNote(d, c, j)
    BY <2>2, <2>3, PutFacts
  <2>5. ASSUME RankId \notin RankKeys PROVE Noted(b, c, k)
    BY <1>3, <2>3, <2>4, <2>5 DEF Noted, SameNote, Left
  <2>6. ASSUME RankId \notin RankKeys, NEW j \in RankKeys \ {k} PROVE SameNote(b, c, j) \/ Left(b, c, j)
    <3>1. SameNote(d, c, j)
      BY <2>4, <2>6
    <3>2. CASE SameNote(b, d, j)
      BY <3>1, <3>2 DEF SameNote
    <3>3. CASE Left(b, d, j)
      BY <3>1, <3>3 DEF SameNote, Left
    <3> QED  BY <2>3, <2>6, <3>2, <3>3
  <2> QED  BY <2>4, <2>5, <2>6 DEF NotesChange
<1> QED  BY <1>1, <1>2, <1>3

\* UpsetRank for a record of the collection: nothing of it is noted.
NotesKept(b, c, k, s) ==
  /\ \A j \in RankKeys \ {k} : SameNote(b, c, j) \/ Left(b, c, j)
  /\ k \in DOMAIN c.map => c.map[k].sort = s
  /\ (k \in DOMAIN c.up) <=> (k \in DOMAIN b.up)
  /\ (k \in c.rem) <=> (k \in b.rem)
LEMMA LoadFacts ==
  ASSUME NEW b, BoardInv(b), NEW k \in RankKeys, NEW s \in Sorts, NEW ts \in Nat,
         NEW c, c = UpsetRank(b, k, s, ts, TRUE)
  PROVE  /\ BoardInv(c)
         /\ RankId \notin RankKeys /\ k \notin DOMAIN b.map => NotesKept(b, c, k, s)
<1> USE DEF NotesKept
<1>1. CASE k \in DOMAIN b.map
  <2>1. c = SetEntry(b, k, s, ts)
    BY <1>1 DEF UpsetRank
  <2> QED  BY <1>1, <2>1, SetEntryFacts
<1>2. CASE k \notin DOMAIN b.map /\ ~checkInsertAndReplace(b, s)
  <2>1. c = b
    BY <1>2 DEF UpsetRank
  <2> QED  BY <1>2, <2>1 DEF SameNote
<1>3. CASE k \notin DOMAIN b.map /\ checkInsertAndReplace(b, s)
  <2>1. PICK d : d = Replaced(b)
    OBVIOUS
  <2>2. c = SetEntry(d, k, s, ts)
    BY <1>3, <2>1 DEF UpsetRank
  <2>3. /\ BoardInv(d)
        /\ RankId \notin RankKeys => \A j \in RankKeys : SameNote(b, d, j) \/ Left(b, d, j)
    BY <2>1, ReplacedFacts
  <2>4. /\ BoardInv(c) /\ c.up = d.up /\ c.rem = d.rem
        /\ DOMAIN c.map = DOMAIN d.map \cup {k} /\ c.map[k] = [sort |-> s, ts |-> ts]
        /\ \A j \in DOMAIN d.map \ {k} : c.map[j] = d.map[j]
    <3>1. BoardInv(d)
      BY <2>3
    <3>2. ASSUME NEW f, f = SetEntry(d, k, s, ts)
          PROVE  /\ BoardInv(f) /\ f.up = d.up /\ f.rem = d.rem
                 /\ DOMAIN f.map = DOMAIN d.map \cup {k} /\ f.map[k] = [sort |-> s, ts |-> ts]
                 /\ \A j \in DOMAIN d.map \ {k} : f.map[j] = d.map[j]
      BY <3>1, <3>2, SetEntryFacts
    <3> QED  BY <2>2, <3>2
  <2>4a. c.map[k].sort = s
    <3>1. c.map[k] = [sort |-> s, ts |-> ts]
      BY <2>4
    <3>2. \A r : r = [sort |-> s, ts |-> ts] => r.sort = s
      OBVIOUS
    <3> QED  BY <3>1, <3>2, Zenon
  <2>5. ASSUME RankId \notin RankKeys, NEW j \in RankKeys \ {k} PROVE SameNote(b, c, j) \/ Left(b, c, j)
    <3>1. SameNote(d, c, j)
      BY <2>4 DEF SameNote
    <3>2. CASE SameNote(b, d, j)
      BY <3>1, <3>2 DEF SameNote
    <3>3. CASE Left(b, d, j)
      BY <3>1, <3>3 DEF SameNote, Left
    <3> QED  BY <2>3, <2>5, <3>2, <3>3
  <2>6. ASSUME RankId \notin RankKeys
        PROVE  ((k \in DOMAIN c.up) <=> (k \in DOMAIN b.up)) /\ ((k \in c.rem) <=> (k \in b.rem))
    BY <1>3, <2>3, <2>4, <2>6 DEF SameNote, Left
  <2> QED  BY <2>4, <2>4a, <2>5, <2>6
<1> QED  BY <1>1, <1>2, <1>3

-----------------------------------------------------------------------------
(* The board and its answers.                                              *)

\* What saveToDB has taken, and the collection.
SaveInv(sv) ==
  /\ DOMAIN sv = {"pc", "up", "rem"}
  /\ DOMAIN sv.up \subseteq RankKeys /\ \A k \in DOMAIN sv.up : sv.up[k] \in Record
  /\ sv.rem \subseteq RankKeys
DbInv(d) == DOMAIN d \subseteq RankKeys /\ \A k \in DOMAIN d : d[k] \in Record

\* What is asked for, before the expired entries are removed.
AskInv(ask) ==
  /\ ask.what \in {"nothing", "key", "list", "rank"}
  /\ ask.pos \in Int /\ ask.n \in Nat /\ ask.count \in Nat
  /\ ask.what = "list" => ask.count > 0
  /\ ask.what = "rank" => ask.pos > 0
TaskInv(t) ==
  /\ DOMAIN t = {"pc", "ask", "rest", "left"} /\ AskInv(t.ask)
  /\ t.pc # "load" => t.rest = {}

\* A record that is still to be loaded is in the collection, and nothing is
\* noted of it.
RestInv(rest, b, sv, d) ==
  \A k \in rest : /\ k \in DOMAIN d
                  /\ k \notin DOMAIN b.map \cup DOMAIN b.up \cup b.rem
                  /\ k \notin DOMAIN sv.up \cup sv.rem

RankInv ==
  /\ now \in Nat /\ BoardInv(board) /\ SaveInv(save) /\ DbInv(db) /\ TaskInv(task)
  /\ RestInv(task.rest, board, save, db)
  /\ AnswersRight

\* A new board, and a goroutine that saves nothing.
LEMMA NewInv == BoardInv(NewBoard) /\ SaveInv(Idle)
<1>1. DOMAIN Empty = {}
  BY DEF Empty
<1>2. NewBoard.list = <<>> /\ NewBoard.map = Empty /\ NewBoard.exp = Empty /\ NewBoard.up = Empty
      /\ NewBoard.rem = {} /\ DOMAIN NewBoard = Fields
  BY DEF NewBoard, Fields
<1>3. ListInv(NewBoard)
  BY <1>1, <1>2 DEF ListInv, Sorted, ToSet
<1>4. MapInv(NewBoard) /\ NotesInv(NewBoard) /\ HeapInv(NewBoard)
  BY <1>1, <1>2 DEF MapInv, NotesInv, HeapInv
<1>5. SaveInv(Idle)
  BY <1>1 DEF Idle, SaveInv
<1> QED  BY <1>3, <1>4, <1>5 DEF BoardInv

LEMMA TasksInv ==
  /\ TaskInv(Free) /\ Free.rest = {}
  /\ \A ask : AskInv(ask) => TaskInv(Picking(ask)) /\ Picking(ask).rest = {}
  /\ \A f : AskInv([Nothing EXCEPT !.find = f])
  /\ \A k : AskInv(ByKey(k))
  /\ \A p \in Int, n \in Nat, c \in Nat : \A f :
       c > 0 => AskInv([Nothing EXCEPT !.what = "list", !.pos = p, !.n = n, !.count = c, !.find = f])
  /\ \A p \in Int : p > 0 => AskInv([Nothing EXCEPT !.what = "rank", !.pos = p])
<1>1. AskInv(Nothing)
  BY DEF AskInv, Nothing
<1>2. TaskInv(Free) /\ Free.rest = {}
  BY <1>1 DEF Free, TaskInv
<1>3. \A ask : AskInv(ask) => TaskInv(Picking(ask)) /\ Picking(ask).rest = {}
  BY DEF Picking, TaskInv
<1>4. /\ \A k : AskInv(ByKey(k))
      /\ \A f : AskInv([Nothing EXCEPT !.find = f])
  BY DEF AskInv, Nothing, ByKey
<1>5. ASSUME NEW p \in Int, NEW n \in Nat, NEW c \in Nat, NEW f, c > 0
      PROVE  AskInv([Nothing EXCEPT !.what = "list", !.pos = p, !.n = n, !.count = c, !.find = f])
  BY <1>5 DEF AskInv, Nothing
<1>6. ASSUME NEW p \in Int, p > 0
      PROVE  AskInv([Nothing EXCEPT !.what = "rank", !.pos = p])
  BY <1>6 DEF AskInv, Nothing
<1> QED  BY <1>1, <1>2, <1>3, <1>4, <1>5, <1>6

LEMMA LoadingFacts ==
  ASSUME NEW keys
  PROVE  TaskInv(Loading(keys)) /\ Loading(keys).rest = keys
<1>1. CASE keys = {}
  BY <1>1, TasksInv DEF Loading
<1>2. CASE keys # {}
  BY <1>2, TasksInv DEF Loading, Free, TaskInv
<1> QED  BY <1>1, <1>2

LEMMA StartedFacts ==
  ASSUME NEW keys, NEW manual \in BOOLEAN
  PROVE  /\ TaskInv(Started(manual, keys))
         /\ Started(manual, keys).rest = IF manual THEN {} ELSE keys
<1>1. TaskInv(Unset) /\ Unset.rest = {}
  BY TasksInv DEF Unset, Free, TaskInv
<1> QED  BY <1>1, LoadingFacts DEF Started

LEMMA RankInitInv == RankInit => RankInv
<1> SUFFICES ASSUME RankInit PROVE RankInv
  OBVIOUS
<1>1. DOMAIN Empty = {}
  BY DEF Empty
<1>2. board = NewBoard /\ save = Idle /\ now = 0 /\ answer = NoAnswer
  BY DEF RankInit
<1>3. BoardInv(NewBoard) /\ SaveInv(Idle)
  BY NewInv
<1>4. PICK st \in Starts, manual \in BOOLEAN : db = st.db /\ task = Started(manual, DOMAIN db)
  BY DEF RankInit
<1>5. DbInv(db)
  BY <1>4, RankAssumption DEF DbInv, Record
<1>6. TaskInv(task) /\ task.rest \subseteq DOMAIN db
  BY <1>4, StartedFacts
<1>7. AnswersRight
  BY <1>2 DEF AnswersRight, NoAnswer
<1>8. RestInv(task.rest, NewBoard, Idle, db)
  BY <1>1, <1>6 DEF RestInv, NewBoard, Idle
<1> QED  BY <1>2, <1>3, <1>5, <1>6, <1>7, <1>8 DEF RankInv

\* No answer is to be looked at after a step other than Answer.
LEMMA SentRight == Sent => AnswersRight'
BY DEF Sent, AnswersRight, NoAnswer

\* A request leaves everything but the board and the task.
LEMMA RequestInv ==
  ASSUME RankInv, NEW after, Request(after), TaskInv(after), after.rest = {}, BoardInv(board')
  PROVE  RankInv'
<1>1. AnswersRight'
  BY SentRight DEF Request
<1>2. UNCHANGED <<now, save, db>> /\ task' = after
  BY DEF Request
<1> QED  BY <1>1, <1>2 DEF RankInv, RestInv

LEMMA RequestsInv ==
  ASSUME RankInv, NEW k \in RankKeys
  PROVE  /\ \A s \in Sorts : \A f : RPC_UpsetRank(k, s, f) => RankInv'
         /\ \A inc \in {0, 1}, insert \in BOOLEAN, ret \in BOOLEAN :
              RPC_IncreaseRankData(k, inc, insert, ret) => RankInv'
         /\ RPC_UpdateRankData(k) => RankInv'
         /\ RPC_DeleteRankDataByKey(k) => RankInv'
         /\ RPC_FindRankDataByKey(k) => RankInv'
<1>0. now \in Nat /\ BoardInv(board)
  BY DEF RankInv
<1>1. ASSUME NEW s \in Sorts, NEW f, RPC_UpsetRank(k, s, f) PROVE RankInv'
  <2>1. BoardInv(board')
    BY <1>0, <1>1, UpsetFacts DEF RPC_UpsetRank
  <2> QED  BY <1>1, <2>1, TasksInv, RequestInv DEF RPC_UpsetRank
<1>2. ASSUME NEW inc \in {0, 1}, NEW insert \in BOOLEAN, NEW ret \in BOOLEAN,
             RPC_IncreaseRankData(k, inc, insert, ret)
      PROVE  RankInv'
  <2>1. BoardInv(board')
    <3>1. CASE k \in DOMAIN board.map
      <4>1. board' = ChangeExtendData(board, k, inc) /\ board.map[k].sort + inc \in Sorts
        BY <1>2, <3>1 DEF RPC_IncreaseRankData
      <4> QED  BY <1>0, <3>1, <4>1, RefreshFacts DEF ChangeExtendData
    <3>2. CASE k \notin DOMAIN board.map
      <4>1. PICK s \in Sorts : board' = OnChangeRankData(SetEntry(board, k, s, now), k)
        BY <1>2, <3>2 DEF RPC_IncreaseRankData, InsertDataOnNonExistent
      <4> QED  BY <1>0, <4>1, RefreshFacts
    <3> QED  BY <3>1, <3>2
  <2> QED  BY <1>2, <2>1, TasksInv, RequestInv DEF RPC_IncreaseRankData
<1>3. ASSUME RPC_UpdateRankData(k) PROVE RankInv'
  <2>1. BoardInv(board')
    BY <1>0, <1>3, RefreshFacts DEF RPC_UpdateRankData
  <2> QED  BY <1>3, <2>1, TasksInv, RequestInv DEF RPC_UpdateRankData
<1>4. ASSUME RPC_DeleteRankDataByKey(k) PROVE RankInv'
  <2>1. BoardInv(board')
    BY <1>0, <1>4, LeaveFacts DEF RPC_DeleteRankDataByKey
  <2> QED  BY <1>4, <2>1, TasksInv, RequestInv DEF RPC_DeleteRankDataByKey
<1>5. ASSUME RPC_FindRankDataByKey(k) PROVE RankInv'
  <2>1. BoardInv(board')
    BY <1>0, <1>5 DEF RPC_FindRankDataByKey
  <2> QED  BY <1>5, <2>1, TasksInv, RequestInv DEF RPC_FindRankDataByKey
<1> QED  BY <1>1, <1>2, <1>3, <1>4, <1>5

\* Loading a record changes nothing of the keys that are not on the board yet.
OthersKept(b, c, k) ==
  /\ DOMAIN c.map \subseteq DOMAIN b.map \cup {k} /\ DOMAIN c.up \subseteq DOMAIN b.up
  /\ c.rem \subseteq b.rem \cup DOMAIN b.map
LEMMA LoadKeeps ==
  ASSUME NEW b, BoardInv(b), NEW k \in RankKeys, NEW s \in Sorts, NEW ts \in Nat,
         NEW c, c = UpsetRank(b, k, s, ts, TRUE)
  PROVE  OthersKept(b, c, k)
<1> USE DEF OthersKept
<1>1. ASSUME NEW d, BoardInv(d), NEW f, f = SetEntry(d, k, s, ts)
      PROVE  DOMAIN f.map = DOMAIN d.map \cup {k} /\ f.up = d.up /\ f.rem = d.rem
  <2>1. /\ BoardInv(f) /\ f.up = d.up /\ f.rem = d.rem
        /\ DOMAIN f.map = DOMAIN d.map \cup {k} /\ f.map[k] = [sort |-> s, ts |-> ts]
        /\ \A j \in DOMAIN d.map \ {k} : f.map[j] = d.map[j]
    BY <1>1, SetEntryFacts
  <2> QED  BY <2>1
<1>2. ASSUME NEW d, d = Replaced(b)
      PROVE  /\ BoardInv(d) /\ DOMAIN d.map \subseteq DOMAIN b.map /\ DOMAIN d.up \subseteq DOMAIN b.up
             /\ d.rem \subseteq b.rem \cup DOMAIN b.map
  <2>1. CASE ~Full(b)
    BY <1>2, <2>1 DEF Replaced
  <2>2. CASE Full(b)
    <3>1. Len(b.list) \in Nat /\ MaxLen \in Nat
      BY RankAssumption, LenProperties DEF BoardInv, ListInv
    <3>2. Len(b.list) \in 1..Len(b.list)
      BY <2>2, <3>1 DEF Full
    <3>3. PICK j : j = b.list[Len(b.list)].key
      OBVIOUS
    <3>4. j \in DOMAIN b.map
      BY <3>2, <3>3, EntriesFacts DEF BoardInv
    <3>5. d = DeleteRankData(b, j)
      BY <1>2, <2>2, <3>3 DEF Replaced, Last
    <3>6. /\ BoardInv(d) /\ d.up = (IF j = RankId THEN Empty ELSE b.up) /\ d.rem = b.rem \cup {j}
          /\ DOMAIN d.map = DOMAIN b.map \ {j}
      BY <3>4, <3>5, DeleteFacts DEF BoardInv, HeapInv
    <3>7. DOMAIN Empty = {}
      BY DEF Empty
    <3> QED  BY <3>4, <3>6, <3>7
  <2> QED  BY <2>1, <2>2
<1>3. CASE k \in DOMAIN b.map
  <2>1. c = SetEntry(b, k, s, ts)
    BY <1>3 DEF UpsetRank
  <2> QED  BY <1>1, <2>1
<1>4. CASE k \notin DOMAIN b.map /\ ~checkInsertAndReplace(b, s)
  BY <1>4 DEF UpsetRank
<1>5. CASE k \notin DOMAIN b.map /\ checkInsertAndReplace(b, s)
  <2>1. PICK d : d = Replaced(b)
    OBVIOUS
  <2>2. c = SetEntry(d, k, s, ts)
    BY <1>5, <2>1 DEF UpsetRank
  <2>3. /\ BoardInv(d) /\ DOMAIN d.map \subseteq DOMAIN b.map /\ DOMAIN d.up \subseteq DOMAIN b.up
        /\ d.rem \subseteq b.rem \cup DOMAIN b.map
    BY <1>2, <2>1
  <2>4. DOMAIN c.map = DOMAIN d.map \cup {k} /\ c.up = d.up /\ c.rem = d.rem
    BY <1>1, <2>2, <2>3
  <2> QED  BY <2>3, <2>4
<1> QED  BY <1>3, <1>4, <1>5

LEMMA ListQueryInv ==
  ASSUME RankInv
  PROVE  /\ \A startRank \in 0..3 : \A f : RPC_FindRankDataList(startRank, 2, f) => RankInv'
         /\ \A rank \in 1..2 : RPC_FindRankDataByRank(rank) => RankInv'
<1>1. ASSUME NEW startRank \in 0..3, NEW f, RPC_FindRankDataList(startRank, 2, f) PROVE RankInv'
  <2>1. PICK ask : ask = [Nothing EXCEPT !.what = "list", !.pos = startRank - 1, !.n = 2,
                                         !.count = Len(board.list), !.find = f]
    OBVIOUS
  <2>2. Request(Picking(ask)) /\ board.list # <<>> /\ board' = board
    BY <1>1, <2>1 DEF RPC_FindRankDataList
  <2>3. board.list \in Seq(Entry)
    BY DEF RankInv, BoardInv, ListInv
  <2>4. Len(board.list) \in Nat /\ Len(board.list) > 0
    BY <2>2, <2>3, EmptySeq, LenProperties
  <2>5. startRank - 1 \in Int /\ 2 \in Nat
    OBVIOUS
  <2>6. AskInv(ask)
    BY <2>1, <2>4, <2>5, TasksInv
  <2>7. TaskInv(Picking(ask)) /\ Picking(ask).rest = {}
    BY <2>6, TasksInv
  <2>8. BoardInv(board')
    BY <2>2 DEF RankInv
  <2> QED  BY <2>2, <2>7, <2>8, RequestInv
<1>2. ASSUME NEW rank \in 1..2, RPC_FindRankDataByRank(rank) PROVE RankInv'
  <2>1. PICK ask : ask = [Nothing EXCEPT !.what = "rank", !.pos = rank]
    OBVIOUS
  <2>2. Request(Picking(ask)) /\ board' = board
    BY <1>2, <2>1 DEF RPC_FindRankDataByRank
  <2>3. rank \in Int /\ rank > 0
    OBVIOUS
  <2>4. AskInv(ask)
    BY <2>1, <2>3, TasksInv
  <2>5. TaskInv(Picking(ask)) /\ Picking(ask).rest = {}
    BY <2>4, TasksInv
  <2>6. BoardInv(board')
    BY <2>2 DEF RankInv
  <2> QED  BY <2>2, <2>5, <2>6, RequestInv
<1> QED  BY <1>1, <1>2

LEMMA PopInv == ASSUME RankInv, NEW k \in RankKeys, PopExpireKey(k) PROVE RankInv'
<1>1. BoardInv(board')
  <2>1. BoardInv(board) /\ k \in DOMAIN board.map
    BY DEF PopExpireKey, Expired, RankInv, BoardInv, HeapInv
  <2>2. CASE k = 0
    BY <2>1, <2>2, ZeroFacts DEF PopExpireKey
  <2>3. CASE k # 0
    BY <2>1, <2>3, PopFacts DEF PopExpireKey
  <2> QED  BY <2>2, <2>3
<1>2. TaskInv(task') /\ task'.rest = task.rest /\ task.rest = {}
  BY DEF PopExpireKey, RankInv, TaskInv
<1>3. AnswersRight'
  BY SentRight DEF PopExpireKey
<1> QED  BY <1>1, <1>2, <1>3 DEF PopExpireKey, RankInv, RestInv

LEMMA SaveBeginsInv == ASSUME RankInv, SaveBegins PROVE RankInv'
<1>0. BoardInv(board) /\ DOMAIN Empty = {}
  BY DEF RankInv, Empty
<1>1. PICK b : b = board
  OBVIOUS
<1>2. PICK c : c = board'
  OBVIOUS
<1>3. c = [b EXCEPT !.up = Empty, !.rem = {}]
  BY <1>1, <1>2 DEF SaveBegins
<1>4. /\ DOMAIN c = Fields /\ c.list = b.list /\ c.map = b.map /\ c.exp = b.exp
      /\ c.up = Empty /\ c.rem = {}
  BY <1>0, <1>1, <1>3 DEF BoardInv, MapInv, Fields
<1>5. BoardInv(c)
  <2>1. BoardInv(b)
    BY <1>0, <1>1
  <2> QED  BY <1>0, <1>4, <2>1 DEF BoardInv, ListInv, MapInv, NotesInv, HeapInv
<1>6. DOMAIN save' = {"pc", "up", "rem"} /\ save'.up = board.up /\ save'.rem = board.rem
  BY DEF SaveBegins
<1>7. SaveInv(save')
  BY <1>0, <1>6 DEF SaveInv, BoardInv, NotesInv
<1>8. RestInv(task.rest, board', save', db)
  BY <1>0, <1>1, <1>2, <1>4, <1>6 DEF RankInv, RestInv
<1>9. AnswersRight'
  BY SentRight DEF SaveBegins
<1> QED  BY <1>2, <1>5, <1>7, <1>8, <1>9 DEF SaveBegins, RankInv

LEMMA UpsertInv == ASSUME RankInv, NEW k \in RankKeys, upsertToDB(k) PROVE RankInv'
<1>1. PICK u : u = Without(save.up, k)
  OBVIOUS
<1>2. DOMAIN u = DOMAIN save.up \ {k} /\ \A j \in DOMAIN u : u[j] = save.up[j]
  BY <1>1, WithoutFacts
<1>3. DOMAIN save' = {"pc", "up", "rem"} /\ save'.up = u /\ save'.rem = save.rem
  BY <1>1 DEF upsertToDB, RankInv, SaveInv
<1>4. SaveInv(save')
  BY <1>2, <1>3 DEF RankInv, SaveInv
<1>5. DbInv(db') /\ DOMAIN db \subseteq DOMAIN db'
  <2>1. CASE db' = db
    BY <2>1 DEF RankInv
  <2>2. CASE db' = With(db, k, save.up[k])
    <3>1. DOMAIN db' = DOMAIN db \cup {k} /\ db'[k] = save.up[k] /\ \A j \in DOMAIN db \ {k} : db'[j] = db[j]
      BY <2>2 DEF With
    <3>2. save.up[k] \in Record
      BY DEF upsertToDB, RankInv, SaveInv
    <3> QED  BY <3>1, <3>2 DEF RankInv, DbInv
  <2> QED  BY <2>1, <2>2 DEF upsertToDB
<1>6. RestInv(task.rest, board, save', db')
  BY <1>2, <1>3, <1>5 DEF RankInv, RestInv
<1>7. AnswersRight'
  BY SentRight DEF upsertToDB
<1> QED  BY <1>4, <1>5, <1>6, <1>7 DEF upsertToDB, RankInv

LEMMA RemoveInv == ASSUME RankInv, removeToDB PROVE RankInv'
<1>1. DOMAIN save' = {"pc", "up", "rem"} /\ save'.up = save.up /\ save'.rem = {}
  BY DEF removeToDB, RankInv, SaveInv
<1>2. SaveInv(save')
  BY <1>1 DEF RankInv, SaveInv
<1>3. DbInv(db') /\ DOMAIN db \ save.rem \subseteq DOMAIN db'
  <2>1. CASE db' = db
    BY <2>1 DEF RankInv
  <2>2. CASE db' = Restrict(db, DOMAIN db \ save.rem)
    <3>1. DOMAIN db' = DOMAIN db \ save.rem /\ \A j \in DOMAIN db \ save.rem : db'[j] = db[j]
      BY <2>2 DEF Restrict
    <3> QED  BY <3>1 DEF RankInv, DbInv
  <2> QED  BY <2>1, <2>2 DEF removeToDB
<1>4. RestInv(task.rest, board, save', db')
  BY <1>1, <1>3 DEF RankInv, RestInv
<1>5. AnswersRight'
  BY SentRight DEF removeToDB
<1> QED  BY <1>2, <1>3, <1>4, <1>5 DEF removeToDB, RankInv

LEMMA QuietInv == ASSUME RankInv, SaveEnds \/ OnStop \/ ClockTick PROVE RankInv'
<1>1. now' \in Nat
  BY DEF RankInv, SaveEnds, OnStop, ClockTick
<1>2. DOMAIN save' = {"pc", "up", "rem"} /\ save'.up = save.up /\ save'.rem = save.rem
  BY DEF RankInv, SaveInv, SaveEnds, OnStop, ClockTick
<1>3. SaveInv(save')
  BY <1>2 DEF RankInv, SaveInv
<1>4. UNCHANGED <<board, db, task>>
  BY DEF SaveEnds, OnStop, ClockTick
<1>5. RestInv(task.rest, board, save', db)
  BY <1>2 DEF RankInv, RestInv
<1>6. AnswersRight'
  BY SentRight DEF SaveEnds, OnStop, ClockTick
<1> QED  BY <1>1, <1>3, <1>4, <1>5, <1>6 DEF RankInv

LEMMA RestartInv == ASSUME RankInv, NEW manual \in BOOLEAN, Restart(manual) PROVE RankInv'
<1>1. /\ board' = NewBoard /\ save' = Idle /\ task' = Started(manual, DOMAIN db)
      /\ db' = db /\ now' = now
  BY DEF Restart
<1>2. BoardInv(board') /\ SaveInv(save') /\ TaskInv(task') /\ task'.rest \subseteq DOMAIN db
  BY <1>1, NewInv, StartedFacts
<1>3. RestInv(task'.rest, NewBoard, Idle, db)
  BY <1>2 DEF RestInv, NewBoard, Idle, Empty
<1>4. AnswersRight'
  BY SentRight DEF Restart
<1> QED  BY <1>1, <1>2, <1>3, <1>4 DEF RankInv

LEMMA LoadInv == ASSUME RankInv, NEW k \in RankKeys, loadFromDB(k) PROVE RankInv'
<1>1. k \in task.rest /\ k \in DOMAIN db /\ db[k] \in Record /\ BoardInv(board)
  BY DEF loadFromDB, RankInv, RestInv, DbInv
<1>2. PICK s, ts : s = db[k].sort /\ ts = db[k].ts
  OBVIOUS
<1>3. s \in Sorts /\ ts \in Nat
  BY <1>1, <1>2 DEF Record
<1>4. board' = UpsetRank(board, k, s, ts, TRUE)
  BY <1>2 DEF loadFromDB
<1>5. BoardInv(board')
  BY <1>1, <1>3, <1>4, LoadFacts
<1>6. /\ DOMAIN board'.map \subseteq DOMAIN board.map \cup {k} /\ DOMAIN board'.up \subseteq DOMAIN board.up
      /\ board'.rem \subseteq board.rem \cup DOMAIN board.map
  <2>1. PICK c : c = board'
    OBVIOUS
  <2>2. c = UpsetRank(board, k, s, ts, TRUE)
    BY <1>4, <2>1
  <2>3. OthersKept(board, c, k)
    BY <1>1, <1>3, <2>2, LoadKeeps
  <2> QED  BY <2>1, <2>3 DEF OthersKept
<1>7. TaskInv(task') /\ task'.rest = task.rest \ {k} /\ UNCHANGED <<now, save, db>>
  BY LoadingFacts DEF loadFromDB
<1>8. RestInv(task.rest \ {k}, board', save, db)
  BY <1>6 DEF RankInv, RestInv
<1>9. AnswersRight'
  BY SentRight DEF loadFromDB
<1> QED  BY <1>5, <1>7, <1>8, <1>9 DEF RankInv

LEMMA OtherTasksInv == ASSUME RankInv, RPC_ManualAddRankSkip \/ LoadBreaks PROVE RankInv'
<1>1. task' = Free /\ UNCHANGED <<now, board, save, db>>
  BY DEF RPC_ManualAddRankSkip, LoadBreaks
<1>2. TaskInv(Free) /\ RestInv(Free.rest, board, save, db)
  BY TasksInv DEF RestInv
<1>3. AnswersRight'
  BY SentRight DEF RPC_ManualAddRankSkip, LoadBreaks
<1> QED  BY <1>1, <1>2, <1>3 DEF RankInv

\* What is answered is on the board, where the answer says, and has not expired.
LEMMA AnswerInv == ASSUME RankInv, Answer PROVE RankInv'
<1> DEFINE Shown(x) ==
      IF task.ask.what = "key" /\ task.ask.key \notin DOMAIN board.map
      THEN x.key = 0 /\ x.rank = 1
      ELSE /\ x.rank \in 1..Len(board.list) /\ board.list[x.rank].key = x.key
           /\ task.ask.what = "key" => x.key = task.ask.key
           /\ ExpireMs # 0 /\ task.left # 0 /\ x.key \in DOMAIN board.exp
                => board.exp[x.key] + ExpireMs > now
<1>1. PICK ask, q : ask = task.ask /\ q = answer'.list
  OBVIOUS
<1>2. AskInv(ask) /\ BoardInv(board) /\ board.list \in Seq(Entry) /\ Len(board.list) \in Nat /\ now \in Nat
  BY <1>1, LenProperties DEF RankInv, TaskInv, BoardInv, ListInv
<1>3. ASSUME NEW i \in 1..Len(board.list), ask.what = "key" => board.list[i].key = ask.key
      PROVE  Shown([key |-> board.list[i].key, rank |-> i])
  <2>1. PICK k : k = board.list[i].key
    OBVIOUS
  <2>2. k \in DOMAIN board.map /\ (k \in DOMAIN board.exp => board.exp[k] \in Nat)
    BY <1>2, <2>1, EntriesFacts DEF BoardInv, MapInv
  <2>3. ExpireMs # 0 /\ task.left # 0 /\ k \in DOMAIN board.exp => ~(board.exp[k] + ExpireMs <= now)
    BY <2>2 DEF Answer, Expired
  <2>4. ExpireMs \in Nat
    BY RankAssumption
  <2>5. ExpireMs # 0 /\ task.left # 0 /\ k \in DOMAIN board.exp => board.exp[k] + ExpireMs > now
    BY <1>2, <2>2, <2>3, <2>4
  <2>6. ~(ask.what = "key" /\ ask.key \notin DOMAIN board.map)
    BY <1>3, <2>1, <2>2
  <2> QED  BY <1>1, <1>3, <2>1, <2>5, <2>6
<1>4. answer'.what = ask.what /\ answer'.key = ask.key /\ answer'.at = now /\ answer'.cut = (task.left = 0)
  BY <1>1 DEF Answer
<1>5. \A i \in 1..Len(q) : Shown(q[i])
  <2>1. CASE ask.what = "nothing"
    <3>1. q = <<>>
      BY <1>1, <2>1 DEF Answer
    <3> QED  BY <3>1
  <2>2. CASE ask.what = "key"
    <3>1. q = GetRankNodeData(ask.key)
      BY <1>1, <2>2 DEF Answer
    <3>2. CASE ask.key \notin DOMAIN board.map
      <4>1. q = <<[key |-> 0, rank |-> 1]>>
        BY <3>1, <3>2 DEF GetRankNodeData
      <4>2. Shown([key |-> 0, rank |-> 1])
        BY <1>1, <2>2, <3>2
      <4> HIDE DEF Shown
      <4> QED  BY <4>1, <4>2
    <3>3. CASE ask.key \in DOMAIN board.map
      <4>1. PICK p : p = PositionOf(board.list, ask.key)
        OBVIOUS
      <4>2. p \in 1..Len(board.list) /\ board.list[p].key = ask.key
        BY <1>2, <3>3, <4>1, EntriesFacts DEF PositionOf, BoardInv
      <4>3. q = <<[key |-> board.list[p].key, rank |-> p]>>
        BY <3>1, <3>3, <4>1, <4>2 DEF GetRankNodeData
      <4>4. Shown([key |-> board.list[p].key, rank |-> p])
        BY <1>3, <4>2
      <4> HIDE DEF Shown
      <4> QED  BY <4>3, <4>4
    <3> QED  BY <3>2, <3>3
  <2>3. CASE ask.what = "list"
    <3>1. PICK start, last :
            /\ start = (IF ask.pos < 0 \/ ask.pos > ask.count THEN ask.count - 1 ELSE ask.pos)
            /\ last = (IF start + ask.n < Len(board.list) THEN start + ask.n ELSE Len(board.list))
      OBVIOUS
    <3>2. q = [i \in 1..(last - start) |-> [key |-> board.list[start + i].key, rank |-> start + i]]
      BY <1>1, <2>3, <3>1 DEF Answer, GetRankDataFromToLimit
    <3>3. start \in Nat /\ last \in Int /\ last <= Len(board.list)
      BY <1>2, <2>3, <3>1 DEF AskInv
    <3>4. ASSUME NEW i \in 1..(last - start)
          PROVE  start + i \in 1..Len(board.list)
      BY <1>2, <3>3
    <3>5. ASSUME NEW i \in 1..Len(q) PROVE i \in 1..(last - start)
      <4>1. PICK m \in Nat : 1..m = 1..(last - start)
        <5>1. CASE last < start
          <6>1. 1..0 = 1..(last - start)
            BY <3>3, <5>1
          <6> QED  BY <6>1
        <5>2. CASE start <= last
          <6>1. last - start \in Nat
            BY <3>3, <5>2
          <6> QED  BY <6>1
        <5> QED  BY <3>3, <5>1, <5>2
      <4>2. q = [j \in 1..m |-> [key |-> board.list[start + j].key, rank |-> start + j]]
        BY <3>2, <4>1
      <4>3. Len(q) = m
        BY <4>2
      <4> QED  BY <4>1, <4>3
    <3>6. ASSUME NEW i \in 1..Len(q) PROVE Shown(q[i])
      <4>1. i \in 1..(last - start) /\ start + i \in 1..Len(board.list)
        BY <3>4, <3>5
      <4>2. q[i] = [key |-> board.list[start + i].key, rank |-> start + i]
        BY <3>2, <4>1
      <4>3. ask.what # "key"
        BY <2>3
      <4>4. Shown([key |-> board.list[start + i].key, rank |-> start + i])
        BY <1>3, <4>1, <4>3
      <4> HIDE DEF Shown
      <4> QED  BY <4>2, <4>4
    <3> HIDE DEF Shown
    <3> QED  BY <3>6
  <2>4. CASE ask.what = "rank"
    <3>1. q = GetRankNodeDataByRank(ask.pos)
      BY <1>1, <2>4 DEF Answer
    <3>2. CASE ask.pos > Len(board.list)
      <4>1. q = <<>>
        BY <3>1, <3>2 DEF GetRankNodeDataByRank
      <4> QED  BY <4>1
    <3>3. CASE ~(ask.pos > Len(board.list))
      <4>1. q = <<[key |-> board.list[ask.pos].key, rank |-> ask.pos]>>
        BY <3>1, <3>3 DEF GetRankNodeDataByRank
      <4>2. ask.pos \in 1..Len(board.list) /\ ask.what # "key"
        BY <1>2, <2>4, <3>3 DEF AskInv
      <4>3. Shown([key |-> board.list[ask.pos].key, rank |-> ask.pos])
        BY <1>3, <4>2
      <4> HIDE DEF Shown
      <4> QED  BY <4>1, <4>3
    <3> QED  BY <3>2, <3>3
  <2> HIDE DEF Shown
  <2> QED  BY <1>2, <2>1, <2>2, <2>3, <2>4 DEF AskInv
<1>6. UNCHANGED <<now, board, save, db>>
  BY DEF Answer
<1>7. AnswersRight'
  BY <1>1, <1>4, <1>5, <1>6 DEF AnswersRight
<1>8. TaskInv(task') /\ task'.rest = {}
  BY TasksInv DEF Answer
<1>9. RestInv(task'.rest, board, save, db)
  BY <1>8 DEF RestInv
<1> QED  BY <1>6, <1>7, <1>8, <1>9 DEF RankInv

LEMMA RankNextInv == ASSUME RankInv, [RankNext]_rankVars PROVE RankInv'
<1>1. CASE UNCHANGED rankVars
  <2>1. AnswersRight'
    BY <1>1 DEF rankVars, RankInv, AnswersRight
  <2> QED  BY <1>1, <2>1 DEF rankVars, RankInv
<1>2. CASE RankNext
  BY <1>2, RequestsInv, ListQueryInv, PopInv, AnswerInv, SaveBeginsInv, UpsertInv, RemoveInv, QuietInv,
     RestartInv, LoadInv, OtherTasksInv DEF RankNext
<1> QED  BY <1>1, <1>2

\* The list, the map and the heap of a leaderboard agree, the list is sorted, and
\* every answer to a query is right (RankSkip.go, RankDataExpire.go), in the sense
\* and with the exceptions of BoardRight: for every set of keys, the key 0
\* included, every number of places and every limit of the loop that removes what
\* has expired, in both orders, with any key as the id of the rank.
THEOREM BoardsAreRight == RankSpec => []BoardRight
<1>1. RankInv => BoardRight
  <2> SUFFICES ASSUME RankInv PROVE BoardRight
    OBVIOUS
  <2>1. BoardInv(board) /\ AnswersRight
    BY DEF RankInv
  <2>2. Len(board.list) \in Nat
    BY <2>1, LenProperties DEF BoardInv, ListInv
  <2>3. ASSUME NEW i \in 1..(Len(board.list) - 1) PROVE Before(board.list[i], board.list[i + 1])
    <3>1. i \in 1..Len(board.list) /\ i + 1 \in 1..Len(board.list) /\ i < i + 1
      BY <2>2
    <3> QED  BY <2>1, <3>1 DEF BoardInv, ListInv, Sorted
  <2> QED  BY <2>1, <2>3 DEF BoardRight, RankAgrees, BoardInv, ListInv, HeapInv
<1> QED  BY <1>1, RankInitInv, RankNextInv, PTL DEF RankSpec

-----------------------------------------------------------------------------
(* What is saved.                                                          *)

\* What the collection will have of the key k once everything noted is written:
\* its value on the board b, or nothing if it is not on the board.  A key is
\* doomed if the save that writes its last value removes it too.
Doomed(b, clashed, k) == IF k \in DOMAIN b.up THEN k \in b.rem ELSE k \in clashed
KeySaved(b, sv, d, rest, orphans, clashed, k) ==
  /\ k \in DOMAIN b.map =>
       /\ k \in b.rem => k \in DOMAIN b.up
       /\ ~Doomed(b, clashed, k) =>
            /\ k \in sv.rem => k \in DOMAIN b.up
            /\ k \in DOMAIN b.up \cup DOMAIN sv.up \cup DOMAIN d
            /\ b.map[k].sort = IF k \in DOMAIN b.up THEN b.up[k].sort
                               ELSE IF k \in DOMAIN sv.up THEN sv.up[k].sort ELSE d[k].sort
  /\ k \notin DOMAIN b.map =>
       /\ k \in DOMAIN b.up => k \in b.rem
       /\ k \in DOMAIN sv.up \cup DOMAIN d => k \in b.rem \cup sv.rem \cup orphans \cup rest

\* Where the goroutine is when the service stops.
PhaseInv ==
  /\ svc \in {"run", "stop", "done"}
  /\ svc = "run" => save.pc \in {"idle", "saving"}
  /\ svc = "stop" => save.pc \in {"idle", "saving", "last"}
  /\ svc = "done" => save.pc = "ended"
  /\ save.pc \in {"idle", "ended"} => DOMAIN save.up = {} /\ save.rem = {}
  /\ save.pc \in {"last", "ended"} => DOMAIN board.up = {} /\ board.rem = {}
  /\ svc # "run" => task \in {Free, Unset}

BudgetFields == {"ops", "faults", "gaveUp", "orphans", "clashed"}
SavedInv ==
  /\ PhaseInv
  /\ DOMAIN budget = BudgetFields
  /\ ~budget.gaveUp =>
       \A k \in RankKeys : KeySaved(board, save, db, task.rest, budget.orphans, budget.clashed, k)

\* A change of the board by a request or an expiry.
Moves(b, c) ==
  \A j \in RankKeys : SameNote(b, c, j) \/ Left(b, c, j) \/ Noted(b, c, j)

LEMMA MovesSaved ==
  ASSUME NEW b, NEW c, NEW sv, NEW d, NEW orphans, NEW clashed, Moves(b, c), NEW j \in RankKeys,
         KeySaved(b, sv, d, {}, orphans, clashed, j)
  PROVE  KeySaved(c, sv, d, {}, orphans, clashed, j)
<1>1. CASE SameNote(b, c, j)
  BY <1>1 DEF SameNote, KeySaved, Doomed
<1>2. CASE Left(b, c, j)
  BY <1>2 DEF Left, KeySaved, Doomed
<1>3. CASE Noted(b, c, j)
  BY <1>3 DEF Noted, KeySaved, Doomed
<1> QED  BY <1>1, <1>2, <1>3 DEF Moves

LEMMA SavedInit == RankInit => SavedInv
<1> SUFFICES ASSUME RankInit PROVE SavedInv
  OBVIOUS
<1>1. DOMAIN Empty = {}
  BY DEF Empty
<1>2. /\ DOMAIN board.map = {} /\ DOMAIN board.up = {} /\ board.rem = {} /\ svc = "run"
      /\ save.pc = "idle" /\ DOMAIN save.up = {} /\ save.rem = {}
  BY <1>1 DEF RankInit, NewBoard, Idle
<1>3. PICK manual \in BOOLEAN :
        /\ task = Started(manual, DOMAIN db) /\ DOMAIN budget = BudgetFields
        /\ budget.orphans = IF manual THEN DOMAIN db ELSE {}
  BY DEF RankInit, BudgetFields
<1>4. DOMAIN db \subseteq task.rest \cup budget.orphans
  BY <1>3, StartedFacts
<1>5. PhaseInv
  BY <1>2 DEF PhaseInv
<1>6. \A k \in RankKeys : KeySaved(board, save, db, task.rest, budget.orphans, budget.clashed, k)
  BY <1>2, <1>4 DEF KeySaved, Doomed
<1> QED  BY <1>3, <1>5, <1>6 DEF SavedInv

LEMMA RequestSaved ==
  ASSUME RankInv, SavedInv, NEW after, Request(after), after.rest = {}, Moves(board, board')
  PROVE  SavedInv'
<1>1. svc = "run" /\ task = Free /\ task' = after /\ UNCHANGED <<save, db, svc>>
  BY DEF Request
<1>2. task.rest = {} /\ task'.rest = {}
  BY <1>1 DEF Free
<1>3. /\ DOMAIN budget' = BudgetFields
      /\ budget'.gaveUp = budget.gaveUp /\ budget'.orphans = budget.orphans
      /\ budget'.clashed = budget.clashed
  BY DEF Request, SavedInv, BudgetFields
<1>4. PhaseInv'
  BY <1>1 DEF SavedInv, PhaseInv
<1>5. ASSUME ~budget.gaveUp, NEW k \in RankKeys
      PROVE  KeySaved(board', save, db, {}, budget.orphans, budget.clashed, k)
  BY <1>2, <1>5, MovesSaved DEF SavedInv
<1> QED  BY <1>1, <1>2, <1>3, <1>4, <1>5 DEF SavedInv

LEMMA ChangeMoves ==
  ASSUME NEW b, NEW c, NEW k \in RankKeys, NotesChange(b, c, k)
  PROVE  Moves(b, c)
BY DEF NotesChange, Moves

LEMMA NoMoves == ASSUME NEW b PROVE Moves(b, b)
BY DEF Moves, SameNote

LEMMA RequestsSaved ==
  ASSUME RankId \notin RankKeys, RankInv, SavedInv, NEW k \in RankKeys
  PROVE  /\ \A s \in Sorts : \A f : RPC_UpsetRank(k, s, f) => SavedInv'
         /\ \A inc \in {0, 1}, insert \in BOOLEAN, ret \in BOOLEAN :
              RPC_IncreaseRankData(k, inc, insert, ret) => SavedInv'
         /\ RPC_UpdateRankData(k) => SavedInv'
         /\ RPC_DeleteRankDataByKey(k) => SavedInv'
         /\ RPC_FindRankDataByKey(k) => SavedInv'
<1>0. now \in Nat /\ BoardInv(board)
  BY DEF RankInv
<1>1. ASSUME NEW s \in Sorts, NEW f, RPC_UpsetRank(k, s, f) PROVE SavedInv'
  <2>1. NotesChange(board, board', k)
    BY <1>0, <1>1, UpsetFacts DEF RPC_UpsetRank
  <2>3. Moves(board, board')
    BY <2>1, ChangeMoves
  <2> QED  BY <1>1, <2>3, TasksInv, RequestSaved DEF RPC_UpsetRank
<1>2. ASSUME NEW inc \in {0, 1}, NEW insert \in BOOLEAN, NEW ret \in BOOLEAN,
             RPC_IncreaseRankData(k, inc, insert, ret)
      PROVE  SavedInv'
  <2>1. NotesChange(board, board', k)
    <3>1. CASE k \in DOMAIN board.map
      <4>1. board' = ChangeExtendData(board, k, inc) /\ board.map[k].sort + inc \in Sorts
        BY <1>2, <3>1 DEF RPC_IncreaseRankData
      <4> QED  BY <1>0, <3>1, <4>1, RefreshFacts DEF ChangeExtendData
    <3>2. CASE k \notin DOMAIN board.map
      <4>1. PICK s \in Sorts : board' = OnChangeRankData(SetEntry(board, k, s, now), k)
        BY <1>2, <3>2 DEF RPC_IncreaseRankData, InsertDataOnNonExistent
      <4> QED  BY <1>0, <4>1, RefreshFacts
    <3> QED  BY <3>1, <3>2
  <2>3. Moves(board, board')
    BY <2>1, ChangeMoves
  <2> QED  BY <1>2, <2>3, TasksInv, RequestSaved DEF RPC_IncreaseRankData
<1>3. ASSUME RPC_UpdateRankData(k) PROVE SavedInv'
  <2>1. NotesChange(board, board', k) /\ k \in DOMAIN board.map
    BY <1>0, <1>3, RefreshFacts DEF RPC_UpdateRankData
  <2>2. Moves(board, board')
    BY <2>1, ChangeMoves
  <2> QED  BY <1>3, <2>2, TasksInv, RequestSaved DEF RPC_UpdateRankData
<1>4. ASSUME RPC_DeleteRankDataByKey(k) PROVE SavedInv'
  <2>1. Left(board, board', k) /\ \A j \in RankKeys \ {k} : SameNote(board, board', j)
    BY <1>0, <1>4, LeaveFacts DEF RPC_DeleteRankDataByKey
  <2>2. Moves(board, board')
    BY <2>1 DEF Moves
  <2> QED  BY <1>4, <2>2, TasksInv, RequestSaved DEF RPC_DeleteRankDataByKey
<1>5. ASSUME RPC_FindRankDataByKey(k) PROVE SavedInv'
  <2>1. Moves(board, board')
    BY <1>5, NoMoves DEF RPC_FindRankDataByKey
  <2> QED  BY <1>5, <2>1, TasksInv, RequestSaved DEF RPC_FindRankDataByKey
<1> QED  BY <1>1, <1>2, <1>3, <1>4, <1>5

LEMMA ListQuerySaved ==
  ASSUME RankInv, SavedInv
  PROVE  /\ \A startRank \in 0..3 : \A f : RPC_FindRankDataList(startRank, 2, f) => SavedInv'
         /\ \A rank \in 1..2 : RPC_FindRankDataByRank(rank) => SavedInv'
<1>0. \A ask : Picking(ask).rest = {}
  BY DEF Picking
<1>1. ASSUME NEW startRank \in 0..3, NEW f, RPC_FindRankDataList(startRank, 2, f) PROVE SavedInv'
  <2>1. Moves(board, board')
    BY <1>1, NoMoves DEF RPC_FindRankDataList
  <2> QED  BY <1>0, <1>1, <2>1, RequestSaved DEF RPC_FindRankDataList
<1>2. ASSUME NEW rank \in 1..2, RPC_FindRankDataByRank(rank) PROVE SavedInv'
  <2>1. Moves(board, board')
    BY <1>2, NoMoves DEF RPC_FindRankDataByRank
  <2> QED  BY <1>0, <1>2, <2>1, RequestSaved DEF RPC_FindRankDataByRank
<1> QED  BY <1>1, <1>2

LEMMA PopSaved ==
  ASSUME RankId \notin RankKeys, RankInv, SavedInv, NEW k \in RankKeys, PopExpireKey(k)
  PROVE  SavedInv'
<1>1. BoardInv(board) /\ k \in DOMAIN board.map
  BY DEF PopExpireKey, Expired, RankInv, BoardInv, HeapInv
<1>2. ASSUME k = 0 PROVE Moves(board, board')
  <2>1. \A j \in RankKeys : SameNote(board, board', j)
    BY <1>1, <1>2, ZeroFacts DEF PopExpireKey
  <2> QED  BY <2>1 DEF Moves
<1>2a. ASSUME k # 0 PROVE Moves(board, board')
  <2>1. Left(board, board', k) /\ \A j \in RankKeys \ {k} : SameNote(board, board', j)
    BY <1>1, <1>2a, PopFacts DEF PopExpireKey
  <2> QED  BY <2>1 DEF Moves
<1>3. Moves(board, board')
  BY <1>2, <1>2a
<1>4. task.rest = {} /\ task'.rest = {} /\ UNCHANGED <<save, db, svc, budget>>
  BY DEF PopExpireKey, RankInv, TaskInv
<1>5. svc = "run"
  BY DEF PopExpireKey, SavedInv, PhaseInv, Free, Unset
<1>6. PhaseInv'
  BY <1>4, <1>5 DEF SavedInv, PhaseInv
<1>7. ASSUME ~budget.gaveUp, NEW j \in RankKeys
      PROVE  KeySaved(board', save, db, {}, budget.orphans, budget.clashed, j)
  BY <1>3, <1>4, <1>7, MovesSaved DEF SavedInv
<1> QED  BY <1>4, <1>6, <1>7 DEF SavedInv

LEMMA AnswerSaved == ASSUME RankInv, SavedInv, Answer PROVE SavedInv'
<1>1. UNCHANGED <<board, save, db, svc, budget>>
  BY DEF Answer
<1>2. task.rest = {} /\ task'.rest = {}
  BY TasksInv DEF Answer, RankInv, TaskInv
<1>2a. svc = "run"
  BY DEF Answer, SavedInv, PhaseInv, Free, Unset
<1>3. PhaseInv'
  BY <1>1, <1>2a DEF SavedInv, PhaseInv
<1> QED  BY <1>1, <1>2, <1>3 DEF SavedInv

LEMMA SaveBeginsSaved == ASSUME RankInv, SavedInv, SaveBegins PROVE SavedInv'
<1>1. /\ board'.map = board.map /\ DOMAIN board'.up = {} /\ board'.rem = {}
  BY DEF SaveBegins, RankInv, BoardInv, MapInv, Fields, Empty
<1>2. /\ save'.pc = (IF svc = "stop" THEN "last" ELSE "saving")
      /\ save'.up = board.up /\ save'.rem = board.rem /\ UNCHANGED <<db, svc, task>>
  BY DEF SaveBegins
<1>2a. /\ DOMAIN budget' = BudgetFields /\ budget'.gaveUp = budget.gaveUp
       /\ budget'.orphans = budget.orphans
       /\ budget'.clashed = (budget.clashed \ DOMAIN board.up) \cup (DOMAIN board.up \cap board.rem)
  BY DEF SaveBegins, SavedInv, BudgetFields
<1>3. DOMAIN save.up = {} /\ save.rem = {} /\ save.pc = "idle"
  BY DEF SaveBegins, SavedInv, PhaseInv
<1>4. PhaseInv'
  BY <1>1, <1>2, <1>3 DEF SavedInv, PhaseInv
<1>5. ASSUME ~budget.gaveUp, NEW k \in RankKeys
      PROVE  KeySaved(board', save', db, task.rest, budget'.orphans, budget'.clashed, k)
  <2>1. KeySaved(board, save, db, task.rest, budget.orphans, budget.clashed, k)
    BY <1>5 DEF SavedInv
  <2> QED  BY <1>1, <1>2, <1>2a, <1>3, <2>1 DEF KeySaved, Doomed
<1> QED  BY <1>2, <1>2a, <1>4, <1>5 DEF SavedInv

\* A write given up ends the promise.
LEMMA AbandonedFacts ==
  ASSUME SavedInv, WriteAbandoned
  PROVE  DOMAIN budget' = BudgetFields /\ budget'.gaveUp
BY DEF SavedInv, WriteAbandoned, BudgetFields

LEMMA UpsertSaved == ASSUME RankInv, SavedInv, NEW k \in RankKeys, upsertToDB(k) PROVE SavedInv'
<1>1. PICK u : u = Without(save.up, k)
  OBVIOUS
<1>2. DOMAIN u = DOMAIN save.up \ {k} /\ \A j \in DOMAIN u : u[j] = save.up[j]
  BY <1>1, WithoutFacts
<1>3. save'.pc = save.pc /\ save'.up = u /\ save'.rem = save.rem /\ UNCHANGED <<board, svc, task>>
  BY <1>1 DEF upsertToDB, RankInv, SaveInv
<1>4. k \in DOMAIN save.up /\ save.pc # "idle"
  BY DEF upsertToDB
<1>5. PhaseInv'
  BY <1>2, <1>3, <1>4 DEF SavedInv, PhaseInv
<1>6. CASE WriteAbandoned
  BY <1>5, <1>6, AbandonedFacts DEF SavedInv
<1>7. CASE db' = With(db, k, save.up[k]) /\ UNCHANGED budget
  <2>1. DOMAIN db' = DOMAIN db \cup {k} /\ db'[k] = save.up[k] /\ \A j \in DOMAIN db \ {k} : db'[j] = db[j]
    BY <1>7 DEF With
  <2>2. ASSUME ~budget.gaveUp, NEW j \in RankKeys
        PROVE  KeySaved(board, save', db', task.rest, budget.orphans, budget.clashed, j)
    <3>1. KeySaved(board, save, db, task.rest, budget.orphans, budget.clashed, j)
      BY <2>2 DEF SavedInv
    <3>2. CASE j = k
      BY <1>2, <1>3, <1>4, <2>1, <3>1, <3>2 DEF KeySaved, Doomed
    <3>3. CASE j # k
      <4>1. /\ (j \in DOMAIN save'.up) <=> (j \in DOMAIN save.up)
            /\ (j \in DOMAIN db') <=> (j \in DOMAIN db)
        BY <1>2, <1>3, <2>1, <3>3
      <4>2. /\ j \in DOMAIN save.up => save'.up[j] = save.up[j]
            /\ j \in DOMAIN db => db'[j] = db[j]
        BY <1>2, <1>3, <2>1, <3>3
      <4> QED  BY <1>3, <3>1, <4>1, <4>2 DEF KeySaved, Doomed
    <3> QED  BY <3>2, <3>3
  <2> QED  BY <1>3, <1>5, <1>7, <2>2 DEF SavedInv
<1> QED  BY <1>6, <1>7 DEF upsertToDB

LEMMA RemoveSaved == ASSUME RankInv, SavedInv, removeToDB PROVE SavedInv'
<1>1. save'.pc = save.pc /\ save'.up = save.up /\ save'.rem = {} /\ UNCHANGED <<board, svc, task>>
  BY DEF removeToDB, RankInv, SaveInv
<1>2. DOMAIN save.up = {} /\ save.pc # "idle"
  BY DEF removeToDB, UpsertsDone
<1>3. PhaseInv'
  BY <1>1, <1>2 DEF SavedInv, PhaseInv
<1>4. CASE WriteAbandoned
  BY <1>3, <1>4, AbandonedFacts DEF SavedInv
<1>5. CASE db' = Restrict(db, DOMAIN db \ save.rem) /\ UNCHANGED budget
  <2>1. DOMAIN db' = DOMAIN db \ save.rem /\ \A j \in DOMAIN db \ save.rem : db'[j] = db[j]
    BY <1>5 DEF Restrict
  <2>2. ASSUME ~budget.gaveUp, NEW j \in RankKeys
        PROVE  KeySaved(board, save', db', task.rest, budget.orphans, budget.clashed, j)
    <3>1. KeySaved(board, save, db, task.rest, budget.orphans, budget.clashed, j)
      BY <2>2 DEF SavedInv
    <3> QED  BY <1>1, <1>2, <2>1, <3>1 DEF KeySaved, Doomed
  <2> QED  BY <1>1, <1>3, <1>5, <2>2 DEF SavedInv
<1> QED  BY <1>4, <1>5 DEF removeToDB

LEMMA QuietSaved == ASSUME RankInv, SavedInv, SaveEnds \/ OnStop \/ ClockTick PROVE SavedInv'
<1>1. UNCHANGED <<board, db, task, budget>>
  BY DEF SaveEnds, OnStop, ClockTick
<1>2. save'.up = save.up /\ save'.rem = save.rem
  BY DEF RankInv, SaveInv, SaveEnds, OnStop, ClockTick
<1>3. PhaseInv'
  <2>1. CASE SaveEnds
    <3>1. /\ save.pc \notin {"idle", "ended"} /\ DOMAIN save.up = {} /\ save.rem = {}
          /\ svc' = (IF save.pc = "last" THEN "done" ELSE svc)
          /\ save'.pc = (IF save.pc = "last" THEN "ended" ELSE "idle")
      BY <2>1 DEF SaveEnds, RankInv, SaveInv
    <3> QED  BY <1>1, <1>2, <3>1 DEF SavedInv, PhaseInv
  <2>2. CASE OnStop
    BY <1>1, <2>2 DEF OnStop, SavedInv, PhaseInv
  <2>3. CASE ClockTick
    BY <1>1, <2>3 DEF ClockTick, SavedInv, PhaseInv
  <2> QED  BY <2>1, <2>2, <2>3
<1>4. ASSUME ~budget.gaveUp, NEW k \in RankKeys
      PROVE  KeySaved(board, save', db, task.rest, budget.orphans, budget.clashed, k)
  <2>1. KeySaved(board, save, db, task.rest, budget.orphans, budget.clashed, k)
    BY <1>4 DEF SavedInv
  <2> QED  BY <1>2, <2>1 DEF KeySaved, Doomed
<1> QED  BY <1>1, <1>3, <1>4 DEF SavedInv

LEMMA RestartSaved ==
  ASSUME RankInv, SavedInv, NEW manual \in BOOLEAN, Restart(manual)
  PROVE  SavedInv'
<1>1. /\ board' = NewBoard /\ save' = Idle /\ svc' = "run" /\ task' = Started(manual, DOMAIN db) /\ db' = db
      /\ DOMAIN budget' = BudgetFields /\ budget'.orphans = IF manual THEN DOMAIN db ELSE {}
  BY DEF Restart, SavedInv, BudgetFields
<1>2. /\ DOMAIN NewBoard.map = {} /\ DOMAIN NewBoard.up = {} /\ Idle.pc = "idle"
      /\ DOMAIN Idle.up = {} /\ Idle.rem = {}
  BY DEF NewBoard, Idle, Empty
<1>3. PhaseInv'
  BY <1>1, <1>2 DEF PhaseInv
<1>4. DOMAIN db \subseteq task'.rest \cup budget'.orphans
  BY <1>1, StartedFacts
<1>5. \A k \in RankKeys : KeySaved(NewBoard, Idle, db, task'.rest, budget'.orphans, budget'.clashed, k)
  BY <1>2, <1>4 DEF KeySaved, Doomed
<1> QED  BY <1>1, <1>3, <1>5 DEF SavedInv

LEMMA OtherTasksSaved ==
  ASSUME RankInv, SavedInv, RPC_ManualAddRankSkip \/ LoadBreaks
  PROVE  SavedInv'
<1>1. task'.rest = {} /\ svc = "run" /\ UNCHANGED <<board, save, db, svc>>
  BY DEF RPC_ManualAddRankSkip, LoadBreaks, Free, Unset, SavedInv, PhaseInv
<1>2. /\ DOMAIN budget' = BudgetFields /\ budget'.gaveUp = budget.gaveUp
      /\ budget'.clashed = budget.clashed
      /\ task.rest \cup budget.orphans \subseteq budget'.orphans
  <2>1. CASE RPC_ManualAddRankSkip
    BY <2>1 DEF RPC_ManualAddRankSkip, Unset, Free, SavedInv
  <2>2. CASE LoadBreaks
    BY <2>2 DEF LoadBreaks, SavedInv, BudgetFields
  <2> QED  BY <2>1, <2>2
<1>3. PhaseInv'
  BY <1>1 DEF SavedInv, PhaseInv
<1>4. ASSUME ~budget.gaveUp, NEW k \in RankKeys
      PROVE  KeySaved(board, save, db, {}, budget'.orphans, budget'.clashed, k)
  <2>1. KeySaved(board, save, db, task.rest, budget.orphans, budget.clashed, k)
    BY <1>4 DEF SavedInv
  <2> QED  BY <1>2, <2>1 DEF KeySaved, Doomed
<1> QED  BY <1>1, <1>2, <1>3, <1>4 DEF SavedInv

LEMMA LoadSaved ==
  ASSUME RankId \notin RankKeys, RankInv, SavedInv, NEW k \in RankKeys, loadFromDB(k)
  PROVE  SavedInv'
<1>1. k \in task.rest /\ k \in DOMAIN db /\ db[k] \in Record /\ BoardInv(board)
  BY DEF loadFromDB, RankInv, RestInv, DbInv
<1>2. PICK s, ts, c : s = db[k].sort /\ ts = db[k].ts /\ c = board'
  OBVIOUS
<1>3. s \in Sorts /\ ts \in Nat
  BY <1>1, <1>2 DEF Record
<1>4. c = UpsetRank(board, k, s, ts, TRUE)
  BY <1>2 DEF loadFromDB
<1>5. /\ k \notin DOMAIN board.map \cup DOMAIN board.up \cup board.rem
      /\ k \notin DOMAIN save.up \cup save.rem
  BY <1>1 DEF RankInv, RestInv
<1>6. /\ \A j \in RankKeys \ {k} : SameNote(board, c, j) \/ Left(board, c, j)
      /\ k \in DOMAIN c.map => c.map[k].sort = s
      /\ (k \in DOMAIN c.up) <=> (k \in DOMAIN board.up)
      /\ (k \in c.rem) <=> (k \in board.rem)
  <2>1. NotesKept(board, c, k, s)
    BY <1>1, <1>3, <1>4, <1>5, LoadFacts
  <2> QED  BY <2>1 DEF NotesKept
<1>7. task'.rest = task.rest \ {k} /\ UNCHANGED <<save, db, svc>>
  BY LoadingFacts DEF loadFromDB
<1>8. /\ DOMAIN budget' = BudgetFields /\ budget'.gaveUp = budget.gaveUp
      /\ budget'.orphans = IF k \in DOMAIN c.map THEN budget.orphans ELSE budget.orphans \cup {k}
      /\ budget'.clashed = budget.clashed
  BY <1>2 DEF loadFromDB, SavedInv, BudgetFields
<1>9. svc = "run"
  BY DEF loadFromDB, SavedInv, PhaseInv, Free, Unset
<1>10. PhaseInv'
  BY <1>7, <1>9 DEF SavedInv, PhaseInv
<1>11. ASSUME ~budget.gaveUp, NEW j \in RankKeys
       PROVE  KeySaved(c, save, db, task.rest \ {k}, budget'.orphans, budget'.clashed, j)
  <2>1. KeySaved(board, save, db, task.rest, budget.orphans, budget.clashed, j)
    BY <1>11 DEF SavedInv
  <2>2. CASE j = k
    BY <1>1, <1>2, <1>5, <1>6, <1>8, <2>2 DEF KeySaved, Doomed
  <2>3. CASE j # k /\ SameNote(board, c, j)
    BY <1>8, <2>1, <2>3 DEF KeySaved, Doomed, SameNote
  <2>4. CASE j # k /\ Left(board, c, j)
    BY <2>4 DEF KeySaved, Doomed, Left
  <2> QED  BY <1>6, <2>2, <2>3, <2>4
<1> QED  BY <1>2, <1>7, <1>8, <1>10, <1>11 DEF SavedInv

LEMMA SavedNext ==
  ASSUME RankId \notin RankKeys, RankInv, SavedInv, [RankNext]_rankVars
  PROVE  SavedInv'
<1>1. CASE UNCHANGED rankVars
  BY <1>1 DEF rankVars, SavedInv, PhaseInv
<1>2. CASE RankNext
  BY <1>2, RequestsSaved, ListQuerySaved, PopSaved, AnswerSaved, SaveBeginsSaved, UpsertSaved, RemoveSaved,
     QuietSaved, RestartSaved, LoadSaved, OtherTasksSaved DEF RankNext
<1> QED  BY <1>1, <1>2

\* When OnStop returns, the collection holds the board (MongodbPersist.go:248), in
\* the sense of SavedAfterStop, whatever changes, expiries, saves, crashes and
\* loads, complete or not, came before; keys may leave and come back at any time.
\* A key that equals the id of the rank deletes all that is noted of the rank, so
\* none is allowed here.
THEOREM StopSavesTheBoard ==
  ASSUME RankId \notin RankKeys
  PROVE  RankSpec => []SavedAfterStop
<1>1. SavedInv /\ RankInv => SavedAfterStop
  <2> SUFFICES ASSUME SavedInv, RankInv, svc = "done", ~budget.gaveUp
               PROVE  /\ \A k \in DOMAIN board.map \ budget.clashed :
                           k \in DOMAIN db /\ db[k].sort = board.map[k].sort
                      /\ DOMAIN db \subseteq DOMAIN board.map \cup budget.orphans
    BY DEF SavedAfterStop
  <2>1. /\ DOMAIN save.up = {} /\ save.rem = {} /\ DOMAIN board.up = {} /\ board.rem = {}
        /\ task.rest = {}
    BY DEF SavedInv, PhaseInv, Free, Unset
  <2>2. \A k \in RankKeys : KeySaved(board, save, db, task.rest, budget.orphans, budget.clashed, k)
    BY DEF SavedInv
  <2>3. DOMAIN board.map \subseteq RankKeys /\ DOMAIN db \subseteq RankKeys
    BY DEF RankInv, BoardInv, MapInv, DbInv
  <2> QED  BY <2>1, <2>2, <2>3 DEF KeySaved, Doomed
<1> QED  BY <1>1, RankInitInv, RankNextInv, SavedInit, SavedNext, PTL DEF RankSpec
=============================================================================
