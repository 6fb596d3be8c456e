-------------------------- MODULE RpcServerProofs --------------------------
(***************************************************************************)
(* Theorems about the module RpcServer: every RpcRequest object in use has *)
(* one owner, nothing is given back twice, and a request gets at most one  *)
(* answer, with the value of its own method.  They hold for every number   *)
(* of connections, requests and queue places.                              *)
(***************************************************************************)
EXTENDS RpcServer, FiniteSetTheorems, TLAPS

Received == [id : Ids, conn : Callers, wants : BOOLEAN, kind : Kinds, size : Sizes]
Reasons == {"", "unreadable", "full", "dense", "long", "astray", "gone"}
Handles == [obj : Objs, req : Received]
Result == {Value(i) : i \in Ids} \cup {Error}

\* The types of the state; no fault has happened.
TypeInv ==
  /\ wire \in [Conns -> Seq(Received)] /\ open \subseteq Conns
  /\ objs \in [Objs -> [used : BOOLEAN, req : Received \cup {NoRequest}]]
  /\ chanEvent \in Seq(Objs)
  /\ svc \in [pc : {"idle", "method", "given"}, obj : 0..MaxRequests, req : Received \cup {NoRequest}]
  /\ kept \subseteq Handles /\ IsFiniteSet(kept)
  /\ answers \in [Ids -> Seq(Result)] /\ dropped \in [Ids -> Reasons]
  /\ sent \in 0..MaxRequests /\ fault = {}

\* The request with number i is not yet read.
OnWire(i) == \E c \in Conns : \E k \in 1..Len(wire[c]) : wire[c][k].id = i

\* A number is on the wire once.
WireInv ==
  /\ \A c \in Conns : \A k \in 1..Len(wire[c]) : wire[c][k].id <= sent
  /\ \A c, e \in Conns : \A k \in 1..Len(wire[c]), l \in 1..Len(wire[e]) :
       wire[c][k].id = wire[e][l].id => c = e /\ k = l

\* An object in use holds a request that was read, which no other object has.
ObjInv ==
  \A o \in Objs : objs[o].used =>
    /\ objs[o].req \in Received /\ objs[o].req.id <= sent /\ ~OnWire(objs[o].req.id)
    /\ \A q \in Objs : objs[q].used /\ objs[q].req.id = objs[o].req.id => q = o

\* An object in use holds the request with number i.
InObject(i) == \E o \in Objs : objs[o].used /\ objs[o].req.id = i

\* Nothing has happened to the request with number i.
Unsettled(i) == answers[i] = <<>> /\ dropped[i] = ""

\* What is not yet sent, on the wire or in an object has not been answered.
PendInv == \A i \in Ids : i > sent \/ OnWire(i) \/ InObject(i) => Unsettled(i)

OwnAnswers == \A i \in Ids : OwnAnswer(i)

DataInv == WireInv /\ ObjInv /\ PendInv /\ OwnAnswers

\* The queue, the method that runs and the kept responders own different
\* objects, and together all that are in use; each knows its request.
Queued(o) == \E k \in 1..Len(chanEvent) : chanEvent[k] = o
Serving(o) == svc.pc = "method" /\ svc.obj = o
Kept(o) == \E k \in kept : k.obj = o
OwnInv ==
  /\ \A k, l \in 1..Len(chanEvent) : chanEvent[k] = chanEvent[l] => k = l
  /\ \A k, l \in kept : k.obj = l.obj => k = l
  /\ \A o \in Objs : objs[o].used <=> Queued(o) \/ Serving(o) \/ Kept(o)
  /\ \A o \in Objs : ~(Queued(o) /\ Serving(o)) /\ ~(Queued(o) /\ Kept(o)) /\ ~(Serving(o) /\ Kept(o))
  /\ svc.pc = "method" => svc.obj \in Objs /\ objs[svc.obj].req = svc.req
  /\ \A k \in kept : objs[k.obj].req = k.req

IInv == TypeInv /\ DataInv /\ OwnInv
-----------------------------------------------------------------------------
(* Facts about the state.                                                  *)

LEMMA Fact ==
  ASSUME TypeInv
  PROVE  /\ MaxRequests \in Nat /\ sent \in Nat /\ sent <= MaxRequests
         /\ \A i \in Ids : i \in Nat /\ i >= 1 /\ i <= MaxRequests
         /\ \A c \in Conns : wire[c] \in Seq(Received) /\ Len(wire[c]) \in Nat
         /\ \A c \in Conns : \A k \in 1..Len(wire[c]) : wire[c][k] \in Received /\ wire[c][k].id \in Ids
         /\ \A o \in Objs : objs[o].used \in BOOLEAN
         /\ \A r \in Received : r.id \in Ids
<1>1. MaxRequests \in Nat
  BY ServerAssumption
<1>2. sent \in Nat /\ sent <= MaxRequests
  BY <1>1 DEF TypeInv
<1>3. \A i \in Ids : i \in Nat /\ i >= 1 /\ i <= MaxRequests
  BY <1>1 DEF Ids
<1>4. \A r \in Received : r.id \in Ids
  BY DEF Received
<1>5. \A c \in Conns : wire[c] \in Seq(Received)
  BY DEF TypeInv
<1>6. ASSUME NEW c \in Conns
      PROVE  Len(wire[c]) \in Nat /\ \A k \in 1..Len(wire[c]) : wire[c][k] \in Received
  BY <1>5
<1>7. \A o \in Objs : objs[o].used \in BOOLEAN
  BY DEF TypeInv
<1> QED
  BY <1>1, <1>2, <1>3, <1>4, <1>5, <1>6, <1>7

(* Requests that arrive are of the type of the wire.                       *)
LEMMA MadeReceived ==
  ASSUME NEW r \in Offered, NEW i \in Ids
  PROVE  Made(r, i) \in Received /\ Made(r, i).id = i /\ r.conn \in Callers
<1>1. r \in [conn : Callers, wants : BOOLEAN, kind : Kinds, size : Sizes]
  BY ServerAssumption DEF Requests
<1> QED
  BY <1>1 DEF Made, Received

(* Appending a new number to a connection.                                 *)
LEMMA WireAppend ==
  ASSUME TypeInv, WireInv, NEW c \in Conns, NEW m \in Received, m.id = sent + 1,
         sent' = sent + 1, wire' = [wire EXCEPT ![c] = Append(@, m)]
  PROVE  /\ wire' \in [Conns -> Seq(Received)] /\ WireInv'
         /\ \A i : OnWire(i)' => OnWire(i) \/ i = sent + 1
         /\ \A i : OnWire(i) => i <= sent
<1>1. /\ wire[c] \in Seq(Received) /\ Len(wire[c]) \in Nat /\ sent \in Nat
      /\ wire' \in [Conns -> Seq(Received)]
      /\ \A e \in Conns : e # c => wire'[e] = wire[e]
      /\ wire'[c] = Append(wire[c], m)
  BY Fact DEF TypeInv
<1>2. /\ Len(wire'[c]) = Len(wire[c]) + 1
      /\ \A k \in 1..Len(wire[c]) : wire'[c][k] = wire[c][k]
      /\ wire'[c][Len(wire[c]) + 1] = m
  BY <1>1
<1>3. \A e \in Conns : Len(wire[e]) \in Nat /\ \A k \in 1..Len(wire[e]) : wire[e][k].id \in Nat
  BY Fact
<1>4. ASSUME NEW e \in Conns, NEW k \in 1..Len(wire'[e])
      PROVE  \/ k \in 1..Len(wire[e]) /\ wire'[e][k] = wire[e][k] /\ wire[e][k].id <= sent
             \/ e = c /\ k = Len(wire[c]) + 1 /\ wire'[e][k].id = sent + 1
  <2>1. CASE e # c
    BY <2>1, <1>1 DEF WireInv
  <2>2. CASE e = c
    BY <2>2, <1>1, <1>2 DEF WireInv
  <2> QED
    BY <2>1, <2>2
<1>5. \A e \in Conns : \A k \in 1..Len(wire'[e]) : wire'[e][k].id <= sent'
  BY <1>1, <1>3, <1>4
<1>6. ASSUME NEW e \in Conns, NEW f \in Conns, NEW k \in 1..Len(wire'[e]), NEW l \in 1..Len(wire'[f]),
             wire'[e][k].id = wire'[f][l].id
      PROVE  e = f /\ k = l
  <2>1. CASE k \in 1..Len(wire[e]) /\ wire'[e][k] = wire[e][k] /\ wire[e][k].id <= sent
    <3>1. l \in 1..Len(wire[f]) /\ wire'[f][l] = wire[f][l]
      BY <2>1, <1>1, <1>3, <1>4, <1>6
    <3> QED
      BY <2>1, <3>1, <1>6 DEF WireInv
  <2>2. CASE e = c /\ k = Len(wire[c]) + 1 /\ wire'[e][k].id = sent + 1
    BY <2>2, <1>1, <1>3, <1>4, <1>6
  <2> QED
    BY <2>1, <2>2, <1>4
<1>7. WireInv'
  BY <1>5, <1>6 DEF WireInv
<1>8. \A i : OnWire(i)' => OnWire(i) \/ i = sent + 1
  BY <1>4 DEF OnWire
<1>9. \A i : OnWire(i) => i <= sent
  BY DEF OnWire, WireInv
<1> QED
  BY <1>1, <1>7, <1>8, <1>9

(* Reading the first request of a connection.                              *)
LEMMA WireTail ==
  ASSUME TypeInv, WireInv, NEW c \in Conns, wire[c] # <<>>,
         wire' = [wire EXCEPT ![c] = Tail(@)], sent' = sent, NEW r, r = Head(wire[c])
  PROVE  /\ wire' \in [Conns -> Seq(Received)] /\ WireInv'
         /\ r \in Received /\ r.id \in Ids /\ r.id <= sent /\ OnWire(r.id)
         /\ \A i : OnWire(i)' => OnWire(i) /\ i # r.id
<1>1. /\ wire[c] \in Seq(Received) /\ Len(wire[c]) \in Nat /\ sent \in Nat
      /\ wire' \in [Conns -> Seq(Received)]
      /\ \A e \in Conns : e # c => wire'[e] = wire[e]
      /\ wire'[c] = Tail(wire[c])
  BY Fact DEF TypeInv
<1>2. /\ Len(wire'[c]) = Len(wire[c]) - 1 /\ Len(wire[c]) >= 1
      /\ \A k \in 1..Len(wire'[c]) : wire'[c][k] = wire[c][k + 1]
      /\ r = wire[c][1] /\ 1 \in 1..Len(wire[c])
  BY <1>1
<1>3. r \in Received /\ r.id \in Ids /\ r.id <= sent /\ OnWire(r.id)
  BY <1>2, Fact DEF WireInv, OnWire
<1>4. ASSUME NEW e \in Conns, NEW k \in 1..Len(wire'[e])
      PROVE  \E j \in 1..Len(wire[e]) :
               /\ wire'[e][k] = wire[e][j] /\ j = IF e = c THEN k + 1 ELSE k
               /\ wire[e][j].id # r.id
  <2>1. CASE e # c
    <3>1. k \in 1..Len(wire[e]) /\ wire'[e][k] = wire[e][k]
      BY <2>1, <1>1
    <3>2. wire[e][k].id # r.id
      BY <2>1, <3>1, <1>2 DEF WireInv
    <3> QED
      BY <2>1, <3>1, <3>2
  <2>2. CASE e = c
    <3>1. k + 1 \in 1..Len(wire[c]) /\ k + 1 # 1 /\ wire'[c][k] = wire[c][k + 1]
      BY <2>2, <1>1, <1>2
    <3>2. wire[c][k + 1].id # r.id
      BY <3>1, <1>2 DEF WireInv
    <3> QED
      BY <2>2, <3>1, <3>2
  <2> QED
    BY <2>1, <2>2
<1>5. \A e \in Conns : \A k \in 1..Len(wire'[e]) : wire'[e][k].id <= sent'
  BY <1>4 DEF WireInv
<1>6. ASSUME NEW e \in Conns, NEW f \in Conns, NEW k \in 1..Len(wire'[e]), NEW l \in 1..Len(wire'[f]),
             wire'[e][k].id = wire'[f][l].id
      PROVE  e = f /\ k = l
  <2>1. PICK j \in 1..Len(wire[e]) : wire'[e][k] = wire[e][j] /\ j = IF e = c THEN k + 1 ELSE k
    BY <1>4
  <2>2. PICK h \in 1..Len(wire[f]) : wire'[f][l] = wire[f][h] /\ h = IF f = c THEN l + 1 ELSE l
    BY <1>4
  <2>3. e = f /\ j = h
    BY <2>1, <2>2, <1>6 DEF WireInv
  <2>4. k \in Int /\ l \in Int
    BY <1>6
  <2> QED
    BY <2>1, <2>2, <2>3, <2>4
<1>7. WireInv'
  BY <1>5, <1>6 DEF WireInv
<1>8. ASSUME NEW i, OnWire(i)' PROVE OnWire(i) /\ i # r.id
  <2>1. PICK e \in Conns : \E k \in 1..Len(wire'[e]) : wire'[e][k].id = i
    BY <1>8 DEF OnWire
  <2>2. PICK k \in 1..Len(wire'[e]) : wire'[e][k].id = i
    BY <2>1
  <2>3. PICK j \in 1..Len(wire[e]) : wire'[e][k] = wire[e][j] /\ wire[e][j].id # r.id
    BY <1>4
  <2> QED
    BY <2>2, <2>3 DEF OnWire
<1> QED
  BY <1>1, <1>3, <1>7, <1>8

(* A connection is closed with what is on it.                              *)
LEMMA WireClosed ==
  ASSUME TypeInv, WireInv, NEW c \in Conns, wire' = [wire EXCEPT ![c] = <<>>], sent' = sent
  PROVE  /\ wire' \in [Conns -> Seq(Received)] /\ WireInv'
         /\ \A i : OnWire(i)' => OnWire(i) /\ \A k \in 1..Len(wire[c]) : wire[c][k].id # i
<1>1. /\ wire' \in [Conns -> Seq(Received)]
      /\ \A e \in Conns : e # c => wire'[e] = wire[e]
      /\ wire'[c] = <<>> /\ Len(wire'[c]) = 0
  BY DEF TypeInv
<1>2. \A e \in Conns : \A k \in 1..Len(wire'[e]) : e # c /\ k \in 1..Len(wire[e]) /\ wire'[e][k] = wire[e][k]
  BY <1>1
<1>3. WireInv'
  BY <1>2 DEF WireInv
<1>4. \A i : OnWire(i)' => OnWire(i) /\ \A k \in 1..Len(wire[c]) : wire[c][k].id # i
  BY <1>2 DEF OnWire, WireInv
<1> QED
  BY <1>1, <1>3, <1>4
-----------------------------------------------------------------------------
(* Answers.                                                                *)

\* A step settles the request with number i: it writes one answer, or notes
\* why there is none, or neither.
Settles(i) ==
  /\ answers' \in [Ids -> Seq(Result)] /\ dropped' \in [Ids -> Reasons]
  /\ \A j \in Ids : j # i => answers'[j] = answers[j] /\ dropped'[j] = dropped[j]
  /\ \/ answers'[i] = answers[i]
     \/ dropped'[i] = dropped[i] /\ answers'[i] \in {<<Value(i)>>, <<Error>>}

LEMMA WriteSettles ==
  ASSUME TypeInv, NEW r \in Received, Unsettled(r.id), NEW res \in {Value(r.id), Error},
         WriteResponse(r, res)
  PROVE  Settles(r.id)
<1>1. r.id \in Ids /\ res \in Result /\ answers[r.id] = <<>>
  BY Fact DEF Result, Unsettled
<1>2. answers \in [Ids -> Seq(Result)] /\ dropped \in [Ids -> Reasons]
  BY DEF TypeInv
<1>3. Append(<<>>, res) = <<res>> /\ <<res>> \in Seq(Result)
  BY <1>1
<1>4. CASE Why(r, res) = ""
  <2>1. answers' = [answers EXCEPT ![r.id] = <<res>>] /\ dropped' = dropped
    BY <1>4, <1>1, <1>2, <1>3 DEF WriteResponse
  <2> QED
    BY <2>1, <1>1, <1>2, <1>3 DEF Settles
<1>5. CASE Why(r, res) # ""
  <2>1. answers' = answers /\ dropped' = [dropped EXCEPT ![r.id] = Why(r, res)]
    BY <1>5 DEF WriteResponse
  <2>2. Why(r, res) \in Reasons
    <3>1. AgentLoses(r, res) \in {"", "dense", "gone", "long"}
      BY DEF AgentLoses
    <3>2. NatsLoses(r, res) \in {"", "dense", "gone", "long"}
      BY DEF NatsLoses
    <3> QED
      BY <3>1, <3>2 DEF Why, Reasons
  <2> QED
    BY <2>1, <2>2, <1>1, <1>2 DEF Settles
<1> QED
  BY <1>4, <1>5

LEMMA QuietSettles ==
  ASSUME TypeInv, NoResponse
  PROVE  \A i \in Ids : Settles(i)
BY DEF NoResponse, TypeInv, Settles

LEMMA UnansweredSettles ==
  ASSUME TypeInv, NEW r \in Received, NEW why \in Reasons, Unanswered(r, why)
  PROVE  Settles(r.id)
<1>1. r.id \in Ids
  BY Fact
<1> QED
  BY <1>1 DEF Unanswered, TypeInv, Settles

(* When a request is settled it is pending no more, and the other requests *)
(* stay as they were.                                                      *)
LEMMA SettledPend ==
  ASSUME TypeInv, PendInv, NEW i \in Ids, Settles(i), sent' = sent, i <= sent,
         \A j \in Ids : OnWire(j)' => OnWire(j) /\ j # i,
         \A j \in Ids : InObject(j)' => InObject(j) /\ j # i
  PROVE  PendInv'
<1>1. sent \in Nat /\ i \in Nat
  BY Fact
<1>2. \A j \in Ids : j # i /\ Unsettled(j) => Unsettled(j)'
  BY DEF Settles, Unsettled
<1>3. \A j \in Ids : j > sent => j # i
  BY <1>1
<1> QED
  BY <1>2, <1>3 DEF PendInv

LEMMA SettledAnswer ==
  ASSUME TypeInv, OwnAnswers, NEW i \in Ids, Settles(i), sent' = sent, i <= sent, Unsettled(i)
  PROVE  OwnAnswers'
<1> SUFFICES ASSUME NEW j \in Ids
             PROVE  /\ Len(answers'[j]) <= 1
                    /\ answers'[j] # <<>> => j <= sent /\ dropped'[j] = ""
                    /\ answers'[j] # <<>> => answers'[j][1] \in {Value(j), Error}
  BY DEF OwnAnswers, OwnAnswer
<1>1. /\ Len(answers[j]) <= 1 /\ (answers[j] # <<>> => j <= sent /\ dropped[j] = "")
      /\ answers[j] # <<>> => answers[j][1] \in {Value(j), Error}
  BY DEF OwnAnswers, OwnAnswer
<1>2. CASE j # i
  <2>1. answers'[j] = answers[j] /\ dropped'[j] = dropped[j]
    BY <1>2 DEF Settles
  <2> QED
    BY <2>1, <1>1
<1>3. CASE j = i /\ answers'[i] = answers[i]
  <2>1. answers'[j] = <<>> /\ Len(answers'[j]) <= 1
    BY <1>3, <1>1 DEF Unsettled
  <2> QED
    BY <2>1
<1>4. CASE j = i /\ dropped'[i] = dropped[i] /\ answers'[i] \in {<<Value(i)>>, <<Error>>}
  <2>1. dropped'[j] = "" /\ j <= sent
    BY <1>4 DEF Unsettled
  <2>2. PICK res \in {Value(j), Error} : answers'[j] = <<res>>
    BY <1>4
  <2>3. Len(<<res>>) = 1 /\ <<res>>[1] = res
    OBVIOUS
  <2>4. Len(answers'[j]) = 1
    BY <2>2, <2>3, Zenon
  <2>5. answers'[j][1] = res
    BY <2>2, <2>3, Zenon
  <2>6. Len(answers'[j]) <= 1
    BY <2>4
  <2> QED
    BY <2>1, <2>5, <2>6, Zenon
<1> QED
  BY <1>2, <1>3, <1>4 DEF Settles

(* Answering from an object in use, or giving it back without an answer:   *)
(* the object is free again and its request is settled.                    *)
LEMMA FinishObject ==
  ASSUME IInv, NEW o \in Objs, objs[o].used, UNCHANGED <<wire, sent>>,
         NEW res \in {Value(objs[o].req.id), Error}, RequestHandle(Handle(o), res) \/ JustRelease(o)
  PROVE  /\ DataInv' /\ fault' = {}
         /\ answers' \in [Ids -> Seq(Result)] /\ dropped' \in [Ids -> Reasons]
         /\ objs' \in [Objs -> [used : BOOLEAN, req : Received \cup {NoRequest}]]
         /\ ~objs'[o].used /\ \A q \in Objs : q # o => objs'[q] = objs[q]
<1>1. TypeInv /\ DataInv /\ WireInv /\ ObjInv /\ PendInv
  BY DEF IInv, DataInv
<1> PICK r : r = objs[o].req
  OBVIOUS
<1> PICK i : i = r.id
  OBVIOUS
<1>2. r \in Received /\ i \in Ids /\ i <= sent /\ ~OnWire(i) /\ Unsettled(i)
      /\ \A q \in Objs : objs[q].used /\ objs[q].req.id = i => q = o
  <2>1. r \in Received /\ i <= sent /\ ~OnWire(i)
        /\ \A q \in Objs : objs[q].used /\ objs[q].req.id = i => q = o
    BY <1>1 DEF ObjInv
  <2>2. i \in Ids
    BY <1>1, <2>1, Fact
  <2> QED
    BY <1>1, <2>1, <2>2 DEF PendInv, InObject
<1>3. objs' = [objs EXCEPT ![o] = Free] /\ fault' = fault
      /\ (WriteResponse(r, res) \/ NoResponse)
  <2>1. Handle(o).obj = o /\ Handle(o).req = r
    BY DEF Handle
  <2>2. answers[r.id] = <<>>
    BY <1>2 DEF Unsettled
  <2>3. Addressed(Handle(o), res) => WriteResponse(r, res)
    BY <2>1, <2>2 DEF Addressed
  <2>4. CASE RequestHandle(Handle(o), res)
    BY <2>1, <2>3, <2>4 DEF RequestHandle, ReleaseRpcRequest
  <2>5. CASE JustRelease(o)
    BY <2>5 DEF JustRelease, ReleaseRpcRequest
  <2> QED
    BY <2>4, <2>5
<1>4. Settles(i)
  BY <1>1, <1>2, <1>3, WriteSettles, QuietSettles
<1>5. /\ objs' \in [Objs -> [used : BOOLEAN, req : Received \cup {NoRequest}]]
      /\ ~objs'[o].used /\ \A q \in Objs : q # o => objs'[q] = objs[q]
  BY <1>1, <1>3 DEF TypeInv, Free
<1>6. \A q \in Objs : objs'[q].used => q # o /\ objs'[q] = objs[q] /\ objs'[q].req.id # i
  BY <1>2, <1>5
<1>7. \A j : OnWire(j)' <=> OnWire(j)
  BY DEF OnWire
<1>8. WireInv'
  BY <1>1 DEF WireInv
<1>9. ObjInv'
  BY <1>1, <1>6, <1>7 DEF ObjInv
<1>10. PendInv' /\ OwnAnswers'
  <2>1. \A j \in Ids : InObject(j)' => InObject(j) /\ j # i
    BY <1>6 DEF InObject
  <2>2. \A j \in Ids : OnWire(j)' => OnWire(j) /\ j # i
    BY <1>2, <1>7
  <2>3. OwnAnswers
    BY <1>1 DEF DataInv
  <2> QED
    BY <1>1, <1>2, <1>4, <2>1, <2>2, <2>3, SettledPend, SettledAnswer
<1> QED
  BY <1>1, <1>3, <1>4, <1>5, <1>8, <1>9, <1>10 DEF DataInv, Settles, TypeInv
-----------------------------------------------------------------------------
(* The objects and their owners.                                           *)

ObjType == [used : BOOLEAN, req : Received \cup {NoRequest}]

(* The service takes the first object of its queue.                        *)
LEMMA QueueTail ==
  ASSUME TypeInv, OwnInv, chanEvent # <<>>, chanEvent' = Tail(chanEvent),
         NEW o, o = Head(chanEvent)
  PROVE  /\ chanEvent' \in Seq(Objs) /\ o \in Objs /\ Queued(o)
         /\ \A k, l \in 1..Len(chanEvent') : chanEvent'[k] = chanEvent'[l] => k = l
         /\ \A q : Queued(q)' <=> Queued(q) /\ q # o
<1>1. /\ chanEvent \in Seq(Objs) /\ Len(chanEvent) \in Nat /\ chanEvent' \in Seq(Objs)
      /\ Len(chanEvent) >= 1 /\ Len(chanEvent') = Len(chanEvent) - 1
      /\ o = chanEvent[1] /\ 1 \in 1..Len(chanEvent) /\ o \in Objs
      /\ \A k \in 1..Len(chanEvent') : chanEvent'[k] = chanEvent[k + 1]
  BY DEF TypeInv
<1>2. /\ \A k \in 1..Len(chanEvent') : k \in Int /\ k + 1 \in 1..Len(chanEvent) /\ k + 1 # 1
      /\ \A k \in 1..Len(chanEvent) : k # 1 => k - 1 \in 1..Len(chanEvent') /\ (k - 1) + 1 = k
  BY <1>1
<1>3. \A k, l \in 1..Len(chanEvent) : chanEvent[k] = chanEvent[l] => k = l
  BY DEF OwnInv
<1>4. ASSUME NEW k \in 1..Len(chanEvent'), NEW l \in 1..Len(chanEvent'), chanEvent'[k] = chanEvent'[l]
      PROVE  k = l
  <2>1. k + 1 = l + 1
    BY <1>1, <1>2, <1>3, <1>4
  <2> QED
    BY <2>1, <1>2
<1>5. ASSUME NEW q, Queued(q)' PROVE Queued(q) /\ q # o
  <2>1. PICK k \in 1..Len(chanEvent') : chanEvent'[k] = q
    BY <1>5 DEF Queued
  <2>2. q = chanEvent[k + 1] /\ k + 1 \in 1..Len(chanEvent) /\ k + 1 # 1
    BY <2>1, <1>1, <1>2
  <2> QED
    BY <2>2, <1>1, <1>3 DEF Queued
<1>6. ASSUME NEW q, Queued(q), q # o PROVE Queued(q)'
  <2>1. PICK k \in 1..Len(chanEvent) : chanEvent[k] = q
    BY <1>6 DEF Queued
  <2>2. k # 1
    BY <2>1, <1>1, <1>6
  <2>3. k - 1 \in 1..Len(chanEvent') /\ chanEvent'[k - 1] = q
    BY <2>1, <2>2, <1>1, <1>2
  <2> QED
    BY <2>3 DEF Queued
<1>7. Queued(o)
  BY <1>1 DEF Queued
<1> QED
  BY <1>1, <1>4, <1>5, <1>6, <1>7

(* An object is put at the end of the queue.                               *)
LEMMA QueueAppend ==
  ASSUME TypeInv, OwnInv, NEW o \in Objs, ~Queued(o), chanEvent' = Append(chanEvent, o)
  PROVE  /\ chanEvent' \in Seq(Objs)
         /\ \A k, l \in 1..Len(chanEvent') : chanEvent'[k] = chanEvent'[l] => k = l
         /\ \A q : Queued(q)' <=> Queued(q) \/ q = o
<1>1. /\ chanEvent \in Seq(Objs) /\ Len(chanEvent) \in Nat /\ chanEvent' \in Seq(Objs)
      /\ Len(chanEvent') = Len(chanEvent) + 1
      /\ \A k \in 1..Len(chanEvent) : chanEvent'[k] = chanEvent[k]
      /\ chanEvent'[Len(chanEvent) + 1] = o
  BY DEF TypeInv
<1>2. \A k \in 1..Len(chanEvent') : k \in 1..Len(chanEvent) \/ k = Len(chanEvent) + 1
  BY <1>1
<1>3. /\ \A k \in 1..Len(chanEvent) : k \in 1..Len(chanEvent') /\ chanEvent[k] # o
      /\ Len(chanEvent) + 1 \in 1..Len(chanEvent')
  BY <1>1 DEF Queued
<1>4. \A k, l \in 1..Len(chanEvent) : chanEvent[k] = chanEvent[l] => k = l
  BY DEF OwnInv
<1>5. \A k, l \in 1..Len(chanEvent') : chanEvent'[k] = chanEvent'[l] => k = l
  BY <1>1, <1>2, <1>3, <1>4
<1>6. \A q : Queued(q)' <=> Queued(q) \/ q = o
  BY <1>1, <1>2, <1>3 DEF Queued
<1> QED
  BY <1>1, <1>5, <1>6

(* There is a free object while a request waits to be read: the requests   *)
(* in the objects are different, and this one is not among them.           *)
LEMMA FreeObject ==
  ASSUME TypeInv, ObjInv, NEW i \in Ids, OnWire(i)
  PROVE  \E o \in Objs : ~objs[o].used
<1> SUFFICES ASSUME \A o \in Objs : objs[o].used PROVE FALSE
  OBVIOUS
<1> DEFINE f == [o \in Objs |-> objs[o].req.id]
           T == Ids \ {i}
<1>1. /\ \A o \in Objs : objs[o].req.id \in Ids /\ objs[o].req.id # i
      /\ \A o, q \in Objs : objs[o].req.id = objs[q].req.id => o = q
  <2>1. \A o \in Objs : objs[o].req \in Received /\ ~OnWire(objs[o].req.id)
    BY DEF ObjInv
  <2>2. \A o, q \in Objs : objs[o].req.id = objs[q].req.id => o = q
    BY DEF ObjInv
  <2>3. \A r \in Received : r.id \in Ids
    BY Fact
  <2> QED
    BY <2>1, <2>2, <2>3
<1>2. f \in Injection(Objs, T)
  BY <1>1 DEF Injection, IsInjective
<1>3. IsFiniteSet(Ids) /\ Cardinality(Ids) \in Nat
  BY Fact, FS_Interval, FS_CardinalityType DEF Ids
<1>4. IsFiniteSet(T) /\ Cardinality(T) = Cardinality(Ids) - 1
  BY <1>3, FS_RemoveElement
<1>5. Cardinality(Objs) <= Cardinality(T)
  <2> HIDE DEF f, T
  <2> QED
    BY <1>2, <1>4, FS_Injection
<1> QED
  BY <1>3, <1>4, <1>5 DEF Objs
-----------------------------------------------------------------------------
(* Reading requests.                                                       *)

LEMMA SameOwners ==
  ASSUME OwnInv, UNCHANGED <<objs, chanEvent, svc, kept>>
  PROVE  OwnInv'
<1>1. \A o : (Queued(o)' <=> Queued(o)) /\ (Serving(o)' <=> Serving(o)) /\ (Kept(o)' <=> Kept(o))
  BY DEF Queued, Serving, Kept
<1> QED
  BY <1>1 DEF OwnInv

LEMMA SendStep ==
  ASSUME IInv, NEW r \in Offered, Send(r)
  PROVE  IInv'
<1>1. /\ sent < MaxRequests /\ r.conn \in open
      /\ sent' = sent + 1 /\ wire' = [wire EXCEPT ![r.conn] = Append(@, Made(r, sent + 1))]
      /\ UNCHANGED <<open, ending, objs, chanEvent, svc, kept, answers, dropped, fault>>
  BY DEF Send
<1>2. TypeInv /\ WireInv /\ ObjInv /\ PendInv /\ OwnAnswers /\ OwnInv
  BY DEF IInv, DataInv
<1>3. sent \in Nat /\ MaxRequests \in Nat /\ sent + 1 \in Ids /\ r.conn \in Conns
  <2>1. sent \in Nat /\ MaxRequests \in Nat
    BY <1>2, Fact
  <2> QED
    BY <2>1, <1>1, <1>2 DEF TypeInv, Ids
<1> PICK m : m = Made(r, sent + 1)
  OBVIOUS
<1>4. m \in Received /\ m.id = sent + 1
  BY <1>3, MadeReceived
<1>5. /\ wire' \in [Conns -> Seq(Received)] /\ WireInv'
      /\ \A i : OnWire(i)' => OnWire(i) \/ i = sent + 1
      /\ \A i : OnWire(i) => i <= sent
  BY <1>1, <1>2, <1>3, <1>4, WireAppend
<1>6. TypeInv'
  BY <1>1, <1>2, <1>3, <1>5 DEF TypeInv
<1>7. ObjInv'
  <2> SUFFICES ASSUME NEW o \in Objs, objs[o].used
               PROVE  /\ objs[o].req \in Received /\ objs[o].req.id <= sent + 1
                      /\ ~OnWire(objs[o].req.id)'
                      /\ \A q \in Objs : objs[q].used /\ objs[q].req.id = objs[o].req.id => q = o
    BY <1>1 DEF ObjInv
  <2> PICK n : n = objs[o].req.id
    OBVIOUS
  <2>1. /\ objs[o].req \in Received /\ n <= sent /\ ~OnWire(n)
        /\ \A q \in Objs : objs[q].used /\ objs[q].req.id = n => q = o
    BY <1>2 DEF ObjInv
  <2>2. n \in Nat
    BY <1>2, <2>1, Fact
  <2>3. n <= sent + 1 /\ n # sent + 1
    BY <2>1, <2>2, <1>3
  <2>4. ~OnWire(n)'
    BY <2>1, <2>3, <1>5
  <2>5. objs' = objs
    BY <1>1
  <2> QED
    BY <2>1, <2>3, <2>4, <2>5 DEF OnWire
<1>8. PendInv'
  <2>1. \A i \in Ids : i > sent + 1 => i > sent
    BY <1>2, <1>3, Fact
  <2>2. sent + 1 > sent
    BY <1>3
  <2>3. \A i : (InObject(i)' <=> InObject(i)) /\ (Unsettled(i)' <=> Unsettled(i))
    BY <1>1 DEF InObject, Unsettled
  <2> QED
    BY <1>1, <1>2, <1>5, <2>1, <2>2, <2>3 DEF PendInv
<1>9. OwnAnswers'
  <2>1. \A i \in Ids : i <= sent => i <= sent'
    BY <1>1, <1>2, <1>3, Fact
  <2> QED
    BY <1>1, <1>2, <2>1 DEF OwnAnswers, OwnAnswer
<1>10. OwnInv'
  BY <1>1, <1>2, SameOwners
<1> QED
  BY <1>5, <1>6, <1>7, <1>8, <1>9, <1>10 DEF IInv, DataInv

(* A request is read and settled without an object.                        *)
LEMMA ReadSettled ==
  ASSUME IInv, NEW c \in Conns, wire[c] # <<>>, wire' = [wire EXCEPT ![c] = Tail(@)],
         NEW r, r = Head(wire[c]),
         UNCHANGED <<open, objs, chanEvent, svc, kept, sent, fault>>, Settles(r.id)
  PROVE  IInv'
<1>1. TypeInv /\ WireInv /\ ObjInv /\ PendInv /\ OwnAnswers /\ OwnInv
  BY DEF IInv, DataInv
<1>2. /\ wire' \in [Conns -> Seq(Received)] /\ WireInv'
      /\ r \in Received /\ r.id \in Ids /\ r.id <= sent /\ OnWire(r.id)
      /\ \A i : OnWire(i)' => OnWire(i) /\ i # r.id
  BY <1>1, WireTail
<1>3. Unsettled(r.id)
  BY <1>1, <1>2 DEF PendInv
<1>4. TypeInv'
  BY <1>1, <1>2 DEF TypeInv, Settles
<1>5. ObjInv'
  <2> SUFFICES ASSUME NEW o \in Objs, objs[o].used PROVE ~OnWire(objs[o].req.id)'
    BY <1>1 DEF ObjInv
  <2> PICK n : n = objs[o].req.id
    OBVIOUS
  <2>1. ~OnWire(n)'
    BY <1>1, <1>2 DEF ObjInv
  <2> QED
    BY <2>1 DEF OnWire
<1>6. \A j \in Ids : InObject(j)' => InObject(j) /\ j # r.id
  BY <1>1, <1>2 DEF InObject, ObjInv
<1>7. PendInv' /\ OwnAnswers'
  BY <1>1, <1>2, <1>3, <1>6, SettledPend, SettledAnswer
<1>8. OwnInv'
  BY <1>1, SameOwners
<1> QED
  BY <1>2, <1>4, <1>5, <1>7, <1>8 DEF IInv, DataInv

(* A request is read and put into the queue with a free object.            *)
LEMMA ReadQueued ==
  ASSUME IInv, NEW c \in Conns, wire[c] # <<>>, wire' = [wire EXCEPT ![c] = Tail(@)],
         NEW r, r = Head(wire[c]), NEW o \in Objs, ~objs[o].used,
         objs' = [objs EXCEPT ![o] = InUse(r)],
         chanEvent' = Append(chanEvent, o),
         UNCHANGED <<open, svc, kept, sent, fault, answers, dropped>>
  PROVE  IInv'
<1>1. TypeInv /\ WireInv /\ ObjInv /\ PendInv /\ OwnAnswers /\ OwnInv
  BY DEF IInv, DataInv
<1>2. /\ wire' \in [Conns -> Seq(Received)] /\ WireInv'
      /\ r \in Received /\ r.id \in Ids /\ r.id <= sent /\ OnWire(r.id)
      /\ \A i : OnWire(i)' => OnWire(i) /\ i # r.id
  BY <1>1, WireTail
<1>3. /\ objs' \in [Objs -> ObjType] /\ objs'[o].used /\ objs'[o].req = r
      /\ \A q \in Objs : q # o => objs'[q] = objs[q]
  <2>1. r.wants \in BOOLEAN
    BY <1>2 DEF Received
  <2> DEFINE n == InUse(r)
  <2>2. n \in ObjType /\ n.used = TRUE /\ n.req = r
    BY <2>1, <1>2 DEF ObjType, InUse
  <2>3. objs \in [Objs -> ObjType]
    BY <1>1 DEF TypeInv, ObjType
  <2> HIDE DEF n
  <2>4. objs' = [objs EXCEPT ![o] = n]
    BY DEF n
  <2> QED
    BY <2>2, <2>3, <2>4
<1>4. ~Queued(o) /\ ~Serving(o) /\ ~Kept(o)
  BY <1>1 DEF OwnInv
<1>5. /\ chanEvent' \in Seq(Objs)
      /\ \A k, l \in 1..Len(chanEvent') : chanEvent'[k] = chanEvent'[l] => k = l
      /\ \A q : Queued(q)' <=> Queued(q) \/ q = o
  BY <1>1, <1>4, QueueAppend
<1>6. TypeInv'
  BY <1>1, <1>2, <1>3, <1>5 DEF TypeInv, ObjType
<1>7. \A q \in Objs : objs[q].used => q # o /\ objs[q].req.id # r.id
  BY <1>1, <1>2 DEF ObjInv
<1>8. ObjInv'
  <2> SUFFICES ASSUME NEW q \in Objs, objs'[q].used
               PROVE  /\ objs'[q].req \in Received /\ objs'[q].req.id <= sent
                      /\ ~OnWire(objs[q].req.id)'
                      /\ \A p \in Objs : objs'[p].used /\ objs'[p].req.id = objs'[q].req.id => p = q
    BY DEF ObjInv
  <2> PICK n : n = objs'[q].req.id
    OBVIOUS
  <2>1. CASE q = o
    <3>1. ~OnWire(n)' /\ n = r.id
      BY <2>1, <1>2, <1>3
    <3>2. \A p \in Objs : objs'[p].used /\ objs'[p].req.id = n => p = q
      BY <2>1, <3>1, <1>3, <1>7
    <3>3. ~OnWire(objs[q].req.id)'
      BY <3>1 DEF OnWire
    <3>4. objs'[q].req \in Received /\ objs'[q].req.id <= sent
      BY <2>1, <1>2, <1>3
    <3> QED
      BY <3>2, <3>3, <3>4
  <2>2. CASE q # o
    <3>1. objs'[q] = objs[q] /\ objs[q].used /\ n # r.id
      BY <2>2, <1>3, <1>7
    <3>2. ~OnWire(n)'
      BY <3>1, <1>1, <1>2 DEF ObjInv
    <3>3. \A p \in Objs : objs'[p].used /\ objs'[p].req.id = n => p = q
      BY <3>1, <1>1, <1>3 DEF ObjInv
    <3> QED
      BY <3>1, <3>2, <3>3, <1>1 DEF ObjInv, OnWire
  <2> QED
    BY <2>1, <2>2
<1>9. PendInv'
  <2>1. \A i : InObject(i)' => InObject(i) \/ i = r.id
    BY <1>3 DEF InObject
  <2>2. \A i : Unsettled(i)' <=> Unsettled(i)
    BY DEF Unsettled
  <2> QED
    BY <1>1, <1>2, <2>1, <2>2 DEF PendInv
<1>10. OwnAnswers'
  BY <1>1 DEF OwnAnswers, OwnAnswer
<1>11. OwnInv'
  <2>1. \A q : (Serving(q)' <=> Serving(q)) /\ (Kept(q)' <=> Kept(q))
    BY DEF Serving, Kept
  <2>2. svc.pc = "method" => svc.obj # o /\ svc.obj \in Objs /\ objs[svc.obj].req = svc.req
    BY <1>1, <1>4 DEF OwnInv, Serving
  <2>3. \A k \in kept : k.obj # o /\ k.obj \in Objs /\ objs[k.obj].req = k.req
    BY <1>1, <1>4 DEF OwnInv, Kept, TypeInv, Handles
  <2>4. \A q \in Objs : objs'[q].used <=> Queued(q)' \/ Serving(q)' \/ Kept(q)'
    BY <1>1, <1>3, <1>5, <2>1 DEF OwnInv
  <2>5. \A q \in Objs : ~(Queued(q)' /\ Serving(q)') /\ ~(Queued(q)' /\ Kept(q)') /\ ~(Serving(q)' /\ Kept(q)')
    BY <1>1, <1>4, <1>5, <2>1 DEF OwnInv
  <2>6. /\ svc'.pc = "method" => svc'.obj \in Objs /\ objs'[svc'.obj].req = svc'.req
        /\ \A k \in kept' : objs'[k.obj].req = k.req
    BY <2>2, <2>3, <1>3
  <2>7. \A k, l \in kept' : k.obj = l.obj => k = l
    BY <1>1 DEF OwnInv
  <2> QED
    BY <1>5, <2>4, <2>5, <2>6, <2>7 DEF OwnInv
<1> QED
  BY <1>2, <1>6, <1>8, <1>9, <1>10, <1>11 DEF IInv, DataInv

LEMMA ReadStep ==
  ASSUME IInv, NEW c \in Conns, processRpcRequest(c)
  PROVE  IInv'
<1> PICK r : r = Head(wire[c])
  OBVIOUS
<1>1. /\ wire[c] # <<>> /\ wire' = [wire EXCEPT ![c] = Tail(@)]
      /\ Undecodable(r) \/ Unserved(r) \/ PushRpcRequest(r)
      /\ UNCHANGED <<open, svc, kept, sent, fault>>
  BY DEF processRpcRequest
<1>2. TypeInv /\ WireInv /\ ObjInv /\ PendInv
  BY DEF IInv, DataInv
<1>3. r \in Received /\ r.id \in Ids /\ OnWire(r.id) /\ Unsettled(r.id)
  <2>1. r \in Received /\ r.id \in Ids /\ OnWire(r.id)
    BY <1>1, <1>2, WireTail
  <2> QED
    BY <2>1, <1>2 DEF PendInv
<1>4. RefusedAnswer(r) => Settles(r.id)
  BY <1>2, <1>3, WriteSettles, QuietSettles DEF RefusedAnswer
<1>5. \A why \in Reasons : Unanswered(r, why) => Settles(r.id)
  BY <1>2, <1>3, UnansweredSettles
<1>6. "unreadable" \in Reasons /\ "full" \in Reasons
  BY DEF Reasons
<1>7. CASE Undecodable(r)
  <2>1. Settles(r.id) /\ UNCHANGED <<objs, chanEvent>>
    BY <1>4, <1>5, <1>6, <1>7 DEF Undecodable
  <2> QED
    BY <1>1, <2>1, ReadSettled
<1>8. CASE Unserved(r)
  <2>1. Settles(r.id) /\ UNCHANGED <<objs, chanEvent>>
    BY <1>4, <1>8 DEF Unserved
  <2> QED
    BY <1>1, <2>1, ReadSettled
<1>9. CASE PushRpcRequest(r)
  <2> DEFINE o == CHOOSE x \in Objs : ~objs[x].used
  <2>1. o \in Objs /\ ~objs[o].used
    BY <1>2, <1>3, FreeObject
  <2>2. CASE Len(chanEvent) >= ChanLen
    <3>1. PushRefused(r) /\ UNCHANGED <<objs, chanEvent>>
      BY <1>9, <2>2 DEF PushRpcRequest, GivenBackWhenFull
    <3>2. Settles(r.id)
      BY <1>2, <1>3, <1>5, <1>6, <3>1, WriteSettles, QuietSettles DEF PushRefused
    <3> QED
      BY <1>1, <3>1, <3>2, ReadSettled
  <2>3. CASE ~(Len(chanEvent) >= ChanLen)
    <3>1. /\ objs' = [objs EXCEPT ![o] = InUse(r)]
          /\ chanEvent' = Append(chanEvent, o) /\ UNCHANGED <<answers, dropped>>
      BY <1>9, <2>3 DEF PushRpcRequest, NoResponse
    <3> HIDE DEF o
    <3> QED
      BY <1>1, <2>1, <3>1, ReadQueued
  <2> QED
    BY <2>2, <2>3
<1> QED
  BY <1>1, <1>7, <1>8, <1>9

LEMMA CloseStep ==
  ASSUME IInv, NEW c \in Conns, Closed(c)
  PROVE  IInv'
<1>1. /\ open' = open \ {c} /\ wire' = [wire EXCEPT ![c] = <<>>]
      /\ dropped' = [i \in Ids |-> IF i \in {wire[c][k].id : k \in DOMAIN wire[c]} THEN "gone" ELSE dropped[i]]
      /\ UNCHANGED <<objs, chanEvent, svc, kept, answers, sent, fault>>
  BY DEF Closed
<1>2. TypeInv /\ WireInv /\ ObjInv /\ PendInv /\ OwnAnswers /\ OwnInv
  BY DEF IInv, DataInv
<1>3. /\ wire' \in [Conns -> Seq(Received)] /\ WireInv'
      /\ \A i : OnWire(i)' => OnWire(i) /\ \A k \in 1..Len(wire[c]) : wire[c][k].id # i
  BY <1>1, <1>2, WireClosed
<1>4. DOMAIN wire[c] = 1..Len(wire[c])
  BY <1>2, Fact
<1>5. /\ dropped' \in [Ids -> Reasons]
      /\ \A i \in Ids : dropped'[i] = dropped[i] \/ \E k \in 1..Len(wire[c]) : wire[c][k].id = i
  <2>1. "gone" \in Reasons /\ dropped \in [Ids -> Reasons]
    BY <1>2 DEF Reasons, TypeInv
  <2> QED
    BY <2>1, <1>1, <1>4
<1>6. TypeInv'
  BY <1>1, <1>2, <1>3, <1>5 DEF TypeInv
<1>7. ObjInv'
  <2> SUFFICES ASSUME NEW o \in Objs, objs[o].used PROVE ~OnWire(objs[o].req.id)'
    BY <1>1, <1>2 DEF ObjInv
  <2> PICK n : n = objs[o].req.id
    OBVIOUS
  <2>1. ~OnWire(n)'
    BY <1>2, <1>3 DEF ObjInv
  <2>2. objs' = objs
    BY <1>1
  <2> QED
    BY <2>1, <2>2 DEF OnWire
<1>8. ASSUME NEW i \in Ids, \E k \in 1..Len(wire[c]) : wire[c][k].id = i
      PROVE  OnWire(i) /\ Unsettled(i) /\ ~OnWire(i)' /\ ~InObject(i) /\ i <= sent
  <2>1. OnWire(i) /\ i <= sent
    BY <1>2, <1>8 DEF OnWire, WireInv
  <2>2. ~InObject(i)
    BY <2>1, <1>2 DEF InObject, ObjInv
  <2> QED
    BY <2>1, <2>2, <1>2, <1>3, <1>8 DEF PendInv
<1>9. PendInv'
  <2> SUFFICES ASSUME NEW i \in Ids, i > sent \/ OnWire(i)' \/ InObject(i)'
               PROVE  Unsettled(i)'
    BY <1>1 DEF PendInv
  <2>1. InObject(i)' => InObject(i)
    BY <1>1 DEF InObject
  <2>2. ~\E k \in 1..Len(wire[c]) : wire[c][k].id = i
    <3>1. CASE i > sent
      <4>1. sent \in Nat /\ i \in Nat
        BY <1>2, Fact
      <4> QED
        BY <3>1, <4>1, <1>8
    <3> QED
      BY <3>1, <2>1, <1>8
  <2>3. Unsettled(i)
    BY <1>2, <1>3, <2>1 DEF PendInv
  <2> QED
    BY <2>2, <2>3, <1>1, <1>5 DEF Unsettled
<1>10. OwnAnswers'
  <2>1. \A i \in Ids : answers[i] # <<>> => dropped'[i] = dropped[i]
    BY <1>5, <1>8 DEF Unsettled
  <2> QED
    BY <1>1, <1>2, <2>1 DEF OwnAnswers, OwnAnswer
<1>11. OwnInv'
  BY <1>1, <1>2, SameOwners
<1> QED
  BY <1>3, <1>6, <1>7, <1>9, <1>10, <1>11 DEF IInv, DataInv
-----------------------------------------------------------------------------
(* Serving requests.                                                       *)

SvcType == [pc : {"idle", "method", "given"}, obj : 0..MaxRequests, req : Received \cup {NoRequest}]

(* An owner answers for its object or gives it back, and does not own it   *)
(* any more; the other objects keep their owners.                          *)
LEMMA FinishStep ==
  ASSUME IInv, NEW o \in Objs, objs[o].used,
         NEW res \in {Value(objs[o].req.id), Error}, RequestHandle(Handle(o), res) \/ JustRelease(o),
         UNCHANGED <<wire, open, sent>>,
         chanEvent' \in Seq(Objs),
         \A k, l \in 1..Len(chanEvent') : chanEvent'[k] = chanEvent'[l] => k = l,
         svc' \in SvcType, svc'.pc = "method" => svc' = svc, kept' \subseteq kept,
         \A q \in Objs : Queued(q)' <=> Queued(q) /\ q # o,
         \A q \in Objs : Serving(q)' <=> Serving(q) /\ q # o,
         \A q \in Objs : Kept(q)' <=> Kept(q) /\ q # o
  PROVE  IInv'
<1>1. TypeInv /\ OwnInv
  BY DEF IInv
<1>2. /\ DataInv' /\ fault' = {}
      /\ answers' \in [Ids -> Seq(Result)] /\ dropped' \in [Ids -> Reasons]
      /\ objs' \in [Objs -> [used : BOOLEAN, req : Received \cup {NoRequest}]]
      /\ ~objs'[o].used /\ \A q \in Objs : q # o => objs'[q] = objs[q]
  BY FinishObject
<1>3. kept' \subseteq Handles /\ IsFiniteSet(kept')
  BY <1>1, FS_Subset DEF TypeInv
<1>4. TypeInv'
  BY <1>1, <1>2, <1>3 DEF TypeInv, SvcType
<1>5. \A q \in Objs : objs'[q].used <=> Queued(q)' \/ Serving(q)' \/ Kept(q)'
  <2> SUFFICES ASSUME NEW q \in Objs PROVE objs'[q].used <=> Queued(q)' \/ Serving(q)' \/ Kept(q)'
    OBVIOUS
  <2>1. CASE q = o
    BY <2>1, <1>2
  <2>2. CASE q # o
    BY <2>2, <1>1, <1>2 DEF OwnInv
  <2> QED
    BY <2>1, <2>2
<1>6. \A q \in Objs : ~(Queued(q)' /\ Serving(q)') /\ ~(Queued(q)' /\ Kept(q)') /\ ~(Serving(q)' /\ Kept(q)')
  BY <1>1 DEF OwnInv
<1>7. svc'.pc = "method" => svc'.obj \in Objs /\ objs'[svc'.obj].req = svc'.req
  <2> SUFFICES ASSUME svc'.pc = "method"
               PROVE  svc'.obj \in Objs /\ objs'[svc'.obj].req = svc'.req
    OBVIOUS
  <2>1. svc' = svc /\ svc.obj \in Objs /\ objs[svc.obj].req = svc.req
    BY <1>1 DEF OwnInv
  <2>2. svc.obj # o
    <3> PICK q \in Objs : q = svc.obj
      BY <2>1
    <3>1. Serving(q)'
      BY <2>1 DEF Serving
    <3> QED
      BY <3>1
  <2> QED
    BY <2>1, <2>2, <1>2
<1>8. \A k \in kept' : objs'[k.obj].req = k.req
  <2> SUFFICES ASSUME NEW k \in kept' PROVE objs'[k.obj].req = k.req
    OBVIOUS
  <2>1. k \in kept /\ k.obj \in Objs
    BY <1>3 DEF Handles
  <2>2. Kept(k.obj)'
    BY DEF Kept
  <2> PICK q \in Objs : q = k.obj
    BY <2>1
  <2>3. Kept(q)'
    BY DEF Kept
  <2>4. q # o
    BY <2>3
  <2> QED
    BY <2>1, <2>4, <1>1, <1>2 DEF OwnInv
<1>9. \A k, l \in kept' : k.obj = l.obj => k = l
  BY <1>1 DEF OwnInv
<1>10. OwnInv'
  BY <1>5, <1>6, <1>7, <1>8, <1>9 DEF OwnInv
<1> QED
  BY <1>2, <1>4, <1>10 DEF IInv

(* Steps that only move an object from one owner to another.               *)
LEMMA SameData ==
  ASSUME DataInv, UNCHANGED <<wire, objs, answers, dropped, sent>>
  PROVE  DataInv'
<1>1. \A i : (OnWire(i)' <=> OnWire(i)) /\ (InObject(i)' <=> InObject(i)) /\ (Unsettled(i)' <=> Unsettled(i))
  BY DEF OnWire, InObject, Unsettled
<1>2. WireInv'
  BY DEF WireInv, DataInv
<1>3. ObjInv'
  BY DEF ObjInv, DataInv, OnWire
<1>4. PendInv'
  BY <1>1 DEF PendInv, DataInv
<1>5. OwnAnswers'
  BY DEF OwnAnswers, OwnAnswer, DataInv
<1> QED
  BY <1>2, <1>3, <1>4, <1>5 DEF DataInv

(* What the service has in a method is in use, with the number it noted.   *)
LEMMA ServedObject ==
  ASSUME IInv, svc.pc = "method"
  PROVE  /\ svc.obj \in Objs /\ objs[svc.obj].used /\ objs[svc.obj].req = svc.req
         /\ svc.req \in Received
         /\ ~Queued(svc.obj) /\ Serving(svc.obj) /\ ~Kept(svc.obj)
<1>1. OwnInv /\ TypeInv /\ ObjInv
  BY DEF IInv, DataInv
<1>2. svc.obj \in Objs /\ objs[svc.obj].req = svc.req /\ Serving(svc.obj)
  BY <1>1 DEF OwnInv, Serving
<1>3. objs[svc.obj].used /\ ~Queued(svc.obj) /\ ~Kept(svc.obj)
  BY <1>1, <1>2 DEF OwnInv
<1>4. svc.req \in Received
  BY <1>1, <1>2, <1>3 DEF ObjInv
<1> QED
  BY <1>2, <1>3, <1>4

LEMMA IdleType ==
  ASSUME TypeInv
  PROVE  Idle \in SvcType /\ Idle.pc = "idle"
<1>1. 0 \in 0..MaxRequests
  BY Fact
<1> QED
  BY <1>1 DEF Idle, SvcType

(* A method that answers for its object, or gives it back.                 *)
LEMMA MethodDone ==
  ASSUME IInv, svc.pc = "method", svc' \in SvcType, svc'.pc # "method",
         NEW res \in {Value(svc.req.id), Error}, RequestHandle(Handle(svc.obj), res) \/ JustRelease(svc.obj),
         UNCHANGED <<wire, open, chanEvent, kept, sent>>
  PROVE  IInv'
<1> PICK o : o = svc.obj
  OBVIOUS
<1>1. /\ o \in Objs /\ objs[o].used /\ objs[o].req = svc.req
      /\ ~Queued(o) /\ Serving(o) /\ ~Kept(o)
  BY ServedObject
<1>2. res \in {Value(objs[o].req.id), Error}
  BY <1>1
<1>3. /\ \A q \in Objs : Queued(q)' <=> Queued(q) /\ q # o
      /\ \A q \in Objs : Serving(q)' <=> Serving(q) /\ q # o
      /\ \A q \in Objs : Kept(q)' <=> Kept(q) /\ q # o
  <2>1. \A q : (Queued(q)' <=> Queued(q)) /\ (Kept(q)' <=> Kept(q))
    BY DEF Queued, Kept
  <2>2. \A q : ~Serving(q)'
    BY DEF Serving
  <2>3. \A q : Serving(q) => q = o
    BY DEF Serving
  <2> QED
    BY <1>1, <2>1, <2>2, <2>3
<1>4. /\ chanEvent' \in Seq(Objs)
      /\ \A k, l \in 1..Len(chanEvent') : chanEvent'[k] = chanEvent'[l] => k = l
  BY DEF IInv, TypeInv, OwnInv
<1>5. (svc'.pc = "method" => svc' = svc) /\ kept' \subseteq kept
  OBVIOUS
<1>6. RequestHandle(Handle(o), res) \/ JustRelease(o)
  OBVIOUS
<1> QED
  BY <1>1, <1>2, <1>3, <1>4, <1>5, <1>6, FinishStep

LEMMA MethodReturnsStep ==
  ASSUME IInv, MethodReturns
  PROVE  IInv'
<1>1. svc.pc = "method" /\ svc' = Idle /\ UNCHANGED <<wire, open, chanEvent, kept, sent>>
  BY DEF MethodReturns
<1>2. \E res \in {Value(svc.req.id), Error} : RequestHandle(Handle(svc.obj), res) \/ JustRelease(svc.obj)
  <2>1. Responder = Handle(svc.obj)
    BY <1>1, ServedObject DEF Responder, Handle
  <2> QED
    BY <2>1 DEF MethodReturns
<1>3. svc' \in SvcType /\ svc'.pc # "method"
  BY <1>1, IdleType DEF IInv
<1> QED
  BY <1>1, <1>2, <1>3, MethodDone

LEMMA MethodPanicsStep ==
  ASSUME IInv, MethodPanics
  PROVE  IInv'
<1>1. svc.pc = "method" /\ svc' = Idle /\ UNCHANGED <<wire, open, chanEvent, kept, sent>>
  BY DEF MethodPanics
<1>2. \E res \in {Value(svc.req.id), Error} : RequestHandle(Handle(svc.obj), res) \/ JustRelease(svc.obj)
  <2>1. svc.req.wants => HasHandle(svc.obj)
    BY <1>1, ServedObject DEF HasHandle
  <2> QED
    BY <2>1 DEF MethodPanics
<1>3. svc' \in SvcType /\ svc'.pc # "method"
  BY <1>1, IdleType DEF IInv
<1> QED
  BY <1>1, <1>2, <1>3, MethodDone

LEMMA RespondsStep ==
  ASSUME IInv, Responds
  PROVE  IInv'
<1>1. /\ svc.pc = "method" /\ svc' = [svc EXCEPT !.pc = "given"]
      /\ UNCHANGED <<wire, open, chanEvent, kept, sent>>
  BY DEF Responds, Given
<1>2. \E res \in {Value(svc.req.id), Error} : RequestHandle(Handle(svc.obj), res)
  <2>1. Responder = Handle(svc.obj)
    BY <1>1, ServedObject DEF Responder, Handle
  <2> QED
    BY <2>1 DEF Responds
<1>3. svc' \in SvcType /\ svc'.pc # "method"
  BY <1>1 DEF IInv, TypeInv, SvcType
<1> QED
  BY <1>1, <1>2, <1>3, MethodDone

(* A method that is past its responder returns, or panics and recover      *)
(* finds nothing to call.                                                  *)
LEMMA AfterStep ==
  ASSUME IInv, svc.pc = "given", svc' = Idle,
         UNCHANGED <<wire, open, objs, chanEvent, kept, sent, fault, answers, dropped>>
  PROVE  IInv'
<1>1. /\ svc.pc = "given" /\ svc' = Idle
      /\ UNCHANGED <<wire, open, objs, chanEvent, kept, sent, fault, answers, dropped>>
  OBVIOUS
<1>2. TypeInv /\ DataInv /\ OwnInv
  BY DEF IInv
<1>3. svc' \in SvcType /\ svc'.pc # "method"
  BY <1>1, <1>2, IdleType
<1>4. TypeInv'
  BY <1>1, <1>2, <1>3 DEF TypeInv, SvcType
<1>5. DataInv'
  BY <1>1, <1>2, SameData
<1>6. \A q : (Queued(q)' <=> Queued(q)) /\ (Kept(q)' <=> Kept(q)) /\ (Serving(q)' <=> Serving(q))
  BY <1>1, <1>3 DEF Queued, Kept, Serving
<1>7. OwnInv'
  BY <1>1, <1>2, <1>3, <1>6 DEF OwnInv
<1> QED
  BY <1>4, <1>5, <1>7 DEF IInv

LEMMA ReturnsAfterStep ==
  ASSUME IInv, ReturnsAfter
  PROVE  IInv'
BY AfterStep DEF ReturnsAfter, NoResponse

LEMMA PanicsAfterStep ==
  ASSUME IInv, PanicsAfter
  PROVE  IInv' \/ late'
<1>1. CASE HasHandle(svc.obj)
  BY <1>1 DEF PanicsAfter
<1>2. CASE ~HasHandle(svc.obj)
  <2>1. /\ svc.pc = "given" /\ svc' = Idle
        /\ UNCHANGED <<wire, open, objs, chanEvent, kept, sent, fault, answers, dropped>>
    BY <1>2 DEF PanicsAfter, NoResponse
  <2> QED
    BY <2>1, AfterStep
<1> QED
  BY <1>1, <1>2

LEMMA KeepsResponderStep ==
  ASSUME IInv, KeepsResponder
  PROVE  IInv'
<1> PICK o : o = svc.obj
  OBVIOUS
<1> PICK n : n = Responder
  OBVIOUS
<1>1. /\ svc.pc = "method" /\ kept' = kept \cup {n} /\ svc' = [svc EXCEPT !.pc = "given"]
      /\ UNCHANGED <<wire, open, objs, chanEvent, sent, fault, answers, dropped>>
  BY DEF KeepsResponder, Given, NoResponse
<1>2. TypeInv /\ DataInv /\ OwnInv
  BY DEF IInv
<1>3. /\ o \in Objs /\ objs[o].used /\ objs[o].req = svc.req /\ svc.req \in Received
      /\ ~Queued(o) /\ Serving(o) /\ ~Kept(o)
  BY <1>1, ServedObject
<1>4. n \in Handles /\ n.obj = o /\ n.req = svc.req
  BY <1>3 DEF Responder, Handles
<1>5. svc' \in SvcType /\ svc'.pc # "method"
  BY <1>1, <1>2 DEF TypeInv, SvcType
<1>6. IsFiniteSet(kept')
  BY <1>1, <1>2, FS_AddElement DEF TypeInv
<1>7. TypeInv'
  BY <1>1, <1>2, <1>4, <1>5, <1>6 DEF TypeInv, SvcType
<1>8. DataInv'
  BY <1>1, <1>2, SameData
<1>9. /\ \A q : Queued(q)' <=> Queued(q)
      /\ \A q : ~Serving(q)' /\ (Serving(q) <=> q = o)
      /\ \A q : Kept(q)' <=> Kept(q) \/ q = o
  <2>1. \A q : Queued(q)' <=> Queued(q)
    BY <1>1 DEF Queued
  <2>2. \A q : ~Serving(q)' /\ (Serving(q) <=> q = o)
    BY <1>1, <1>5 DEF Serving
  <2>3. \A q : Kept(q)' <=> Kept(q) \/ q = o
    BY <1>1, <1>4 DEF Kept
  <2> QED
    BY <2>1, <2>2, <2>3
<1>10. \A q \in Objs : objs'[q].used <=> Queued(q)' \/ Serving(q)' \/ Kept(q)'
  BY <1>1, <1>2, <1>9 DEF OwnInv
<1>11. \A q \in Objs : ~(Queued(q)' /\ Serving(q)') /\ ~(Queued(q)' /\ Kept(q)') /\ ~(Serving(q)' /\ Kept(q)')
  BY <1>2, <1>3, <1>9 DEF OwnInv
<1>12. \A k \in kept' : objs'[k.obj].req = k.req
  BY <1>1, <1>2, <1>3, <1>4 DEF OwnInv
<1>13. \A k, l \in kept' : k.obj = l.obj => k = l
  <2>1. \A k \in kept : k.obj # o
    BY <1>3 DEF Kept
  <2> QED
    BY <2>1, <1>1, <1>2, <1>4 DEF OwnInv
<1>14. \A k, l \in 1..Len(chanEvent') : chanEvent'[k] = chanEvent'[l] => k = l
  BY <1>1, <1>2 DEF OwnInv
<1>15. OwnInv'
  BY <1>5, <1>10, <1>11, <1>12, <1>13, <1>14 DEF OwnInv
<1> QED
  BY <1>7, <1>8, <1>15 DEF IInv

LEMMA RespondsLaterStep ==
  ASSUME IInv, NEW k \in kept, RespondsLater(k)
  PROVE  IInv'
<1> PICK o : o = k.obj
  OBVIOUS
<1> PICK res \in {Value(k.req.id), Error} : RequestHandle(k, res)
  BY DEF RespondsLater
<1>2. TypeInv /\ OwnInv
  BY DEF IInv
<1>3. o \in Objs /\ Kept(o) /\ k = [obj |-> k.obj, req |-> k.req]
  <2>1. k \in Handles
    BY <1>2 DEF TypeInv
  <2> QED
    BY <2>1 DEF Kept, Handles
<1>4. objs[o].used /\ ~Queued(o) /\ ~Serving(o) /\ objs[o].req = k.req
  BY <1>2, <1>3 DEF OwnInv
<1>1. /\ kept' = kept \ {k} /\ RequestHandle(Handle(o), res)
      /\ UNCHANGED <<wire, open, chanEvent, svc, sent>>
  <2>1. k = Handle(o)
    BY <1>3, <1>4 DEF Handle
  <2> QED
    BY <2>1 DEF RespondsLater
<1>5. res \in {Value(objs[o].req.id), Error}
  BY <1>4
<1>6. /\ \A q \in Objs : Queued(q)' <=> Queued(q) /\ q # o
      /\ \A q \in Objs : Serving(q)' <=> Serving(q) /\ q # o
      /\ \A q \in Objs : Kept(q)' <=> Kept(q) /\ q # o
  <2>1. \A q : (Queued(q)' <=> Queued(q)) /\ (Serving(q)' <=> Serving(q))
    BY <1>1 DEF Queued, Serving
  <2>2. \A l \in kept : l.obj = o => l = k
    BY <1>2 DEF OwnInv
  <2>3. \A l : l \in kept' <=> l \in kept /\ l # k
    BY <1>1
  <2>4. \A q \in Objs : Kept(q)' <=> Kept(q) /\ q # o
    BY <2>2, <2>3 DEF Kept
  <2> QED
    BY <1>4, <2>1, <2>4
<1>7. /\ chanEvent' \in Seq(Objs) /\ svc' \in SvcType
      /\ \A i, j \in 1..Len(chanEvent') : chanEvent'[i] = chanEvent'[j] => i = j
  BY <1>1, <1>2 DEF TypeInv, OwnInv, SvcType
<1>8. (svc'.pc = "method" => svc' = svc) /\ kept' \subseteq kept
  BY <1>1
<1> QED
  BY <1>1, <1>3, <1>4, <1>5, <1>6, <1>7, <1>8, FinishStep

(* The method is called: the object goes from the queue to the service.    *)
LEMMA MethodStarts ==
  ASSUME IInv, chanEvent # <<>>, chanEvent' = Tail(chanEvent), svc.pc = "idle",
         NEW o, o = Head(chanEvent), svc' = [pc |-> "method", obj |-> o, req |-> objs[o].req],
         UNCHANGED <<wire, open, objs, kept, answers, dropped, sent, fault>>
  PROVE  IInv'
<1>1. TypeInv /\ DataInv /\ OwnInv /\ ObjInv
  BY DEF IInv, DataInv
<1>2. /\ chanEvent' \in Seq(Objs) /\ o \in Objs /\ Queued(o)
      /\ \A k, l \in 1..Len(chanEvent') : chanEvent'[k] = chanEvent'[l] => k = l
      /\ \A q : Queued(q)' <=> Queued(q) /\ q # o
  BY <1>1, QueueTail
<1>3. objs[o].used /\ ~Kept(o)
  BY <1>1, <1>2 DEF OwnInv
<1>4. o \in 0..MaxRequests /\ objs[o].req \in Received
  <2>1. objs[o].req \in Received
    BY <1>1, <1>2, <1>3 DEF ObjInv
  <2>2. \A i \in Ids : i \in 0..MaxRequests
    BY <1>1, Fact
  <2> QED
    BY <2>1, <2>2, <1>2 DEF Objs
<1>5. /\ svc' \in SvcType /\ svc'.pc = "method" /\ svc'.obj = o
      /\ svc'.req = objs[o].req
  BY <1>4 DEF SvcType
<1>6. TypeInv'
  BY <1>1, <1>2, <1>5 DEF TypeInv, SvcType
<1>7. DataInv'
  BY <1>1, SameData
<1>8. /\ \A q : ~Serving(q) /\ (Serving(q)' <=> q = o)
      /\ \A q : Kept(q)' <=> Kept(q)
  BY <1>5 DEF Serving, Kept
<1>9. \A q \in Objs : objs'[q].used <=> Queued(q)' \/ Serving(q)' \/ Kept(q)'
  BY <1>1, <1>2, <1>8 DEF OwnInv
<1>10. \A q \in Objs : ~(Queued(q)' /\ Serving(q)') /\ ~(Queued(q)' /\ Kept(q)') /\ ~(Serving(q)' /\ Kept(q)')
  BY <1>1, <1>2, <1>3, <1>8 DEF OwnInv
<1>11. svc'.obj \in Objs /\ objs'[svc'.obj].req = svc'.req
  BY <1>2, <1>5
<1>12. /\ \A k \in kept' : objs'[k.obj].req = k.req
       /\ \A k, l \in kept' : k.obj = l.obj => k = l
  BY <1>1 DEF OwnInv
<1>13. OwnInv'
  BY <1>2, <1>9, <1>10, <1>11, <1>12 DEF OwnInv
<1> QED
  BY <1>6, <1>7, <1>13 DEF IInv

LEMMA HandlerStep ==
  ASSUME IInv, HandlerRpcRequest
  PROVE  IInv'
<1> PICK o : o = Head(chanEvent)
  OBVIOUS
<1> PICK r : r = objs[o].req
  OBVIOUS
<1>1. /\ svc.pc = "idle" /\ chanEvent # <<>> /\ chanEvent' = Tail(chanEvent)
      /\ UNCHANGED <<wire, open, kept, sent>>
  BY DEF HandlerRpcRequest
<1>2. TypeInv /\ OwnInv
  BY DEF IInv
<1>3. /\ chanEvent' \in Seq(Objs) /\ o \in Objs /\ Queued(o)
      /\ \A k, l \in 1..Len(chanEvent') : chanEvent'[k] = chanEvent'[l] => k = l
      /\ \A q : Queued(q)' <=> Queued(q) /\ q # o
  BY <1>1, <1>2, QueueTail
<1>4. objs[o].used /\ ~Kept(o)
  BY <1>2, <1>3 DEF OwnInv
<1>5. \/ Settled(o, r) /\ UNCHANGED svc
      \/ /\ svc' = [pc |-> "method", obj |-> o, req |-> r]
         /\ UNCHANGED <<objs, answers, dropped, fault>>
  BY DEF HandlerRpcRequest, NoResponse
<1>6. CASE Settled(o, r) /\ UNCHANGED svc
  <2>1. RequestHandle(Handle(o), Error) \/ JustRelease(o)
    BY <1>6 DEF Settled
  <2>2. /\ \A q \in Objs : Serving(q)' <=> Serving(q) /\ q # o
        /\ \A q \in Objs : Kept(q)' <=> Kept(q) /\ q # o
    <3>1. \A q : ~Serving(q) /\ ~Serving(q)'
      BY <1>1, <1>6 DEF Serving
    <3>2. \A q : Kept(q)' <=> Kept(q)
      BY <1>1 DEF Kept
    <3> QED
      BY <3>1, <3>2, <1>4
  <2>3. svc' \in SvcType /\ (svc'.pc = "method" => svc' = svc) /\ kept' \subseteq kept
    BY <1>1, <1>2, <1>6 DEF TypeInv, SvcType
  <2>4. Error \in {Value(objs[o].req.id), Error}
    OBVIOUS
  <2> QED
    BY <1>1, <1>3, <1>4, <2>1, <2>2, <2>3, <2>4, FinishStep
<1>7. CASE /\ svc' = [pc |-> "method", obj |-> o, req |-> r]
           /\ UNCHANGED <<objs, answers, dropped, fault>>
  BY <1>1, <1>7, MethodStarts
<1> QED
  BY <1>5, <1>6, <1>7

(* A call of the service to itself is answered at once.                    *)
LEMMA OwnCallStep ==
  ASSUME IInv, NEW r \in Offered, OwnCall(r)
  PROVE  IInv'
<1> PICK n : n = sent + 1
  OBVIOUS
<1>1. /\ sent < MaxRequests /\ sent' = n
      /\ UNCHANGED <<wire, open, objs, chanEvent, svc, kept, dropped, fault>>
  BY DEF OwnCall
<1>2. TypeInv /\ WireInv /\ ObjInv /\ PendInv /\ OwnAnswers /\ OwnInv
  BY DEF IInv, DataInv
<1>3. sent \in Nat /\ MaxRequests \in Nat /\ n \in Ids /\ n > sent /\ n \in 0..MaxRequests
  <2>1. sent \in Nat /\ MaxRequests \in Nat
    BY <1>2, Fact
  <2> QED
    BY <2>1, <1>1 DEF Ids
<1>4. PICK res \in {Value(n), Error} : answers' = [answers EXCEPT ![n] = <<res>>]
  BY DEF OwnCall
<1>5. Unsettled(n) /\ ~OnWire(n) /\ ~InObject(n)
  <2>1. Unsettled(n)
    BY <1>2, <1>3 DEF PendInv
  <2>2. \A i \in Ids : i <= sent => i # n
    BY <1>2, <1>3, Fact
  <2>3. ~OnWire(n)
    BY <1>2, <1>3, <2>2, Fact DEF OnWire, WireInv
  <2>4. ~InObject(n)
    BY <1>2, <1>3, <2>2, Fact DEF InObject, ObjInv
  <2> QED
    BY <2>1, <2>3, <2>4
<1>6. /\ answers' \in [Ids -> Seq(Result)] /\ answers'[n] = <<res>>
      /\ \A i \in Ids : i # n => answers'[i] = answers[i]
  <2>1. answers \in [Ids -> Seq(Result)]
    BY <1>2 DEF TypeInv
  <2>2. res \in Result
    BY <1>3, <1>4 DEF Result
  <2>3. <<res>> \in Seq(Result)
    BY <2>2
  <2> QED
    BY <2>1, <2>3, <1>3, <1>4
<1>7. TypeInv'
  BY <1>1, <1>2, <1>3, <1>6 DEF TypeInv
<1>8. \A i : (OnWire(i)' <=> OnWire(i)) /\ (InObject(i)' <=> InObject(i))
  BY <1>1 DEF OnWire, InObject
<1>9. \A i \in Ids : (i <= sent => i <= sent') /\ (i > sent' => i > sent /\ i # n)
  BY <1>1, <1>2, <1>3, Fact
<1>10. WireInv'
  <2>1. \A c \in Conns : \A k \in 1..Len(wire[c]) : wire[c][k].id <= sent'
    BY <1>2, <1>9, Fact DEF WireInv
  <2> QED
    BY <2>1, <1>1, <1>2 DEF WireInv
<1>11. ObjInv'
  <2> SUFFICES ASSUME NEW o \in Objs, objs[o].used
               PROVE  objs[o].req.id <= sent' /\ ~OnWire(objs[o].req.id)'
    BY <1>1, <1>2 DEF ObjInv
  <2> PICK i : i = objs[o].req.id
    OBVIOUS
  <2>1. i \in Ids /\ i <= sent /\ ~OnWire(i)
    BY <1>2, Fact DEF ObjInv
  <2>2. i <= sent' /\ ~OnWire(i)'
    BY <2>1, <1>8, <1>9
  <2>3. objs' = objs
    BY <1>1
  <2> QED
    BY <2>2, <2>3 DEF OnWire
<1>12. PendInv'
  <2>1. \A i \in Ids : i # n /\ Unsettled(i) => Unsettled(i)'
    BY <1>1, <1>6 DEF Unsettled
  <2> QED
    BY <2>1, <1>2, <1>5, <1>8, <1>9 DEF PendInv
<1>13. OwnAnswers'
  <2> SUFFICES ASSUME NEW j \in Ids
               PROVE  /\ Len(answers'[j]) <= 1
                      /\ answers'[j] # <<>> => j <= sent' /\ dropped'[j] = ""
                      /\ answers'[j] # <<>> => answers'[j][1] \in {Value(j), Error}
    BY DEF OwnAnswers, OwnAnswer
  <2>1. CASE j # n
    <3>1. /\ Len(answers[j]) <= 1 /\ (answers[j] # <<>> => j <= sent /\ dropped[j] = "")
          /\ answers[j] # <<>> => answers[j][1] \in {Value(j), Error}
      BY <1>2 DEF OwnAnswers, OwnAnswer
    <3>2. answers'[j] = answers[j] /\ dropped'[j] = dropped[j] /\ (j <= sent => j <= sent')
      BY <2>1, <1>1, <1>6, <1>9
    <3> QED
      BY <3>1, <3>2
  <2>2. CASE j = n
    <3>1. j <= sent' /\ dropped'[j] = ""
      <4>1. n <= n
        BY <1>3
      <4>2. dropped[n] = "" /\ dropped' = dropped /\ sent' = n
        BY <1>1, <1>5 DEF Unsettled
      <4> QED
        BY <2>2, <4>1, <4>2
    <3>2. Len(<<res>>) = 1 /\ <<res>>[1] = res
      OBVIOUS
    <3>3. Len(answers'[j]) = 1
      BY <2>2, <3>2, <1>6, Zenon
    <3>4. answers'[j][1] = res
      BY <2>2, <3>2, <1>6, Zenon
    <3>5. Len(answers'[j]) <= 1
      BY <3>3
    <3>6. answers'[j][1] \in {Value(j), Error}
      BY <2>2, <3>4, <1>4, Zenon
    <3> QED
      BY <3>1, <3>5, <3>6, Zenon
  <2> QED
    BY <2>1, <2>2
<1>14. OwnInv'
  BY <1>1, <1>2, SameOwners
<1> QED
  BY <1>7, <1>10, <1>11, <1>12, <1>13, <1>14 DEF IInv, DataInv
-----------------------------------------------------------------------------
(* The invariant.                                                          *)

LEMMA InitInv == SrvInit => IInv
<1> SUFFICES ASSUME SrvInit PROVE IInv
  OBVIOUS
<1>1. MaxRequests \in Nat /\ 0 \in 0..MaxRequests
  BY ServerAssumption
<1>2. /\ wire = [c \in Conns |-> <<>>] /\ open = Conns
      /\ objs = [o \in Objs |-> Free] /\ chanEvent = <<>> /\ svc = Idle /\ kept = {}
      /\ answers = [i \in Ids |-> <<>>] /\ dropped = [i \in Ids |-> ""] /\ sent = 0 /\ fault = {}
  BY DEF SrvInit
<1>3. TypeInv
  <2>1. Free \in [used : BOOLEAN, req : Received \cup {NoRequest}]
    BY DEF Free
  <2>2. svc \in [pc : {"idle", "method", "given"}, obj : 0..MaxRequests, req : Received \cup {NoRequest}]
    BY <1>1, <1>2 DEF Idle
  <2>3. "" \in Reasons
    BY DEF Reasons
  <2>4. IsFiniteSet(kept)
    BY <1>2, FS_EmptySet
  <2>5. objs \in [Objs -> [used : BOOLEAN, req : Received \cup {NoRequest}]]
    BY <1>2, <2>1
  <2>6. \A S : <<>> \in Seq(S)
    OBVIOUS
  <2>7. wire \in [Conns -> Seq(Received)]
    BY <1>2, <2>6, Zenon
  <2>8. answers \in [Ids -> Seq(Result)]
    BY <1>2, <2>6, Zenon
  <2>9. chanEvent \in Seq(Objs)
    BY <1>2, <2>6, Zenon
  <2> QED
    BY <1>1, <1>2, <2>2, <2>3, <2>4, <2>5, <2>7, <2>8, <2>9 DEF TypeInv
<1>4. \A c \in Conns : Len(wire[c]) = 0
  BY <1>2
<1>5. \A o \in Objs : ~objs[o].used
  BY <1>2 DEF Free
<1>6. WireInv
  BY <1>4 DEF WireInv
<1>7. ObjInv
  BY <1>5 DEF ObjInv
<1>8. PendInv
  BY <1>2 DEF PendInv, Unsettled
<1>9. OwnAnswers
  <2>1. \A i \in Ids : answers[i] = <<>>
    BY <1>2, Zenon
  <2>2. Len(<<>>) <= 1
    OBVIOUS
  <2> QED
    BY <2>1, <2>2, Zenon DEF OwnAnswers, OwnAnswer
<1>10. OwnInv
  <2>1. Len(chanEvent) = 0 /\ svc.pc = "idle"
    BY <1>2 DEF Idle
  <2>2. 1..Len(chanEvent) = {} /\ kept = {} /\ svc.pc # "method"
    <3>1. 1..0 = {}
      OBVIOUS
    <3>2. svc.pc # "method"
      BY <2>1
    <3> QED
      BY <2>1, <3>1, <3>2, <1>2, Zenon
  <2>3. \A o : ~Queued(o) /\ ~Serving(o) /\ ~Kept(o)
    BY <2>2, Zenon DEF Queued, Serving, Kept
  <2>4. /\ \A k, l \in 1..Len(chanEvent) : chanEvent[k] = chanEvent[l] => k = l
        /\ \A k, l \in kept : k.obj = l.obj => k = l
        /\ \A k \in kept : objs[k.obj].req = k.req
    BY <2>2, Zenon
  <2> QED
    BY <2>2, <2>3, <2>4, <1>5, Zenon DEF OwnInv
<1> QED
  BY <1>3, <1>6, <1>7, <1>8, <1>9, <1>10 DEF IInv, DataInv

LEMMA StepInv == IInv /\ [SrvNext]_srvVars => IInv' \/ late'
<1> SUFFICES ASSUME IInv, [SrvNext]_srvVars PROVE IInv' \/ late'
  OBVIOUS
<1>1. ASSUME NEW r \in Offered, Send(r) \/ OwnCall(r) PROVE IInv'
  BY <1>1, SendStep, OwnCallStep
<1>2. ASSUME NEW c \in Conns, processRpcRequest(c) \/ AgentEnds(c) \/ PeerGone(c) PROVE IInv'
  BY <1>2, ReadStep, CloseStep DEF AgentEnds, PeerGone
<1>3. CASE HandlerRpcRequest
  BY <1>3, HandlerStep
<1>4. CASE MethodReturns
  BY <1>4, MethodReturnsStep
<1>5. CASE MethodPanics
  BY <1>5, MethodPanicsStep
<1>6. CASE Responds
  BY <1>6, RespondsStep
<1>7. CASE ReturnsAfter
  BY <1>7, ReturnsAfterStep
<1>8. CASE KeepsResponder
  BY <1>8, KeepsResponderStep
<1>9. ASSUME NEW k \in kept, RespondsLater(k) PROVE IInv'
  BY <1>9, RespondsLaterStep
<1>11. CASE PanicsAfter
  BY <1>11, PanicsAfterStep
<1>10. CASE UNCHANGED srvVars
  <2>1. /\ UNCHANGED <<wire, objs, answers, dropped, sent>>
        /\ UNCHANGED <<objs, chanEvent, svc, kept>> /\ UNCHANGED <<open, fault>>
    BY <1>10 DEF srvVars
  <2>2. TypeInv'
    BY <2>1 DEF IInv, TypeInv
  <2>3. DataInv'
    BY <2>1, SameData DEF IInv
  <2>4. OwnInv'
    BY <2>1, SameOwners DEF IInv
  <2> QED
    BY <2>2, <2>3, <2>4 DEF IInv
<1> QED
  BY <1>1, <1>2, <1>3, <1>4, <1>5, <1>6, <1>7, <1>8, <1>9, <1>10, <1>11 DEF SrvNext

(* Once a method panicked past its responder that stays so.                *)
LEMMA LateStays == late /\ [SrvNext]_srvVars => late'
<1> SUFFICES ASSUME late, [SrvNext]_srvVars PROVE late'
  OBVIOUS
<1>1. CASE UNCHANGED srvVars
  BY <1>1 DEF srvVars
<1>2. ASSUME NEW r \in Offered, Send(r) \/ OwnCall(r) PROVE late'
  BY <1>2 DEF Send, OwnCall
<1>3. ASSUME NEW c \in Conns, processRpcRequest(c) \/ AgentEnds(c) \/ PeerGone(c) PROVE late'
  BY <1>3 DEF processRpcRequest, AgentEnds, PeerGone, Closed
<1>4. CASE HandlerRpcRequest
  BY <1>4 DEF HandlerRpcRequest
<1>5. CASE MethodReturns \/ MethodPanics
  BY <1>5 DEF MethodReturns, MethodPanics
<1>6. CASE Responds \/ KeepsResponder \/ ReturnsAfter
  BY <1>6 DEF Responds, KeepsResponder, ReturnsAfter
<1>7. CASE PanicsAfter
  BY <1>7 DEF PanicsAfter
<1>8. ASSUME NEW k \in kept, RespondsLater(k) PROVE late'
  BY <1>8 DEF RespondsLater
<1> QED
  BY <1>1, <1>2, <1>3, <1>4, <1>5, <1>6, <1>7, <1>8 DEF SrvNext

LEMMA Invariant == SrvSpec => [](late \/ IInv)
<1>1. (late \/ IInv) /\ [SrvNext]_srvVars => (late \/ IInv)'
  BY StepInv, LateStays
<1> QED
  BY <1>1, InitInv, PTL DEF SrvSpec
-----------------------------------------------------------------------------
(* The theorems.                                                           *)

\* The owners of an object, counted.
LEMMA OneOwner ==
  ASSUME IInv
  PROVE  ObjectsOwned
<1>1. TypeInv /\ OwnInv
  BY DEF IInv
<1> SUFFICES ASSUME NEW o \in Objs PROVE Owners(o) = IF objs[o].used THEN 1 ELSE 0
  BY <1>1 DEF ObjectsOwned, TypeInv
<1> DEFINE Q == {k \in DOMAIN chanEvent : chanEvent[k] = o}
           K == {k \in kept : k.obj = o}
<1>2. DOMAIN chanEvent = 1..Len(chanEvent)
  BY <1>1 DEF TypeInv
<1>3. Cardinality(Q) = IF Queued(o) THEN 1 ELSE 0
  <2>1. CASE Queued(o)
    <3>1. PICK k \in 1..Len(chanEvent) : chanEvent[k] = o
      BY <2>1 DEF Queued
    <3>2. Q = {k}
      BY <3>1, <1>1, <1>2 DEF OwnInv
    <3> QED
      BY <2>1, <3>2, FS_Singleton
  <2>2. CASE ~Queued(o)
    <3>1. Q = {}
      BY <2>2, <1>2 DEF Queued
    <3> QED
      BY <2>2, <3>1, FS_EmptySet
  <2> QED
    BY <2>1, <2>2
<1>4. Cardinality(K) = IF Kept(o) THEN 1 ELSE 0
  <2>1. CASE Kept(o)
    <3>1. PICK k \in kept : k.obj = o
      BY <2>1 DEF Kept
    <3>2. K = {k}
      BY <3>1, <1>1 DEF OwnInv
    <3> QED
      BY <2>1, <3>2, FS_Singleton
  <2>2. CASE ~Kept(o)
    <3>1. K = {}
      BY <2>2 DEF Kept
    <3> QED
      BY <2>2, <3>1, FS_EmptySet
  <2> QED
    BY <2>1, <2>2
<1>5. Owners(o) = Cardinality(Q) + (IF Serving(o) THEN 1 ELSE 0) + Cardinality(K)
  BY DEF Owners, Serving
<1>6. /\ objs[o].used <=> Queued(o) \/ Serving(o) \/ Kept(o)
      /\ ~(Queued(o) /\ Serving(o)) /\ ~(Queued(o) /\ Kept(o)) /\ ~(Serving(o) /\ Kept(o))
  BY <1>1 DEF OwnInv
<1> HIDE DEF Q, K
<1> QED
  BY <1>3, <1>4, <1>5, <1>6

(* An RpcRequest object is in use just as long as one of the queue, the    *)
(* running method and the kept responders has it; ReleaseRpcRequest is     *)
(* never called on an object that was given back, and no answer is written *)
(* from one: until a method that used or kept its responder panics and the *)
(* recover of HandlerRpcRequest finds a requestHandle in the object.       *)
THEOREM RequestObjectsHaveOneOwner == SrvSpec => []ObjectsOwned
<1>1. late \/ IInv => ObjectsOwned
  BY OneOwner DEF ObjectsOwned
<1> QED
  BY <1>1, Invariant, PTL

(* A request that was sent gets at most one answer, with the value of its  *)
(* own method or an error, although requestHandle reads the number from an *)
(* object that serves one request after the other: until such a panic.     *)
THEOREM AnswersAreTheirOwn == SrvSpec => []AnsweredByOwn
<1>1. late \/ IInv => AnsweredByOwn
  BY DEF IInv, DataInv, OwnAnswers, AnsweredByOwn
<1> QED
  BY <1>1, Invariant, PTL
=============================================================================
