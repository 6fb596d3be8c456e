----------------------------- MODULE RpcServer -----------------------------
(***************************************************************************)
(* Package rpc, the side that answers: RpcAgent and NatsServer read        *)
(* requests, BaseServer.processRpcRequest decodes them and queues them to  *)
(* the service, RpcHandler.HandlerRpcRequest runs the method and the       *)
(* answer goes back.  Callers of the same node put their requests into the *)
(* same queue.  RpcRequest objects come from a pool and are given back by  *)
(* whoever answers; the closure that answers reads the object.             *)
(*                                                                         *)
(* A request is for a kind of method or has a kind of defect; the size of  *)
(* an answer says what compression and the limit on a message make of it.  *)
(* A panic that nothing recovers ends the node, and the model with it.     *)
(***************************************************************************)
EXTENDS Naturals, Sequences, FiniteSets

CONSTANTS
  Tcp,          \* connections of RpcAgents
  Nats,         \* the nodes that call through NATS
  Local,        \* other services of the node
  Own,          \* the service itself
  ChanLen,      \* maxServiceEventChannelNum
  Offered,      \* requests that may come: the caller, what it wants and what it gets
  MaxRequests   \* bound on the requests

Conns == Tcp \cup Nats \cup Local
Callers == Conns \cup Own

Broken == {"noprocessor", "badblock", "badhead"}      \* cannot be decoded
Refused == {"noservice", "badparam", "rawjson"}       \* decoded, but nobody can run it
Methods == {"plain", "void", "responder"}
Kinds == Broken \cup Refused \cup Methods \cup {"raw", "nomethod"}
Sizes == {"small", "dense", "long"}
Ids == 1 .. MaxRequests

\* RawGoNode never wants an answer, and its method id is not in what JsonProcessor
\* writes: no method is found for it.  A local caller hands over objects, not bytes,
\* and finds the service itself.
Requests ==
  {r \in [conn : Callers, wants : BOOLEAN, kind : Kinds, size : Sizes] :
     /\ r.kind \in {"raw", "rawjson"} => ~r.wants
     /\ r.conn \in Local \cup Own => r.kind \in Methods \cup {"raw", "nomethod"}
     /\ r.conn \notin Local \cup Own => r.kind # "nomethod"
     /\ r.size # "small" => r.wants /\ r.conn \in Tcp \cup Nats /\ r.kind \in {"plain", "responder"}}
NoRequest == [id |-> 0, kind |-> "none"]
Made(r, i) == [id |-> i, conn |-> r.conn, wants |-> r.wants, kind |-> r.kind, size |-> r.size]

\* The pool hands out objects that came back before it makes a new one; which of
\* them makes no difference.
Objs == Ids

ASSUME ServerAssumption ==
  /\ ChanLen \in Nat \ {0} /\ MaxRequests \in Nat
  /\ \A A, B \in {Tcp, Nats, Local, Own} : A = B \/ A \cap B = {}
  /\ Offered \subseteq Requests

VARIABLES
  wire,      \* requests on each connection that are not yet read
  open,      \* connections that are open
  ending,    \* connections whose agent gave up
  objs,      \* RpcRequest objects: in use, and the request
  chanEvent, \* the queue of the service
  svc,       \* the service: idle, in a method or past its responder, and for which request
  kept,      \* responders that the service keeps to answer later
  answers,   \* the answers of each request, in order
  dropped,   \* why a request will not be answered
  sent,      \* requests sent
  fault,     \* a use or a release of an object that was given back
  late       \* a method panicked when its responder was used or kept, and recover found a requestHandle

srvVars == <<wire, open, ending, objs, chanEvent, svc, kept, answers, dropped, sent, fault, late>>

Free == [used |-> FALSE, req |-> NoRequest]
Idle == [pc |-> "idle", obj |-> 0, req |-> NoRequest]
InUse(r) == [used |-> TRUE, req |-> r]
Value(i) == <<"value", i>>
Error == <<"error">>

SrvInit ==
  /\ wire = [c \in Conns |-> <<>>] /\ open = Conns /\ ending = {}
  /\ objs = [o \in Objs |-> Free] /\ chanEvent = <<>> /\ svc = Idle /\ kept = {}
  /\ answers = [i \in Ids |-> <<>>] /\ dropped = [i \in Ids |-> ""] /\ sent = 0 /\ fault = {} /\ late = FALSE

Send(r) ==
  /\ sent < MaxRequests /\ r.conn \in open \ ending
  /\ sent' = sent + 1 /\ wire' = [wire EXCEPT ![r.conn] = Append(@, Made(r, sent'))]
  /\ UNCHANGED <<open, ending, objs, chanEvent, svc, kept, answers, dropped, fault, late>>
-----------------------------------------------------------------------------
\* CompressBlock gives up on what it would compress to less than a 255th.
CompressBlock(r, res) == ~(r.size = "dense" /\ res[1] = "value")

\* A message beyond MaxWriteMsgLen, or the broker's limit, is not sent.
Write(r, res) == ~(r.size = "long" /\ res[1] = "value")

\* What keeps an answer from its caller: WriteResponse only logs it, and the
\* connection stays.  A message for a node that is gone is published all the same.
AgentLoses(r, res) ==
  CASE ~CompressBlock(r, res) -> "dense"
    [] r.conn \notin open -> "gone"
    [] ~Write(r, res) -> "long"
    [] OTHER -> ""
NatsLoses(r, res) ==
  CASE ~CompressBlock(r, res) -> "dense"
    [] ~Write(r, res) -> "long"
    [] r.conn \notin open -> "gone"
    [] OTHER -> ""
Why(r, res) == IF r.conn \in Local THEN "" ELSE IF r.conn \in Nats THEN NatsLoses(r, res) ELSE AgentLoses(r, res)
WriteResponse(r, res) ==
  /\ answers' = IF Why(r, res) = "" THEN [answers EXCEPT ![r.id] = Append(@, res)] ELSE answers
  /\ dropped' = IF Why(r, res) = "" THEN dropped ELSE [dropped EXCEPT ![r.id] = Why(r, res)]
NoResponse == UNCHANGED <<answers, dropped>>

Unanswered(r, why) == answers' = answers /\ dropped' = [dropped EXCEPT ![r.id] = why]

\* requestHandle is set for a request that wants an answer, until the object is
\* given back.  It is a closure: h has the object and the request it was made for.
HasHandle(o) == objs[o].used /\ objs[o].req.wants
Handle(o) == [obj |-> o, req |-> objs[o].req]

\* The objects after o was given back.
ReleaseRpcRequest(o) == [objs EXCEPT ![o] = Free]

\* requestHandle answers and gives the object back.  A local one completes the call
\* it was made for, if that is still pending; one for a connection takes the number
\* from the object as it is now and writes to the connection it was made for.
Addressed(h, res) ==
  IF h.req.conn \in Local THEN IF answers[h.req.id] = <<>> THEN WriteResponse(h.req, res) ELSE NoResponse
  ELSE IF objs[h.obj].req.conn = h.req.conn THEN WriteResponse(objs[h.obj].req, res)
  ELSE Unanswered(objs[h.obj].req, "astray")
RequestHandle(h, res) ==
  IF objs[h.obj].used
  THEN Addressed(h, res) /\ objs' = ReleaseRpcRequest(h.obj) /\ UNCHANGED fault
  ELSE fault' = fault \cup {"cleared"} /\ NoResponse /\ UNCHANGED objs

\* ReleaseRpcRequest without an answer; deferred behind the recover.
JustRelease(o) ==
  /\ NoResponse
  /\ IF objs[o].used THEN objs' = ReleaseRpcRequest(o) /\ UNCHANGED fault
     ELSE fault' = fault \cup {"freed twice"} /\ UNCHANGED objs
-----------------------------------------------------------------------------
\* (Mutant: nobody is told that there is no such service.)
QuietlyRefused(r) == IF r.wants /\ r.kind # "noservice" THEN WriteResponse(r, Error) ELSE NoResponse
RefusedAnswer(r) == IF r.wants THEN WriteResponse(r, Error) ELSE NoResponse

\* What happens before a request gets into the queue, and who learns of it.  A
\* request that cannot be read is answered if its number could be.
GetProcessor(r) == r.kind # "noprocessor"
UncompressBlock(r) == r.kind # "badblock"
Unmarshal(r) == r.kind # "badhead"
Undecodable(r) ==
  /\ ~(GetProcessor(r) /\ UncompressBlock(r) /\ Unmarshal(r)) /\ UNCHANGED <<objs, chanEvent>>
  /\ Unanswered(r, "unreadable") \/ (r.kind = "badhead" /\ RefusedAnswer(r))
Unserved(r) == r.kind \in Refused /\ RefusedAnswer(r) /\ UNCHANGED <<objs, chanEvent>>

\* (Mutant: the object of a request that was not queued is kept.)
KeptWhenFull(r, o) == objs' = [objs EXCEPT ![o] = InUse(r)]
GivenBackWhenFull(r, o) == UNCHANGED objs

\* The service's queue is full: a local caller gets the error, a remote one that
\* wants an answer gets none, and one that wants none gets one.
PushRefused(r) ==
  IF r.conn \in Local THEN IF r.wants THEN WriteResponse(r, Error) ELSE NoResponse
  ELSE IF r.wants THEN Unanswered(r, "full") ELSE WriteResponse(r, Error)
PushRpcRequest(r) ==
  /\ r.kind \notin Broken \cup Refused
  /\ LET o == CHOOSE o \in Objs : ~objs[o].used IN
          IF Len(chanEvent) >= ChanLen
          THEN PushRefused(r) /\ GivenBackWhenFull(r, o) /\ UNCHANGED chanEvent
          ELSE /\ objs' = [objs EXCEPT ![o] = InUse(r)]
               /\ chanEvent' = Append(chanEvent, o) /\ NoResponse

\* processRpcRequest; an error ends RpcAgent.Run and with it the connection.
processRpcRequest(c) ==
  /\ c \in open \ ending /\ wire[c] # <<>> /\ wire' = [wire EXCEPT ![c] = Tail(@)]
  /\ LET r == Head(wire[c]) IN
     /\ Undecodable(r) \/ Unserved(r) \/ PushRpcRequest(r)
     /\ ending' = IF r.kind \in Broken /\ c \in Tcp THEN ending \cup {c} ELSE ending
  /\ UNCHANGED <<open, svc, kept, sent, fault, late>>

\* What was still to be read is lost with the connection.
Closed(c) ==
  /\ c \in open /\ open' = open \ {c} /\ wire' = [wire EXCEPT ![c] = <<>>]
  /\ dropped' = [i \in Ids |-> IF i \in {wire[c][k].id : k \in DOMAIN wire[c]} THEN "gone" ELSE dropped[i]]
  /\ UNCHANGED <<ending, objs, chanEvent, svc, kept, answers, sent, fault, late>>
AgentEnds(c) == c \in ending /\ Closed(c)
PeerGone(c) == c \notin Local /\ Closed(c)
-----------------------------------------------------------------------------
\* HandlerRpcRequest up to the method: what can be settled at once, or the method
\* is called.
Settled(o, r) ==
  \/ r.kind \in {"raw", "none"} /\ JustRelease(o)
  \/ r.kind = "nomethod" /\ IF HasHandle(o) THEN RequestHandle(Handle(o), Error) ELSE JustRelease(o)
  \/ r.kind = "void" /\ HasHandle(o) /\ RequestHandle(Handle(o), Error)
HandlerRpcRequest ==
  /\ svc.pc = "idle" /\ chanEvent # <<>> /\ chanEvent' = Tail(chanEvent)
  /\ LET o == Head(chanEvent)  r == objs[o].req IN
     \/ Settled(o, r) /\ UNCHANGED svc
     \/ /\ r.kind \in Methods /\ ~(r.kind = "void" /\ HasHandle(o))
        /\ svc' = [pc |-> "method", obj |-> o, req |-> r] /\ NoResponse /\ UNCHANGED <<objs, fault>>
  /\ UNCHANGED <<wire, open, ending, kept, sent, late>>

\* The requestHandle that the running method was called with.
Responder == [obj |-> svc.obj, req |-> svc.req]

\* The method returns: the answer, or the object goes back.
MethodReturns ==
  /\ svc.pc = "method" /\ svc' = Idle
  /\ IF ~svc.req.wants THEN JustRelease(svc.obj)
     ELSE svc.req.kind = "plain" /\ \E res \in {Value(svc.req.id), Error} : RequestHandle(Responder, res)
  /\ UNCHANGED <<wire, open, ending, chanEvent, kept, sent, late>>

\* It panics before it answered: recover answers in its place, with what the
\* object has for a requestHandle.
MethodPanics ==
  /\ svc.pc = "method" /\ svc' = Idle
  /\ IF HasHandle(svc.obj) THEN RequestHandle(Handle(svc.obj), Error)
     ELSE IF svc.req.wants THEN NoResponse /\ UNCHANGED <<objs, fault>> ELSE JustRelease(svc.obj)
  /\ UNCHANGED <<wire, open, ending, chanEvent, kept, sent, late>>

\* A method with a responder answers while it runs, or keeps the responder.
Given == svc.pc = "method" /\ svc.req.wants /\ svc.req.kind = "responder" /\ svc' = [svc EXCEPT !.pc = "given"]
Responds ==
  /\ Given /\ \E res \in {Value(svc.req.id), Error} : RequestHandle(Responder, res)
  /\ UNCHANGED <<wire, open, ending, chanEvent, kept, sent, late>>
KeepsResponder ==
  /\ Given /\ kept' = kept \cup {Responder} /\ NoResponse
  /\ UNCHANGED <<wire, open, ending, objs, chanEvent, sent, fault, late>>
\* Nothing more to do: hasResponder.  (Mutant: it is answered for once more.)
AnswersAgain ==
  /\ svc.pc = "given" /\ svc' = Idle /\ RequestHandle(Responder, Value(svc.req.id))
  /\ UNCHANGED <<wire, open, ending, chanEvent, kept, sent, late>>
ReturnsAfter ==
  /\ svc.pc = "given" /\ svc' = Idle /\ NoResponse
  /\ UNCHANGED <<wire, open, ending, objs, chanEvent, kept, sent, fault, late>>

\* It panics after that.  The object may be in the pool, cleared, and nothing
\* happens; or it serves another request by now, which recover answers; or the
\* responder is kept and recover answers before it does.
PanicsAfter ==
  /\ svc.pc = "given" /\ svc' = Idle
  /\ IF HasHandle(svc.obj) THEN RequestHandle(Handle(svc.obj), Error) /\ late' = TRUE
     ELSE NoResponse /\ UNCHANGED <<objs, fault, late>>
  /\ UNCHANGED <<wire, open, ending, chanEvent, kept, sent>>
RespondsLater(k) ==
  /\ k \in kept /\ kept' = kept \ {k} /\ \E res \in {Value(k.req.id), Error} : RequestHandle(k, res)
  /\ UNCHANGED <<wire, open, ending, chanEvent, svc, sent, late>>

\* CallMethod: the service calls itself, and the method is run on the spot.
OwnCall(r) ==
  /\ sent < MaxRequests /\ sent' = sent + 1 /\ r.conn \in Own /\ svc.pc = "idle"
  /\ \/ r.kind \in {"plain", "void"} /\ \E res \in {Value(sent'), Error} : answers' = [answers EXCEPT ![sent'] = <<res>>]
     \/ r.kind \in {"nomethod", "raw"} /\ answers' = [answers EXCEPT ![sent'] = <<Error>>]
  /\ UNCHANGED <<wire, open, ending, objs, chanEvent, svc, kept, dropped, fault, late>>
Service ==
  /\ fault = {}
  /\ HandlerRpcRequest \/ MethodReturns \/ MethodPanics \/ Responds \/ KeepsResponder \/ ReturnsAfter \/ PanicsAfter
SrvNext ==
  /\ fault = {}
  /\ \/ \E r \in Offered : Send(r) \/ OwnCall(r)
     \/ \E c \in Conns : processRpcRequest(c) \/ AgentEnds(c) \/ PeerGone(c)
     \/ HandlerRpcRequest \/ MethodReturns \/ MethodPanics
     \/ Responds \/ KeepsResponder \/ ReturnsAfter \/ PanicsAfter
     \/ \E k \in kept : RespondsLater(k)

\* The goroutines of agents and of the service run on; the application calls the
\* responders that it keeps.
SrvFairness ==
  /\ \A c \in Conns : /\ WF_srvVars(fault = {} /\ processRpcRequest(c))
                      /\ WF_srvVars(fault = {} /\ AgentEnds(c))
  /\ WF_srvVars(Service)
  /\ \A i \in Ids : WF_srvVars(fault = {} /\ \E k \in kept : k.req.id = i /\ RespondsLater(k))
SrvSpec == SrvInit /\ [][SrvNext]_srvVars /\ SrvFairness
-----------------------------------------------------------------------------
\* An object is in use just as long as one party has it: the queue, the service in
\* a method, or a kept responder.  Nothing is given back twice or lost, until a
\* method panics that had used or kept its responder and recover answers for
\* whatever the object holds by then (rpchandler.go:250).
Owners(o) ==
  Cardinality({k \in DOMAIN chanEvent : chanEvent[k] = o})
    + (IF svc.pc = "method" /\ svc.obj = o THEN 1 ELSE 0) + Cardinality({k \in kept : k.obj = o})
ObjectsOwned == late \/ (fault = {} /\ \A o \in Objs : Owners(o) = IF objs[o].used THEN 1 ELSE 0)

\* A request gets one answer at most, and if that has a value it is the value of
\* its own method, although answers are written from objects that serve one
\* request after the other; until such a panic.
OwnAnswer(i) ==
  /\ Len(answers[i]) <= 1 /\ (answers[i] # <<>> => i <= sent /\ dropped[i] = "")
  /\ answers[i] # <<>> => answers[i][1] \in {Value(i), Error}
AnsweredByOwn == late \/ \A i \in Ids : OwnAnswer(i)

\* The requests that are somewhere between wire and answer.
Travelling(i) ==
  \/ \E c \in Conns : \E k \in DOMAIN wire[c] : wire[c][k].id = i /\ wire[c][k].wants
  \/ \E o \in Objs : objs[o].used /\ objs[o].req.id = i /\ objs[o].req.wants
\* Whoever asked is answered in the end, whether there is such a service and method
\* or not and whether the method returns, panics or answers later, unless the
\* connection goes, the queue is full, the request cannot be read, or the answer
\* compresses too well or is too long to be sent; and until a panic behind a used
\* or kept responder.
EveryRequestAnswered ==
  \A i \in Ids : Travelling(i) ~>
    answers[i] # <<>> \/ dropped[i] \in {"gone", "full", "unreadable", "dense", "long"} \/ late
=============================================================================
