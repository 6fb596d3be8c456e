--------------------------- MODULE RpcCallProofs ---------------------------
(***************************************************************************)
(* Proofs about the caller's side of RPC, for every number of callers,     *)
(* nodes, calls and Call objects and every length of the event channel.    *)
(*                                                                         *)
(* The heart is the token of a call: the reference to its Call object that *)
(* the CallSet holds until one of the reader, checkRpcCallTimeout,         *)
(* cleanPending and the canceller takes it out, and that travels on to the *)
(* done channel or the event channel.  A call has at most one token, and   *)
(* the object under it is in use and still that of the call.               *)
(*                                                                         *)
(* This needs the write of a request not to fail when somebody else may    *)
(* already have taken the token: timeouts outlast the writing and no       *)
(* client is closed, or no write fails.  Without it FreedUnreachable is    *)
(* violated (MCRpcCallCloseReuse).                                         *)
(***************************************************************************)
EXTENDS RpcCall, SequenceTheorems, TLAPS

Calm(p) == p.close = {} /\ p.outlasts
NoWriteFails(p) == (p.async \cup p.sync) \cap (p.drop \cup p.close \cup p.long \cup {Local}) = {}
SafePlans == \A p \in Plans : Calm(p) \/ NoWriteFails(p)

Active(i) == w[i].pc # "idle"
Delivering(p) == d[p].pc \in {"deliver", "send"}

\* The object o is in use for the call s.
Carries(s, o) ==
  /\ s \in Seqs /\ o \in Objs
  /\ obj[o].ref /\ obj[o].seq = s /\ obj[o].cb = IF s \in asyncs THEN s ELSE 0

\* The call s has no token.
InEvents(s) == \E i \in 1..Len(chanEvent) : chanEvent[i][1] = s
InDelivery(s) == \E p \in Deliverers : Delivering(p) /\ d[p].seq = s
NoToken(s) == pending[s] = NoCall /\ ~InDelivery(s) /\ ~InEvents(s)

\* Every token carries the object of its call.
CarryInv ==
  /\ \A s \in Seqs : pending[s] # NoCall => Carries(s, pending[s])
  /\ \A p \in Deliverers : Delivering(p) => Carries(d[p].seq, d[p].o)
  /\ \A p \in Deliverers : ~Delivering(p) => d[p].o = NoCall
  /\ \A p \in Deliverers : d[p].pc = "send" => d[p].seq \in asyncs
  /\ \A i \in 1..Len(chanEvent) : chanEvent[i][1] = 0 => chanEvent[i] = OtherEvent
  /\ \A i \in 1..Len(chanEvent) : chanEvent[i][1] # 0 =>
       chanEvent[i][1] \in asyncs /\ Carries(chanEvent[i][1], chanEvent[i][2])

\* A call has at most one token.
UniqueInv ==
  /\ \A p \in Deliverers : Delivering(p) => pending[d[p].seq] = NoCall /\ ~InEvents(d[p].seq)
  /\ \A p, q \in Deliverers : Delivering(p) /\ Delivering(q) /\ d[p].seq = d[q].seq => p = q
  /\ \A i \in 1..Len(chanEvent) : chanEvent[i][1] # 0 => pending[chanEvent[i][1]] = NoCall
  /\ \A i, j \in 1..Len(chanEvent) : chanEvent[i][1] # 0 /\ chanEvent[i][1] = chanEvent[j][1] => i = j

\* Every issuer has a call of its own, and the object of it.
IssuerInv ==
  /\ \A i \in Issuers : Active(i) => w[i].seq \in 1..startSeq
  /\ \A i \in Issuers : ~Active(i) => w[i].o = NoCall
  /\ \A i, j \in Issuers : Active(i) /\ Active(j) /\ w[i].seq = w[j].seq => i = j
  /\ \A c \in Callers : Active(c) =>
       /\ w[c].seq \notin asyncs /\ w[c].o \in Objs
       /\ obj[w[c].o].ref /\ obj[w[c].o].cb = 0
       /\ obj[w[c].o].seq \in {0, w[c].seq} /\ obj[w[c].o].done \in {0, w[c].seq}
  /\ \A c, b \in Callers : Active(c) /\ Active(b) /\ w[c].o = w[b].o => b = c
  /\ \A c \in Callers : w[c].pc \in {"add", "write"} => obj[w[c].o].seq = w[c].seq
  /\ \A c \in Callers : w[c].pc = "add" => obj[w[c].o].done = 0
  /\ Active(Svc) => w[Svc].pc \in {"add", "write"} /\ w[Svc].seq \in asyncs
  /\ w[Svc].pc = "add" => w[Svc].o = NoCall
  /\ w[Svc].pc = "write" => Carries(w[Svc].seq, w[Svc].o)
  /\ \A i \in Issuers : w[i].pc = "add" => NoToken(w[i].seq)
  /\ \A i \in Issuers : w[i].pc \in {"add", "write", "fail"} =>
       w[i].seq \notin requests \cup responses

\* Numbers that were not generated yet are not in use.
NumberInv ==
  \A s \in Seqs : s > startSeq =>
    /\ NoToken(s)
    /\ s \notin asyncs \cup requests \cup responses \cup cancelled
    /\ ran[s] = 0

\* The caller c was answered, or will answer itself.
Answered(c) == Active(c) /\ (obj[w[c].o].done # 0 \/ w[c].pc \in {"fail", "clean"})

\* Then only the timeout, which keeps pendingLock, can still hold its object,
\* and the token is only left when a local write failed.
AnsweredInv ==
  \A c \in Callers : Answered(c) =>
    /\ \A p \in Deliverers : d[p].o = w[c].o => p = Timeout
    /\ pending[w[c].seq] # NoCall =>
         w[c].seq \notin requests \cup responses /\ plan.close = {} /\ w[c].pc # "write"

\* While a write may fail its call is pending.
WriteInv ==
  /\ \A i \in Issuers : Calm(plan) /\ w[i].pc = "write" => pending[w[i].seq] = w[i].o
  /\ \A c \in Callers : w[c].pc = "fail" => Calm(plan)

\* A call whose callback ran, or that was cancelled, is over.
RanInv ==
  \A s \in Seqs :
    /\ ran[s] <= 1 /\ (s \in cancelled => ran[s] = 0)
    /\ ran[s] # 0 \/ s \in cancelled =>
         s \in asyncs /\ NoToken(s) /\ ~(Active(Svc) /\ w[Svc].seq = s)

\* Who keeps pendingLock, and which connections may break.
LockInv ==
  /\ \A p \in Nodes \cup {Timeout} : d[p].pc \in {"idle", "deliver", "send"}
  /\ Delivering(Timeout) => lock = Timeout
  /\ d[Closer].pc \in {"clean", "deliver", "send"} => lock = Closer
  /\ d[Closer].pc # "idle" => plan.close # {}
PlanInv ==
  /\ plan \in Plans
  /\ \A n \in Nodes : conn[n] # "up" => n \in plan.drop \cup plan.close
  /\ \A i \in Issuers : Active(i) => node[w[i].seq] \in plan.async \cup plan.sync

IInv == /\ TypeOK /\ PlanInv /\ LockInv /\ CarryInv /\ UniqueInv
        /\ IssuerInv /\ NumberInv /\ AnsweredInv /\ WriteInv /\ RanInv

-----------------------------------------------------------------------------
\* The parts of the state that a step leaves alone, one by one.
LEMMA Frames ==
  /\ UNCHANGED callSetVars => pending' = pending /\ timers' = timers /\ lock' = lock
  /\ UNCHANGED netVars => /\ plan' = plan /\ conn' = conn /\ closed' = closed
                         /\ requests' = requests /\ responses' = responses /\ drops' = drops
  /\ UNCHANGED ghostVars => /\ node' = node /\ asyncs' = asyncs
                           /\ ran' = ran /\ cancelled' = cancelled
  BY DEF callSetVars, netVars, ghostVars

\* The initial state satisfies the invariant.
LEMMA InitIInv == Init => IInv
<1> SUFFICES ASSUME Init PROVE IInv
  OBVIOUS
<1> USE DEF Init
<1>0. /\ \A i \in Issuers : w[i] = Idle
      /\ \A p \in Deliverers : d[p] = Idle
      /\ \A i \in Issuers : ~Active(i)
      /\ \A p \in Deliverers : ~Delivering(p) /\ d[p].o = NoCall /\ d[p].pc = "idle"
      /\ Len(chanEvent) = 0
      /\ Svc \in Issuers /\ Callers \subseteq Issuers
  BY DEF Idle, Active, Delivering, Issuers
<1>1. TypeOK
  BY LimitsAssumption, NodesAssumption, EmptySeq
  DEF TypeOK, CallSetOK, ActorsOK, ChannelOK, NetOK, CallsOK, Fields, Issuing, Completing, Fresh, Idle, Seqs
<1>2. \A s \in Seqs : NoToken(s)
  BY <1>0 DEF NoToken, InEvents, InDelivery
<1>3. PlanInv /\ WriteInv
  BY <1>0 DEF PlanInv, WriteInv, Active
<1>4. LockInv
  BY <1>0 DEF LockInv, Deliverers
<1>5. CarryInv /\ UniqueInv
  BY <1>0 DEF CarryInv, UniqueInv
<1>6. IssuerInv
  BY <1>0 DEF IssuerInv, Active, Idle
<1>7. NumberInv /\ AnsweredInv /\ RanInv
  BY <1>0, <1>2 DEF NumberInv, AnsweredInv, RanInv, Answered
<1> QED BY <1>1, <1>3, <1>4, <1>5, <1>6, <1>7 DEF IInv

\* The actors, and the fields of what they hold.
LEMMA Fact ==
  ASSUME IInv
  PROVE  /\ MaxCalls \in Nat /\ startSeq \in Nat /\ startSeq <= MaxCalls
         /\ Svc \in Issuers /\ Svc \notin Callers /\ Callers \subseteq Issuers
         /\ Issuers = Callers \cup {Svc}
         /\ Timeout \in Deliverers /\ Closer \in Deliverers /\ Nodes \subseteq Deliverers
         /\ Timeout # Closer /\ Timeout \notin Nodes /\ Closer \notin Nodes
         /\ NoCall \notin Objs /\ 0 \notin Seqs /\ Seqs \subseteq Nat
         /\ \A i \in Issuers : w[i].seq \in 0..MaxCalls /\ w[i].o \in Objs \cup {NoCall}
         /\ \A p \in Deliverers : d[p].seq \in 0..MaxCalls /\ d[p].o \in Objs \cup {NoCall}
         /\ \A i \in Issuers : Active(i) => w[i].seq \in Seqs
  BY LimitsAssumption, ActorsAssumption, ObjsAssumption
  DEF IInv, TypeOK, CallSetOK, ActorsOK, Issuing, Completing, Issuers, Deliverers, Seqs, Timeout, Closer,
      IssuerInv

\* A token of the call s refers to the object o.
Held(s, o) ==
  /\ o # NoCall
  /\ \/ pending[s] = o
     \/ \E p \in Deliverers : Delivering(p) /\ d[p].seq = s /\ d[p].o = o
     \/ \E i \in 1..Len(chanEvent) : chanEvent[i][1] = s /\ chanEvent[i][2] = o

\* Tokens that only disappear, over objects that stay in use for their call.
LEMMA Shrink ==
  ASSUME CarryInv, UniqueInv, chanEvent' = chanEvent, asyncs \subseteq asyncs',
         \A s \in Seqs : pending'[s] \in {pending[s], NoCall},
         \A p \in Deliverers : d'[p] = d[p] \/ (~Delivering(p)' /\ d'[p].o = NoCall),
         \A s, o : Carries(s, o) /\ Held(s, o)' => Carries(s, o)'
  PROVE  CarryInv' /\ UniqueInv' /\ \A s \in Seqs : NoToken(s) => NoToken(s)'
<1>0. /\ \A p \in Deliverers : Delivering(p)' => d'[p] = d[p] /\ Delivering(p)
      /\ \A s : InEvents(s)' <=> InEvents(s)
  BY DEF Delivering, InEvents
<1>1. \A s \in Seqs : pending'[s] # NoCall => pending'[s] = pending[s]
  OBVIOUS
<1>4. UniqueInv'
  <2>1. \A p \in Deliverers : Delivering(p) => /\ pending[d[p].seq] = NoCall /\ ~InEvents(d[p].seq)
                                               /\ d[p].seq \in Seqs
    BY DEF UniqueInv, CarryInv, Carries
  <2>2. \A p \in Deliverers : Delivering(p)' => pending'[d'[p].seq] = NoCall /\ ~InEvents(d[p].seq)'
    BY <1>0, <2>1 
  <2>3. \A p \in Deliverers : Delivering(p)' => pending'[d'[p].seq] = NoCall /\ ~InEvents(d[p].seq)' /\ d'[p] = d[p]
    BY <1>0, <2>2
  <2>4. \A p \in Deliverers : Delivering(p)' => pending'[d'[p].seq] = NoCall /\ ~(\E i \in 1..Len(chanEvent') : chanEvent'[i][1] = d'[p].seq)
    BY <2>3 DEF InEvents
  <2>5. \A p, q \in Deliverers : Delivering(p)' /\ Delivering(q)' /\ d'[p].seq = d'[q].seq => p = q
    BY <1>0 DEF UniqueInv
  <2>6. \A i \in 1..Len(chanEvent) : chanEvent[i][1] # 0 => pending'[chanEvent[i][1]] = NoCall
    BY DEF UniqueInv, CarryInv, Carries
  <2> QED BY <2>4, <2>5, <2>6 DEF UniqueInv, InEvents
<1>5. CarryInv'
  <2>1. \A s \in Seqs : pending'[s] # NoCall => Carries(s, pending[s])'
    <3> SUFFICES ASSUME NEW s \in Seqs, pending'[s] # NoCall PROVE Carries(s, pending[s])'
      OBVIOUS
    <3>1. ASSUME NEW o, o = pending[s] PROVE Carries(s, o)'
      BY <1>1, <3>1 DEF CarryInv, Held
    <3>2. PICK o : o = pending[s] /\ o = pending'[s]
      BY <1>1
    <3> QED BY <3>1, <3>2 DEF Carries
  <2>2. \A p \in Deliverers : Delivering(p)' => Carries(d[p].seq, d[p].o)'
    <3> SUFFICES ASSUME NEW p \in Deliverers, Delivering(p)' PROVE Carries(d[p].seq, d[p].o)'
      OBVIOUS
    <3>1. ASSUME NEW o, o = d[p].o, NEW s, s = d[p].seq PROVE Carries(s, o)'
      <4>1. Carries(s, o) /\ o # NoCall
        BY <1>0, <3>1, ObjsAssumption DEF CarryInv, Carries
      <4>2. Held(s, o)'
        BY <1>0, <3>1, <4>1 DEF Held
      <4> QED BY <4>1, <4>2
    <3> QED BY <1>0, <3>1 DEF Carries
  <2>3. \A i \in 1..Len(chanEvent) : chanEvent[i][1] # 0 =>
          chanEvent[i][1] \in asyncs' /\ Carries(chanEvent[i][1], chanEvent[i][2])'
    <3> SUFFICES ASSUME NEW i \in 1..Len(chanEvent), chanEvent[i][1] # 0
                 PROVE  chanEvent[i][1] \in asyncs' /\ Carries(chanEvent[i][1], chanEvent[i][2])'
      OBVIOUS
    <3>1. ASSUME NEW o, o = chanEvent[i][2], NEW s, s = chanEvent[i][1] PROVE Carries(s, o)'
      <4>1. Carries(s, o) /\ o # NoCall
        BY <3>1, ObjsAssumption DEF CarryInv, Carries
      <4>2. Held(s, o)'
        BY <3>1, <4>1 DEF Held
      <4> QED BY <4>1, <4>2
    <3>2. chanEvent[i][1] \in asyncs
      BY DEF CarryInv
    <3> QED BY <3>1, <3>2 DEF Carries
  <2>4. \A p \in Deliverers : d'[p].pc = "send" => Delivering(p)'
    BY DEF Delivering
  <2>5. \A p \in Deliverers : ~Delivering(p)' => d'[p].o = NoCall
    BY DEF CarryInv, Delivering
  <2>6. \A p \in Deliverers : d'[p].pc = "send" => d'[p].seq \in asyncs'
    BY <1>0, <2>4 DEF CarryInv
  <2>7. \A i \in 1..Len(chanEvent') : chanEvent'[i][1] = 0 => chanEvent'[i] = OtherEvent
    BY DEF CarryInv
  <2> QED BY <2>1, <2>2, <2>3, <2>5, <2>6, <2>7 DEF CarryInv
<1>6. \A s \in Seqs : NoToken(s) => NoToken(s)'
  BY <1>0 DEF NoToken, InDelivery
<1> QED BY <1>4, <1>5, <1>6

\* A call whose object is referred to has a token.
LEMMA HeldToken ==
  /\ \A s, o : Held(s, o) => ~NoToken(s)
  /\ \A s, o : Held(s, o)' => ~NoToken(s)'
  BY DEF Held, NoToken, InDelivery, InEvents

\* A deliverer takes the token of the call s out of the CallSet.
LEMMA Take ==
  ASSUME IInv, NEW s \in Seqs, NEW p \in Deliverers, pending[s] # NoCall, ~Delivering(p),
         pending' = Unpend(s), d' = [d EXCEPT ![p] = [pc |-> "deliver", seq |-> s, o |-> pending[s]]],
         chanEvent' = chanEvent, obj' = obj, asyncs' = asyncs
  PROVE  CarryInv' /\ UniqueInv' /\ \A t \in Seqs : NoToken(t) => NoToken(t)'
<1> DEFINE o == pending[s]
<1>0. CarryInv /\ UniqueInv
  BY DEF IInv
<1>1. /\ pending'[s] = NoCall
      /\ \A t \in Seqs : t # s => pending'[t] = pending[t]
  BY DEF IInv, TypeOK, CallSetOK, Unpend
<1>2. /\ d'[p] = [pc |-> "deliver", seq |-> s, o |-> o]
      /\ d'[p].pc = "deliver" /\ d'[p].seq = s /\ d'[p].o = o
      /\ \A q \in Deliverers : q # p => d'[q] = d[q]
  BY DEF IInv, TypeOK, ActorsOK
<1>3. /\ Delivering(p)'
      /\ \A q \in Deliverers : q # p => (Delivering(q)' <=> Delivering(q))
      /\ \A t : InEvents(t)' <=> InEvents(t)
      /\ \A t, u : Carries(t, u)' <=> Carries(t, u)
  BY <1>2 DEF Delivering, InEvents, Carries
<1>4. /\ \A q \in Deliverers : ~(Delivering(q) /\ d[q].seq = s)
      /\ ~InEvents(s)
      /\ 0 \notin Seqs
  BY <1>0, Fact DEF UniqueInv, InEvents
<1>5. Carries(s, o)
  BY <1>0 DEF CarryInv
<1>6. UniqueInv'
  <2>1. ASSUME NEW q \in Deliverers, Delivering(q)'
        PROVE  pending'[d'[q].seq] = NoCall /\ ~(\E i \in 1..Len(chanEvent) : chanEvent[i][1] = d'[q].seq)
    <3>1. CASE q = p
      BY <3>1, <1>1, <1>2, <1>4 DEF InEvents
    <3>2. CASE q # p
      <4>1. Delivering(q) /\ d'[q] = d[q] /\ d[q].seq \in Seqs
        BY <3>2, <2>1, <1>0, <1>2, <1>3 DEF CarryInv, Carries
      <4> QED BY <4>1, <1>0, <1>1 DEF UniqueInv, InEvents
    <3> QED BY <3>1, <3>2
  <2>2. \A q, r \in Deliverers : Delivering(q)' /\ Delivering(r)' /\ d'[q].seq = d'[r].seq => q = r
    BY <1>0, <1>2, <1>3, <1>4 DEF UniqueInv
  <2>3. \A i \in 1..Len(chanEvent) : chanEvent[i][1] # 0 => pending'[chanEvent[i][1]] = NoCall
    BY <1>0, <1>1 DEF UniqueInv, CarryInv, Carries
  <2>4. \A i, j \in 1..Len(chanEvent) : chanEvent[i][1] # 0 /\ chanEvent[i][1] = chanEvent[j][1] => i = j
    BY <1>0 DEF UniqueInv
  <2> QED BY <2>1, <2>2, <2>3, <2>4 DEF UniqueInv, InEvents
<1>7. CarryInv'
  <2>1. \A t \in Seqs : pending'[t] # NoCall => Carries(t, pending[t])'
    <3> SUFFICES ASSUME NEW t \in Seqs, pending'[t] # NoCall PROVE Carries(t, pending[t])'
      OBVIOUS
    <3>1. pending'[t] = pending[t] /\ Carries(t, pending[t])
      BY <1>0, <1>1 DEF CarryInv
    <3> QED BY <3>1 DEF Carries
  <2>2. \A q \in Deliverers : Delivering(q)' => Carries(d[q].seq, d[q].o)'
    <3> SUFFICES ASSUME NEW q \in Deliverers, Delivering(q)' PROVE Carries(d[q].seq, d[q].o)'
      OBVIOUS
    <3>1. CASE q = p
      BY <3>1, <1>2, <1>5 DEF Carries
    <3>2. CASE q # p
      <4>1. d'[q] = d[q] /\ Carries(d[q].seq, d[q].o)
        BY <3>2, <1>0, <1>2, <1>3 DEF CarryInv
      <4> QED BY <4>1 DEF Carries
    <3> QED BY <3>1, <3>2
  <2>3. \A i \in 1..Len(chanEvent) : chanEvent[i][1] # 0 =>
          chanEvent[i][1] \in asyncs' /\ Carries(chanEvent[i][1], chanEvent[i][2])'
    BY <1>0, <1>3 DEF CarryInv, Carries
  <2>4. \A q \in Deliverers : ~Delivering(q)' => d'[q].o = NoCall
    BY <1>0, <1>2, <1>3 DEF CarryInv
  <2>5. \A q \in Deliverers : d'[q].pc = "send" => d'[q].seq \in asyncs'
    BY <1>0, <1>2 DEF CarryInv
  <2>6. \A i \in 1..Len(chanEvent') : chanEvent'[i][1] = 0 => chanEvent'[i] = OtherEvent
    BY <1>0 DEF CarryInv
  <2> QED BY <2>1, <2>2, <2>3, <2>4, <2>5, <2>6 DEF CarryInv
<1>8. \A t \in Seqs : NoToken(t) => NoToken(t)'
  <2> SUFFICES ASSUME NEW t \in Seqs, NoToken(t) PROVE NoToken(t)'
    OBVIOUS
  <2>1. t # s /\ pending'[t] = NoCall /\ ~InEvents(t)'
    BY <1>1, <1>3 DEF NoToken
  <2>2. \A q \in Deliverers : Delivering(q)' => d'[q].seq # t
    BY <1>2, <1>3, <2>1 DEF NoToken, InDelivery
  <2> QED BY <2>1, <2>2 DEF NoToken, InDelivery
<1> QED BY <1>6, <1>7, <1>8

\* A deliverer passes its token on to the event channel.
LEMMA Send ==
  ASSUME IInv, NEW p \in Deliverers, d[p].pc = "send",
         chanEvent' = Append(chanEvent, <<d[p].seq, d[p].o>>),
         ~Delivering(p)', d'[p].o = NoCall, \A q \in Deliverers : q # p => d'[q] = d[q],
         pending' = pending, obj' = obj, asyncs' = asyncs
  PROVE  CarryInv' /\ UniqueInv' /\ \A t \in Seqs : NoToken(t) => NoToken(t)'
<1> DEFINE s == d[p].seq
           n == Len(chanEvent) + 1
<1>0. CarryInv /\ UniqueInv
  BY DEF IInv
<1>1. /\ Len(chanEvent') = n /\ n \in Nat /\ Len(chanEvent) \in Nat
      /\ 1..n = 1..Len(chanEvent) \cup {n} /\ n \notin 1..Len(chanEvent)
      /\ chanEvent'[n] = <<s, d[p].o>>
      /\ \A i \in 1..Len(chanEvent) : chanEvent'[i] = chanEvent[i]
  BY DEF IInv, TypeOK, ChannelOK
<1>2. /\ chanEvent'[n][1] = s /\ chanEvent'[n][2] = d[p].o
      /\ s \in asyncs /\ Carries(s, d[p].o) /\ s \in Seqs /\ s # 0
  BY <1>0, <1>1, Fact DEF CarryInv, Delivering, Carries
<1>3. /\ \A q \in Deliverers : Delivering(q)' => q # p /\ Delivering(q) /\ d'[q] = d[q]
      /\ \A t : InEvents(t)' => InEvents(t) \/ t = s
      /\ \A t, u : Carries(t, u)' <=> Carries(t, u)
  BY <1>1, <1>2 DEF Delivering, InEvents, Carries
<1>4. /\ \A q \in Deliverers : Delivering(q) /\ d[q].seq = s => q = p
      /\ ~InEvents(s) /\ pending[s] = NoCall /\ InDelivery(s)
  BY <1>0 DEF UniqueInv, Delivering, InDelivery
<1> HIDE DEF n, s
<1>6. UniqueInv'
  <2>1. ASSUME NEW q \in Deliverers, Delivering(q)'
        PROVE  pending'[d'[q].seq] = NoCall /\ ~(\E i \in 1..Len(chanEvent') : chanEvent'[i][1] = d'[q].seq)
    <3>1. q # p /\ Delivering(q) /\ d'[q] = d[q] /\ d[q].seq # s
      BY <2>1, <1>3, <1>4
    <3> QED BY <3>1, <1>0, <1>1, <1>2 DEF UniqueInv, InEvents
  <2>2. \A q, r \in Deliverers : Delivering(q)' /\ Delivering(r)' /\ d'[q].seq = d'[r].seq => q = r
    BY <1>0, <1>3 DEF UniqueInv
  <2>3. \A i \in 1..n : chanEvent'[i][1] # 0 => pending[chanEvent'[i][1]] = NoCall
    BY <1>0, <1>1, <1>2, <1>4 DEF UniqueInv
  <2>4. \A i, j \in 1..n : chanEvent'[i][1] # 0 /\ chanEvent'[i][1] = chanEvent'[j][1] => i = j
    BY <1>0, <1>1, <1>2, <1>4 DEF UniqueInv, InEvents
  <2> QED BY <1>1, <2>1, <2>2, <2>3, <2>4 DEF UniqueInv, InEvents
<1>7. CarryInv'
  <2>1. \A t \in Seqs : pending[t] # NoCall => Carries(t, pending[t])'
    BY <1>0 DEF CarryInv, Carries
  <2>2. \A q \in Deliverers : Delivering(q)' => Carries(d[q].seq, d[q].o)'
    BY <1>0, <1>3 DEF CarryInv, Carries
  <2>3. \A i \in 1..Len(chanEvent') : chanEvent'[i][1] # 0 =>
          chanEvent'[i][1] \in asyncs' /\ Carries(chanEvent[i][1], chanEvent[i][2])'
    <3> SUFFICES ASSUME NEW i \in 1..n, chanEvent'[i][1] # 0
                 PROVE  chanEvent'[i][1] \in asyncs' /\ Carries(chanEvent[i][1], chanEvent[i][2])'
      BY <1>1
    <3>1. CASE i = n
      BY <3>1, <1>2 DEF Carries
    <3>2. CASE i # n
      <4>1. i \in 1..Len(chanEvent) /\ chanEvent'[i] = chanEvent[i]
        BY <3>2, <1>1
      <4>2. chanEvent[i][1] \in asyncs /\ Carries(chanEvent[i][1], chanEvent[i][2])
        BY <4>1, <1>0 DEF CarryInv
      <4> QED BY <4>1, <4>2 DEF Carries
    <3> QED BY <3>1, <3>2
  <2>4. \A q \in Deliverers : ~Delivering(q)' => d'[q].o = NoCall
    BY <1>0 DEF CarryInv, Delivering
  <2>5. \A q \in Deliverers : d'[q].pc = "send" => d'[q].seq \in asyncs'
    BY <1>0 DEF CarryInv, Delivering
  <2>6. \A i \in 1..Len(chanEvent') : chanEvent'[i][1] = 0 => chanEvent'[i] = OtherEvent
    BY <1>0, <1>1, <1>2 DEF CarryInv
  <2> QED BY <2>1, <2>2, <2>3, <2>4, <2>5, <2>6 DEF CarryInv
<1>8. \A t \in Seqs : NoToken(t) => NoToken(t)'
  BY <1>3, <1>4 DEF NoToken, InDelivery
<1> QED BY <1>6, <1>7, <1>8

\* A step of somebody else, for the issuers and their calls.
NetShrinks == requests' \cup responses' \subseteq requests \cup responses
IssuersSame == w' = w /\ obj' = obj /\ plan' = plan
LEMMA IssuersStay ==
  ASSUME IInv, IssuersSame, NetShrinks, asyncs' = asyncs, startSeq' \in Nat, startSeq <= startSeq',
         \A s \in Seqs : NoToken(s) => NoToken(s)'
  PROVE  IssuerInv'
<1> USE DEF IssuersSame, NetShrinks
<1>0. IssuerInv /\ startSeq \in Nat /\ Seqs \subseteq Nat
  BY Fact DEF IInv
<1>1. /\ \A i : Active(i)' <=> Active(i)
      /\ \A s, o : Carries(s, o)' <=> Carries(s, o)
      /\ \A i \in Issuers : Active(i) => w[i].seq \in Seqs
  BY Fact DEF Active, Carries
<1>2. \A i \in Issuers : Active(i)' => w[i].seq \in 1..startSeq'
  BY <1>0, <1>1 DEF IssuerInv
<1>3. \A i \in Issuers : w[i].pc = "add" => NoToken(w[i].seq)'
  <2> SUFFICES ASSUME NEW i \in Issuers, w[i].pc = "add" PROVE NoToken(w[i].seq)'
    OBVIOUS
  <2>1. ASSUME NEW s, s = w[i].seq PROVE NoToken(s)'
    BY <2>1, <1>0, <1>1 DEF IssuerInv, Active
  <2> QED BY <2>1 DEF NoToken, InEvents, InDelivery
<1>4. \A i \in Issuers : w[i].pc \in {"add", "write", "fail"} => w[i].seq \notin requests' \cup responses'
  BY <1>0 DEF IssuerInv
<1>5. w[Svc].pc = "write" => Carries(w[Svc].seq, w[Svc].o)'
  BY <1>0 DEF IssuerInv, Carries
<1> QED BY <1>0, <1>1, <1>2, <1>3, <1>4, <1>5 DEF IssuerInv

LEMMA Bystanders ==
  ASSUME IInv, IssuersSame, NetShrinks, asyncs' = asyncs, ran' = ran, cancelled' = cancelled,
         startSeq' \in Nat, startSeq <= startSeq', \A s \in Seqs : NoToken(s) => NoToken(s)'
  PROVE  IssuerInv' /\ NumberInv' /\ RanInv'
<1>1. NumberInv /\ RanInv /\ startSeq \in Nat /\ Seqs \subseteq Nat /\ \A i : Active(i)' <=> Active(i)
  BY Fact DEF IInv, Active, IssuersSame
<1>2. NumberInv'
  BY <1>1 DEF NumberInv, NetShrinks
<1>3. RanInv'
  BY <1>1 DEF RanInv, IssuersSame
<1> QED BY <1>2, <1>3, IssuersStay

\* The same, when nobody gets hold of an object.
LEMMA AnsweredStays ==
  ASSUME IInv, IssuersSame, NetShrinks, \A s \in Seqs : pending'[s] \in {pending[s], NoCall},
         \A p \in Deliverers : d'[p].o \in {d[p].o, NoCall}
  PROVE  AnsweredInv'
<1> USE DEF IssuersSame, NetShrinks
<1>0. AnsweredInv /\ IssuerInv /\ NoCall \notin Objs
  BY Fact DEF IInv
<1> SUFFICES ASSUME NEW c \in Callers, Answered(c)'
             PROVE  /\ \A p \in Deliverers : d'[p].o = w[c].o => p = Timeout
                    /\ pending'[w[c].seq] # NoCall =>
                         /\ w[c].seq \notin requests' \cup responses'
                         /\ plan.close = {} /\ w[c].pc # "write"
  BY DEF AnsweredInv
<1>1. Answered(c) /\ w[c].o \in Objs /\ w[c].seq \in Seqs
  BY Fact, <1>0 DEF Answered, Active, IssuerInv
<1>2. /\ \A p \in Deliverers : d[p].o = w[c].o => p = Timeout
      /\ pending[w[c].seq] # NoCall =>
           w[c].seq \notin requests \cup responses /\ plan.close = {} /\ w[c].pc # "write"
  BY <1>0, <1>1 DEF AnsweredInv
<1> QED BY <1>0, <1>1, <1>2

\* A write that may fail still finds its call pending.
LEMMA WriteStays ==
  ASSUME IInv, IssuersSame, \A i \in Issuers : Calm(plan) /\ w[i].pc = "write" => pending'[w[i].seq] = pending[w[i].seq]
  PROVE  WriteInv'
  BY DEF IInv, WriteInv, IssuersSame

\* The connections and the plan of a step that does not touch the calls.
LEMMA PlanStays ==
  ASSUME IInv, w' = w, plan' = plan, conn' = conn, \A i \in Issuers : Active(i) => node'[w[i].seq] = node[w[i].seq]
  PROVE  PlanInv'
  BY DEF IInv, PlanInv, Active

-----------------------------------------------------------------------------
(* The network and the other events of the service.                        *)

\* Tokens nobody touches.
TokensSame == pending' = pending /\ d' = d /\ chanEvent' = chanEvent

\* A step that changes at most connections and messages on their way.
LEMMA NetStep ==
  ASSUME IInv, IssuersSame, NetShrinks, TokensSame, UNCHANGED <<asyncs, ran, cancelled, startSeq, lock>>,
         TypeOK', PlanInv'
  PROVE  IInv'
<1>1. CarryInv /\ UniqueInv /\ LockInv
  BY DEF IInv
<1>2. \A s, o : Carries(s, o)' <=> Carries(s, o)
  BY DEF Carries, IssuersSame
<1>3. CarryInv' /\ UniqueInv' /\ \A s \in Seqs : NoToken(s) => NoToken(s)'
  BY <1>1, <1>2, Shrink DEF TokensSame
<1>4. IssuerInv' /\ NumberInv' /\ RanInv'
  BY <1>3, Bystanders, Fact
<1>5. AnsweredInv' /\ WriteInv'
  BY AnsweredStays, WriteStays DEF TokensSame
<1>6. LockInv'
  BY <1>1 DEF LockInv, TokensSame, IssuersSame, Delivering
<1> QED BY <1>3, <1>4, <1>5, <1>6 DEF IInv

LEMMA ReplyStep == ASSUME IInv, NEW s \in Seqs, Reply(s) PROVE IInv'
<1>1. /\ IssuersSame /\ TokensSame /\ NetShrinks /\ conn' = conn /\ node' = node
      /\ UNCHANGED <<asyncs, ran, cancelled, startSeq, lock>>
  BY Frames DEF Reply, IssuersSame, TokensSame, NetShrinks
<1>2. TypeOK'
  BY Frames DEF IInv, Reply, TypeOK, CallSetOK, ActorsOK, ChannelOK, NetOK, CallsOK
<1>3. PlanInv'
  BY <1>1, PlanStays DEF IssuersSame
<1> QED BY <1>1, <1>2, <1>3, NetStep

LEMMA ConnStep ==
  ASSUME IInv, NEW n \in Nodes, Drop(n) \/ NoticeDrop(n) \/ Reconnect(n)
  PROVE  IInv'
<1>1. /\ IssuersSame /\ TokensSame /\ NetShrinks /\ node' = node
      /\ UNCHANGED <<asyncs, ran, cancelled, startSeq, lock>>
  BY Frames DEF Drop, NoticeDrop, Reconnect, IssuersSame, TokensSame, NetShrinks
<1>2. TypeOK'
  <2>1. CallSetOK' /\ ActorsOK' /\ ChannelOK' /\ CallsOK'
    BY Frames DEF IInv, Drop, NoticeDrop, Reconnect, TypeOK, CallSetOK, ActorsOK, ChannelOK, CallsOK
  <2>2. NetOK'
    BY LimitsAssumption DEF IInv, Drop, NoticeDrop, Reconnect, TypeOK, NetOK
  <2> QED BY <2>1, <2>2 DEF TypeOK
<1>3. PlanInv'
  <2>1. \A m \in Nodes : conn'[m] # "up" => m \in plan.drop \cup plan.close
    BY DEF Drop, NoticeDrop, Reconnect, IInv, TypeOK, NetOK, PlanInv
  <2> QED BY <1>1, <2>1 DEF IInv, PlanInv, IssuersSame, Active
<1> QED BY <1>1, <1>2, <1>3, NetStep

LEMMA GoRpcStep == ASSUME IInv, NEW c \in Callers, NEW n \in plan.sync, GoRpc(c, n) PROVE IInv'
<1>1. /\ IssuersSame /\ TokensSame /\ NetShrinks /\ conn' = conn
      /\ UNCHANGED <<asyncs, ran, cancelled, lock>> /\ startSeq' = startSeq + 1 /\ startSeq < MaxCalls
      /\ node' = [node EXCEPT ![startSeq + 1] = n]
  BY Frames DEF GoRpc, IssuersSame, TokensSame, NetShrinks, generateSeq
<1>2. TypeOK'
  <2>1. /\ ActorsOK' /\ ChannelOK' /\ NetOK' /\ startSeq' \in 0..MaxCalls
        /\ UNCHANGED <<timers, lock, cancelled, ran, asyncs>>
    BY <1>1, Fact, Frames
    DEF IInv, GoRpc, TypeOK, ActorsOK, ChannelOK, NetOK, IssuersSame, TokensSame
  <2>2. CallSetOK'
    BY <1>1, <2>1 DEF IInv, TypeOK, CallSetOK, TokensSame
  <2>3. n \in Nodes
    BY NodesAssumption DEF IInv, PlanInv
  <2>4. CallsOK'
    BY <1>1, <2>1, <2>3 DEF IInv, TypeOK, CallsOK
  <2> QED BY <2>1, <2>2, <2>4 DEF TypeOK
<1>3. PlanInv'
  <2>1. \A i \in Issuers : Active(i) => w[i].seq \in 1..startSeq /\ w[i].seq \in Seqs
    BY Fact DEF IInv, IssuerInv
  <2>2. \A i \in Issuers : Active(i) => node'[w[i].seq] = node[w[i].seq]
    BY <1>1, <2>1, Fact DEF IInv, TypeOK, CallsOK
  <2> QED BY <1>1, <2>2, PlanStays DEF IssuersSame
<1>4. CarryInv /\ UniqueInv /\ LockInv
  BY DEF IInv
<1>5. \A s, o : Carries(s, o)' <=> Carries(s, o)
  BY <1>1 DEF Carries, IssuersSame
<1>6. CarryInv' /\ UniqueInv' /\ \A s \in Seqs : NoToken(s) => NoToken(s)'
  BY <1>1, <1>4, <1>5, Shrink DEF TokensSame
<1>7. startSeq' \in Nat /\ startSeq <= startSeq'
  BY <1>1, Fact
<1>8. IssuerInv' /\ NumberInv' /\ RanInv'
  BY <1>1, <1>6, <1>7, Bystanders
<1>9. AnsweredInv' /\ WriteInv'
  BY <1>1, AnsweredStays, WriteStays DEF TokensSame
<1>10. LockInv'
  BY <1>1, <1>4 DEF LockInv, TokensSame, IssuersSame, Delivering
<1> QED BY <1>2, <1>3, <1>6, <1>8, <1>9, <1>10 DEF IInv

LEMMA PushOtherStep == ASSUME IInv, PushOther PROVE IInv'
<1>1. /\ IssuersSame /\ NetShrinks /\ conn' = conn /\ node' = node
      /\ pending' = pending /\ d' = d
      /\ UNCHANGED <<asyncs, ran, cancelled, startSeq, lock>>
      /\ chanEvent' = Append(chanEvent, OtherEvent)
  BY Frames DEF PushOther, IssuersSame, NetShrinks
<1> DEFINE n == Len(chanEvent) + 1
<1>2. /\ Len(chanEvent') = n /\ n \in Nat /\ Len(chanEvent) \in Nat
      /\ 1..n = 1..Len(chanEvent) \cup {n}
      /\ chanEvent'[n] = OtherEvent /\ OtherEvent[1] = 0
      /\ \A i \in 1..Len(chanEvent) : chanEvent'[i] = chanEvent[i]
  BY <1>1 DEF IInv, TypeOK, ChannelOK, OtherEvent
<1>3. TypeOK'
  <2>1. CallSetOK' /\ ActorsOK' /\ NetOK' /\ CallsOK'
    BY Frames DEF IInv, PushOther, TypeOK, CallSetOK, ActorsOK, NetOK, CallsOK
  <2>2. OtherEvent \in (0..MaxCalls) \X (Objs \cup {NoCall})
    BY Fact DEF OtherEvent
  <2>3. chanEvent' \in Seq((0..MaxCalls) \X (Objs \cup {NoCall}))
    BY <1>1, <2>2, AppendProperties DEF IInv, TypeOK, ChannelOK
  <2>4. plan.events \in Nat /\ plan' = plan /\ Len(chanEvent) < plan.events
    BY <1>1, NodesAssumption DEF IInv, PlanInv, IssuersSame, PushOther
  <2>5. others' \in 0..MaxOther
    BY LimitsAssumption DEF PushOther, IInv, TypeOK, ChannelOK
  <2> QED BY <1>2, <2>1, <2>3, <2>4, <2>5 DEF TypeOK, ChannelOK
<1>4. PlanInv' /\ LockInv'
  BY <1>1, PlanStays DEF IssuersSame, IInv, LockInv, Delivering
<1>5. /\ \A q : Delivering(q)' <=> Delivering(q)
      /\ \A t, u : Carries(t, u)' <=> Carries(t, u)
      /\ \A t \in Seqs : InEvents(t)' <=> InEvents(t)
      /\ CarryInv /\ UniqueInv /\ 0 \notin Seqs
  BY <1>1, <1>2, Fact DEF Delivering, InEvents, Carries, IInv, IssuersSame
<1> HIDE DEF n
<1>6. UniqueInv'
  <2>1. ASSUME NEW q \in Deliverers, Delivering(q)
        PROVE  pending[d[q].seq] = NoCall /\ ~(\E i \in 1..Len(chanEvent') : chanEvent'[i][1] = d[q].seq)
    <3>1. d[q].seq \in Seqs
      BY <1>5, <2>1 DEF CarryInv, Carries
    <3> QED BY <3>1, <2>1, <1>2, <1>5 DEF UniqueInv, InEvents
  <2>2. \A i \in 1..n : chanEvent'[i][1] # 0 => pending[chanEvent'[i][1]] = NoCall
    BY <1>2, <1>5 DEF UniqueInv
  <2>3. \A i, j \in 1..n : chanEvent'[i][1] # 0 /\ chanEvent'[i][1] = chanEvent'[j][1] => i = j
    BY <1>2, <1>5 DEF UniqueInv
  <2>4. \A q, r \in Deliverers : Delivering(q)' /\ Delivering(r)' /\ d'[q].seq = d'[r].seq => q = r
    BY <1>1, <1>5 DEF UniqueInv
  <2> QED BY <1>1, <1>2, <1>5, <2>1, <2>2, <2>3, <2>4 DEF UniqueInv, InEvents
<1>7. CarryInv'
  <2>1. \A t \in Seqs : pending[t] # NoCall => Carries(t, pending[t])'
    BY <1>1, <1>5 DEF CarryInv, Carries, IssuersSame
  <2>2. \A q \in Deliverers : Delivering(q)' => Carries(d[q].seq, d[q].o)'
    BY <1>1, <1>5 DEF CarryInv, Carries, IssuersSame
  <2>3. \A i \in 1..Len(chanEvent') : chanEvent'[i][1] # 0 =>
          chanEvent'[i][1] \in asyncs' /\ Carries(chanEvent[i][1], chanEvent[i][2])'
    <3> SUFFICES ASSUME NEW i \in 1..n, chanEvent'[i][1] # 0
                 PROVE  chanEvent'[i][1] \in asyncs' /\ Carries(chanEvent[i][1], chanEvent[i][2])'
      BY <1>2
    <3>1. i \in 1..Len(chanEvent) /\ chanEvent'[i] = chanEvent[i]
      BY <1>2
    <3>2. chanEvent[i][1] \in asyncs /\ Carries(chanEvent[i][1], chanEvent[i][2])
      BY <3>1, <1>5 DEF CarryInv
    <3> QED BY <1>1, <3>1, <3>2 DEF Carries, IssuersSame
  <2>4. \A i \in 1..Len(chanEvent') : chanEvent'[i][1] = 0 => chanEvent'[i] = OtherEvent
    BY <1>2, <1>5 DEF CarryInv
  <2> QED BY <1>1, <1>5, <2>1, <2>2, <2>3, <2>4 DEF CarryInv
<1>8. \A s \in Seqs : NoToken(s) => NoToken(s)'
  BY <1>1, <1>5 DEF NoToken, InDelivery
<1>9. IssuerInv' /\ NumberInv' /\ RanInv'
  BY <1>1, <1>8, Bystanders, Fact
<1>10. AnsweredInv' /\ WriteInv'
  BY <1>1, AnsweredStays, WriteStays
<1> QED BY <1>3, <1>4, <1>6, <1>7, <1>9, <1>10 DEF IInv

-----------------------------------------------------------------------------
(* The goroutines that complete calls.                                     *)

\* A deliverer takes a call out of the CallSet; what is left to show is that
\* neither its issuer is about to give it up nor its caller was answered.
LEMMA TakeStep ==
  ASSUME IInv, NEW s \in Seqs, NEW p \in Deliverers, pending[s] # NoCall, ~Delivering(p),
         pending' = Unpend(s), d' = [d EXCEPT ![p] = [pc |-> "deliver", seq |-> s, o |-> pending[s]]],
         UNCHANGED <<chanEvent, startSeq, asyncs, ran, cancelled, node, conn>>, IssuersSame, NetShrinks,
         TypeOK', LockInv',
         p # Timeout => s \in responses \/ plan.close # {},
         Calm(plan) => s \in responses \/ ~BeingWritten(s)
  PROVE  IInv'
<1>1. CarryInv' /\ UniqueInv' /\ \A t \in Seqs : NoToken(t) => NoToken(t)'
  BY Take DEF IssuersSame
<1>2. IssuerInv' /\ NumberInv' /\ RanInv'
  BY <1>1, Bystanders, Fact
<1>3. PlanInv'
  BY PlanStays DEF IssuersSame
<1>4. /\ pending'[s] = NoCall
      /\ \A t \in Seqs : t # s => pending'[t] = pending[t]
  BY DEF IInv, TypeOK, CallSetOK, Unpend
<1>5. /\ d'[p].o = pending[s]
      /\ \A q \in Deliverers : q # p => d'[q] = d[q]
  BY DEF IInv, TypeOK, ActorsOK
<1>6. WriteInv'
  <2> SUFFICES ASSUME NEW i \in Issuers, Calm(plan), w[i].pc = "write"
               PROVE  pending'[w[i].seq] = pending[w[i].seq]
    BY WriteStays
  <2>1. w[i].seq \in Seqs /\ w[i].seq \notin responses
    BY Fact DEF IInv, IssuerInv, Active
  <2>2. w[i].seq # s
    BY <2>1 DEF BeingWritten
  <2> QED BY <1>4, <2>1, <2>2
<1>7. AnsweredInv'
  <2>0. AnsweredInv /\ IssuerInv /\ CarryInv /\ NoCall \notin Objs
    BY Fact DEF IInv
  <2> SUFFICES ASSUME NEW c \in Callers, Answered(c)'
               PROVE  /\ \A q \in Deliverers : d'[q].o = w[c].o => q = Timeout
                      /\ pending'[w[c].seq] # NoCall =>
                           /\ w[c].seq \notin requests' \cup responses'
                           /\ plan.close = {} /\ w[c].pc # "write"
    BY DEF AnsweredInv, IssuersSame
  <2>1. Answered(c) /\ w[c].o \in Objs /\ w[c].seq \in Seqs
    BY Fact, <2>0 DEF Answered, Active, IssuerInv, IssuersSame
  <2>2. /\ \A q \in Deliverers : d[q].o = w[c].o => q = Timeout
        /\ pending[w[c].seq] # NoCall =>
             w[c].seq \notin requests \cup responses /\ plan.close = {} /\ w[c].pc # "write"
    BY <2>0, <2>1 DEF AnsweredInv
  <2>3. pending[s] = w[c].o => w[c].seq = s
    <3>1. Carries(s, pending[s])
      BY <2>0 DEF CarryInv
    <3>2. obj[w[c].o].seq \in {0, w[c].seq} /\ 0 \notin Seqs
      BY <2>0, <2>1, Fact DEF IssuerInv, Answered
    <3> QED BY <3>1, <3>2 DEF Carries
  <2>4. pending[s] = w[c].o => p = Timeout
    BY <2>2, <2>3
  <2> QED BY <1>4, <1>5, <2>1, <2>2, <2>4 DEF NetShrinks
<1> QED BY <1>1, <1>2, <1>3, <1>6, <1>7 DEF IInv

\* The types of a call that is taken.
LEMMA TakeTypes ==
  ASSUME IInv, NEW s \in Seqs, NEW p \in Deliverers,
         pending' = Unpend(s), d' = [d EXCEPT ![p] = [pc |-> "deliver", seq |-> s, o |-> pending[s]]],
         timers' = CancelTimer(s), lock' \in {"free", Timeout, Closer},
         UNCHANGED <<startSeq, obj, w>>
  PROVE  CallSetOK' /\ ActorsOK'
<1>1. /\ pending \in [Seqs -> Objs \cup {NoCall}] /\ timers \subseteq Seqs /\ startSeq \in 0..MaxCalls
      /\ d \in [Deliverers -> Completing]
      /\ obj \in [Objs -> Fields] /\ w \in [Issuers -> Issuing]
  BY DEF IInv, TypeOK, CallSetOK, ActorsOK
<1>2. [pc |-> "deliver", seq |-> s, o |-> pending[s]] \in Completing
  BY <1>1 DEF Completing, Seqs
<1>3. d' \in [Deliverers -> Completing]
  BY <1>1, <1>2
<1>4. pending' \in [Seqs -> Objs \cup {NoCall}] /\ timers' \subseteq Seqs
  BY <1>1 DEF Unpend, CancelTimer
<1> QED BY <1>1, <1>3, <1>4 DEF CallSetOK, ActorsOK

\* A response nobody waits for, a timer of a call that is gone.
LEMMA ForgetStep ==
  ASSUME IInv, IssuersSame, NetShrinks, TokensSame, timers' \subseteq timers,
         UNCHANGED <<asyncs, ran, cancelled, startSeq, lock, node, conn, closed, requests, drops, others>>,
         responses' \subseteq responses
  PROVE  IInv'
<1>1. TypeOK'
  BY DEF IInv, IssuersSame, TokensSame, TypeOK, CallSetOK, ActorsOK, ChannelOK, NetOK, CallsOK
<1>2. PlanInv'
  BY PlanStays DEF IssuersSame
<1> QED BY <1>1, <1>2, NetStep

LEMMA ReceiveStep == ASSUME IInv, NEW n \in Nodes, NEW s \in Seqs, Receive(n, s) PROVE IInv'
<1>1. /\ IssuersSame /\ NetShrinks /\ chanEvent' = chanEvent
      /\ UNCHANGED <<asyncs, ran, cancelled, startSeq, lock, node, conn, closed, requests, drops, others>>
      /\ responses' \subseteq responses /\ s \in responses /\ s # 0 /\ d[n].pc = "idle"
  BY Frames, Fact DEF Receive, IssuersSame, NetShrinks
<1>2. CASE pending[s] = NoCall
  <2>1. TokensSame /\ timers' = timers
    BY <1>1, <1>2 DEF Receive, RemovePending, TokensSame
  <2> QED BY <1>1, <2>1, ForgetStep
<1>3. CASE pending[s] # NoCall
  <2>1. /\ pending' = Unpend(s) /\ timers' = CancelTimer(s)
        /\ d' = [d EXCEPT ![n] = [pc |-> "deliver", seq |-> s, o |-> pending[s]]]
        /\ n \in Deliverers /\ n # Timeout /\ n # Closer /\ ~Delivering(n)
    BY <1>1, <1>3, Fact DEF Receive, RemovePending, Delivering
  <2>2. lock' \in {"free", Timeout, Closer}
    BY <1>1 DEF IInv, TypeOK, CallSetOK
  <2>3. CallSetOK' /\ ActorsOK'
    BY <1>1, <2>1, <2>2, TakeTypes DEF IssuersSame
  <2>4. ChannelOK' /\ NetOK' /\ CallsOK'
    BY <1>1 DEF IInv, TypeOK, ChannelOK, NetOK, CallsOK, IssuersSame
  <2>5. TypeOK'
    BY <2>3, <2>4 DEF TypeOK
  <2>6. /\ \A q \in Deliverers : q # n => d'[q] = d[q]
        /\ d'[n].pc = "deliver"
    BY <2>1 DEF IInv, TypeOK, ActorsOK
  <2>7. LockInv'
    BY <1>1, <2>1, <2>6, Fact DEF IInv, LockInv, Delivering, IssuersSame
  <2> QED BY <1>1, <1>3, <2>1, <2>5, <2>7, TakeStep
<1> QED BY <1>2, <1>3

LEMMA ExpireStep == ASSUME IInv, NEW s \in Seqs, Expire(s) PROVE IInv'
<1>1. /\ IssuersSame /\ NetShrinks /\ chanEvent' = chanEvent /\ responses' = responses
      /\ UNCHANGED <<asyncs, ran, cancelled, startSeq, node, conn, closed, requests, drops, others>>
      /\ timers' = CancelTimer(s) /\ d[Timeout].pc = "idle" /\ lock = "free"
      /\ Calm(plan) => ~BeingWritten(s)
  BY Frames DEF Expire, IssuersSame, NetShrinks, Calm
<1>2. CASE pending[s] = NoCall
  <2>1. TokensSame /\ timers' \subseteq timers /\ lock' = lock
    BY <1>1, <1>2 DEF Expire, CancelTimer, TokensSame
  <2> QED BY <1>1, <2>1, ForgetStep
<1>3. CASE pending[s] # NoCall
  <2>1. /\ pending' = Unpend(s) /\ lock' = Timeout
        /\ d' = [d EXCEPT ![Timeout] = [pc |-> "deliver", seq |-> s, o |-> pending[s]]]
        /\ Timeout \in Deliverers /\ ~Delivering(Timeout)
    BY <1>1, <1>3, Fact DEF Expire, Delivering
  <2>3. CallSetOK' /\ ActorsOK'
    BY <1>1, <2>1, TakeTypes DEF IssuersSame
  <2>4. ChannelOK' /\ NetOK' /\ CallsOK'
    BY <1>1 DEF IInv, TypeOK, ChannelOK, NetOK, CallsOK, IssuersSame
  <2>5. TypeOK'
    BY <2>3, <2>4 DEF TypeOK
  <2>6. /\ \A q \in Deliverers : q # Timeout => d'[q] = d[q]
        /\ d'[Timeout].pc = "deliver"
    BY <2>1 DEF IInv, TypeOK, ActorsOK
  <2>7. lock # Closer
    BY <1>1 DEF Closer
  <2>8. LockInv'
    BY <1>1, <2>1, <2>6, <2>7, Fact DEF IInv, LockInv, Delivering, IssuersSame
  <2> QED BY <1>1, <1>3, <2>1, <2>5, <2>8, TakeStep
<1> QED BY <1>2, <1>3

LEMMA CleanNextStep == ASSUME IInv, NEW s \in Seqs, CleanNext(s) PROVE IInv'
<1>1. /\ IssuersSame /\ NetShrinks /\ chanEvent' = chanEvent /\ responses' = responses
      /\ UNCHANGED <<asyncs, ran, cancelled, startSeq, lock, node, conn, closed, requests, drops, others>>
      /\ timers' = CancelTimer(s) /\ d[Closer].pc = "clean"
  BY Frames DEF CleanNext, IssuersSame, NetShrinks
<1>2. CASE pending[s] = NoCall
  <2>1. TokensSame /\ timers' \subseteq timers
    BY <1>1, <1>2 DEF CleanNext, CancelTimer, TokensSame
  <2> QED BY <1>1, <2>1, ForgetStep
<1>3. CASE pending[s] # NoCall
  <2>1. /\ pending' = Unpend(s)
        /\ d' = [d EXCEPT ![Closer] = [pc |-> "deliver", seq |-> s, o |-> pending[s]]]
        /\ Closer \in Deliverers /\ ~Delivering(Closer)
    BY <1>1, <1>3, Fact DEF CleanNext, Delivering
  <2>2. lock' \in {"free", Timeout, Closer} /\ plan.close # {}
    BY <1>1 DEF IInv, TypeOK, CallSetOK, LockInv
  <2>3. CallSetOK' /\ ActorsOK'
    BY <1>1, <2>1, <2>2, TakeTypes DEF IssuersSame
  <2>4. ChannelOK' /\ NetOK' /\ CallsOK'
    BY <1>1 DEF IInv, TypeOK, ChannelOK, NetOK, CallsOK, IssuersSame
  <2>5. TypeOK'
    BY <2>3, <2>4 DEF TypeOK
  <2>6. /\ \A q \in Deliverers : q # Closer => d'[q] = d[q]
        /\ d'[Closer].pc = "deliver"
    BY <2>1 DEF IInv, TypeOK, ActorsOK
  <2>7. LockInv'
    BY <1>1, <2>2, <2>6, Fact DEF IInv, LockInv, Delivering, IssuersSame
  <2>8. ~Calm(plan)
    BY <2>2 DEF Calm
  <2> QED BY <1>1, <1>3, <2>1, <2>2, <2>5, <2>7, <2>8, TakeStep
<1> QED BY <1>2, <1>3

\* A step that at most ends a completion.
LEMMA QuietStep ==
  ASSUME IInv, IssuersSame, NetShrinks, pending' = pending, chanEvent' = chanEvent,
         UNCHANGED <<asyncs, ran, cancelled, startSeq, node>>, TypeOK', LockInv', PlanInv',
         \A p \in Deliverers : d'[p] = d[p] \/ (~Delivering(p)' /\ d'[p].o = NoCall)
  PROVE  IInv'
<1>1. CarryInv /\ UniqueInv
  BY DEF IInv
<1>2. \A s, o : Carries(s, o)' <=> Carries(s, o)
  BY DEF Carries, IssuersSame
<1>3. CarryInv' /\ UniqueInv' /\ \A s \in Seqs : NoToken(s) => NoToken(s)'
  BY <1>1, <1>2, Shrink
<1>4. IssuerInv' /\ NumberInv' /\ RanInv'
  BY <1>3, Bystanders, Fact
<1>5. AnsweredInv' /\ WriteInv'
  BY AnsweredStays, WriteStays
<1> QED BY <1>3, <1>4, <1>5 DEF IInv

LEMMA CloseStep == ASSUME IInv, NEW n \in Nodes, Close(n) PROVE IInv'
<1>1. /\ IssuersSame /\ NetShrinks /\ pending' = pending /\ chanEvent' = chanEvent
      /\ UNCHANGED <<asyncs, ran, cancelled, startSeq, node, lock, timers, others, requests, responses, drops>>
      /\ n \in plan.close /\ d[Closer].pc = "idle"
      /\ d' = [d EXCEPT ![Closer].pc = "lock"]
  BY Frames DEF Close, IssuersSame, NetShrinks
<1>2. /\ \A p \in Deliverers : p # Closer => d'[p] = d[p]
      /\ d'[Closer].pc = "lock" /\ d'[Closer].o = d[Closer].o
      /\ d' \in [Deliverers -> Completing]
  BY <1>1, Fact DEF IInv, TypeOK, ActorsOK, Completing
<1>3. ~Delivering(Closer)' /\ d'[Closer].o = NoCall
  BY <1>1, <1>2, Fact DEF Delivering, IInv, CarryInv
<1>4. NetOK'
  BY <1>1 DEF Close, IInv, TypeOK, NetOK
<1>5. TypeOK'
  BY <1>1, <1>2, <1>4 DEF IInv, TypeOK, CallSetOK, ActorsOK, ChannelOK, CallsOK, IssuersSame
<1>6. \A m \in Nodes : conn'[m] # "up" => m \in plan.drop \cup plan.close
  BY DEF Close, IInv, TypeOK, NetOK, PlanInv
<1>7. PlanInv'
  BY <1>1, <1>6 DEF IInv, PlanInv, IssuersSame, Active
<1>8. LockInv'
  BY <1>1, <1>2, Fact DEF IInv, LockInv, Delivering, IssuersSame
<1> QED BY <1>1, <1>2, <1>3, <1>5, <1>7, <1>8, QuietStep

LEMMA CleanLockStep == ASSUME IInv, CleanLock PROVE IInv'
<1>1. /\ IssuersSame /\ NetShrinks /\ pending' = pending /\ chanEvent' = chanEvent
      /\ UNCHANGED <<asyncs, ran, cancelled, startSeq, node, timers, others>> /\ UNCHANGED netVars
      /\ lock = "free" /\ lock' = Closer /\ d[Closer].pc = "lock"
      /\ d' = [d EXCEPT ![Closer].pc = "clean"]
  BY Frames DEF CleanLock, IssuersSame, NetShrinks
<1>2. /\ \A p \in Deliverers : p # Closer => d'[p] = d[p]
      /\ d'[Closer].pc = "clean" /\ d'[Closer].o = d[Closer].o
      /\ d' \in [Deliverers -> Completing]
  BY <1>1, Fact DEF IInv, TypeOK, ActorsOK, Completing
<1>3. ~Delivering(Closer)' /\ d'[Closer].o = NoCall
  BY <1>1, <1>2, Fact DEF Delivering, IInv, CarryInv
<1>4. TypeOK'
  BY <1>1, <1>2, Frames DEF IInv, TypeOK, CallSetOK, ActorsOK, ChannelOK, NetOK, CallsOK, IssuersSame
<1>5. PlanInv'
  BY <1>1, PlanStays, Frames DEF IssuersSame
<1>6. lock # Timeout
  BY <1>1 DEF Timeout
<1>7. LockInv'
  BY <1>1, <1>2, <1>6, Fact DEF IInv, LockInv, Delivering, IssuersSame
<1> QED BY <1>1, <1>2, <1>3, <1>4, <1>5, <1>7, QuietStep

LEMMA CleanEndStep == ASSUME IInv, CleanEnd PROVE IInv'
<1>1. /\ IssuersSame /\ NetShrinks /\ pending' = pending /\ chanEvent' = chanEvent
      /\ UNCHANGED <<asyncs, ran, cancelled, startSeq, node, timers, others>> /\ UNCHANGED netVars
      /\ lock' = "free" /\ d[Closer].pc = "clean"
      /\ d' = [d EXCEPT ![Closer] = Idle]
  BY Frames DEF CleanEnd, IssuersSame, NetShrinks
<1>2. /\ \A p \in Deliverers : p # Closer => d'[p] = d[p]
      /\ d'[Closer].pc = "idle" /\ d'[Closer].o = NoCall
      /\ d' \in [Deliverers -> Completing]
  BY <1>1, Fact DEF IInv, TypeOK, ActorsOK, Completing, Idle
<1>3. ~Delivering(Closer)'
  BY <1>2 DEF Delivering
<1>4. TypeOK'
  BY <1>1, <1>2, Frames DEF IInv, TypeOK, CallSetOK, ActorsOK, ChannelOK, NetOK, CallsOK, IssuersSame
<1>5. PlanInv'
  BY <1>1, PlanStays, Frames DEF IssuersSame
<1>6. lock # Timeout
  BY <1>1, Fact DEF IInv, LockInv
<1>7. LockInv'
  BY <1>1, <1>2, <1>6, Fact DEF IInv, LockInv, Delivering, IssuersSame
<1> QED BY <1>1, <1>2, <1>3, <1>4, <1>5, <1>7, QuietStep

\* A completion ends.
LEMMA DeliveredEffect ==
  ASSUME IInv, NEW p \in Deliverers, Delivering(p), Delivered(p), plan' = plan
  PROVE  /\ ~Delivering(p)' /\ d'[p].o = NoCall
         /\ \A q \in Deliverers : q # p => d'[q] = d[q]
         /\ d' \in [Deliverers -> Completing]
         /\ lock' \in {"free", Timeout, Closer}
         /\ LockInv'
<1>1. /\ d \in [Deliverers -> Completing] /\ lock \in {"free", Timeout, Closer}
      /\ Idle \in Completing /\ [Idle EXCEPT !.pc = "clean"] \in Completing
      /\ Idle.pc = "idle" /\ Idle.o = NoCall
      /\ [Idle EXCEPT !.pc = "clean"].pc = "clean" /\ [Idle EXCEPT !.pc = "clean"].o = NoCall
  BY Fact DEF IInv, TypeOK, CallSetOK, ActorsOK, Completing, Idle
<1>2. /\ d' \in [Deliverers -> Completing]
      /\ \A q \in Deliverers : q # p => d'[q] = d[q]
      /\ p = Closer => d'[p] = [Idle EXCEPT !.pc = "clean"]
      /\ p # Closer => d'[p] = Idle
      /\ lock' = IF p = Timeout THEN "free" ELSE lock
  BY <1>1 DEF Delivered
<1>3. d'[p].o = NoCall /\ d'[p].pc = IF p = Closer THEN "clean" ELSE "idle"
  BY <1>1, <1>2
<1>4. ~Delivering(p)'
  BY <1>3 DEF Delivering
<1>5. LockInv'
  BY <1>2, <1>3, <1>4, Fact DEF IInv, LockInv, Delivering
<1> QED BY <1>1, <1>2, <1>3, <1>4, <1>5

LEMMA PushSendStep == ASSUME IInv, NEW p \in Deliverers, PushSend(p) PROVE IInv'
<1>1. /\ IssuersSame /\ NetShrinks /\ pending' = pending
      /\ UNCHANGED <<asyncs, ran, cancelled, startSeq, node, timers, others>> /\ UNCHANGED netVars
      /\ d[p].pc = "send" /\ Delivered(p) /\ Delivering(p)
      /\ chanEvent' = Append(chanEvent, <<d[p].seq, d[p].o>>) /\ Len(chanEvent) < plan.events
  BY Frames DEF PushSend, IssuersSame, NetShrinks, Delivering
<1>2. /\ ~Delivering(p)' /\ d'[p].o = NoCall
      /\ \A q \in Deliverers : q # p => d'[q] = d[q]
      /\ d' \in [Deliverers -> Completing]
      /\ lock' \in {"free", Timeout, Closer}
      /\ LockInv'
  BY <1>1, DeliveredEffect DEF IssuersSame
<1>3. ChannelOK'
  <2>1. <<d[p].seq, d[p].o>> \in (0..MaxCalls) \X (Objs \cup {NoCall})
    BY Fact
  <2>2. /\ chanEvent' \in Seq((0..MaxCalls) \X (Objs \cup {NoCall}))
        /\ Len(chanEvent') = Len(chanEvent) + 1 /\ Len(chanEvent) \in Nat
    BY <1>1, <2>1, AppendProperties DEF IInv, TypeOK, ChannelOK
  <2>3. plan.events \in Nat /\ plan' = plan
    BY <1>1, NodesAssumption DEF IInv, PlanInv, IssuersSame
  <2> QED BY <1>1, <2>2, <2>3 DEF ChannelOK, IInv, TypeOK
<1>4. TypeOK'
  BY <1>1, <1>2, <1>3, Frames DEF IInv, TypeOK, CallSetOK, ActorsOK, NetOK, CallsOK, IssuersSame
<1>5. PlanInv'
  BY <1>1, PlanStays, Frames DEF IssuersSame
<1>6. CarryInv' /\ UniqueInv' /\ \A t \in Seqs : NoToken(t) => NoToken(t)'
  BY <1>1, <1>2, Send DEF IssuersSame
<1>7. IssuerInv' /\ NumberInv' /\ RanInv'
  BY <1>1, <1>6, Bystanders, Fact
<1>8. AnsweredInv' /\ WriteInv'
  BY <1>1, <1>2, AnsweredStays, WriteStays
<1> QED BY <1>2, <1>4, <1>5, <1>6, <1>7, <1>8 DEF IInv

LEMMA PushCheckStep == ASSUME IInv, NEW p \in Deliverers, PushCheck(p) PROVE IInv'
<1>1. /\ IssuersSame /\ NetShrinks /\ pending' = pending /\ chanEvent' = chanEvent
      /\ UNCHANGED <<asyncs, ran, cancelled, startSeq, node, timers, others>> /\ UNCHANGED netVars
      /\ d[p].pc = "deliver" /\ Delivering(p) /\ obj[d[p].o].cb # 0
  BY Frames DEF PushCheck, IssuersSame, NetShrinks, Delivering
<1>2. PlanInv'
  BY <1>1, PlanStays, Frames DEF IssuersSame
<1>3. CASE Len(chanEvent) >= plan.events
  <2>1. Delivered(p)
    BY <1>3 DEF PushCheck
  <2>2. /\ ~Delivering(p)' /\ d'[p].o = NoCall
        /\ \A q \in Deliverers : q # p => d'[q] = d[q]
        /\ d' \in [Deliverers -> Completing]
        /\ lock' \in {"free", Timeout, Closer}
        /\ LockInv'
    BY <1>1, <2>1, DeliveredEffect DEF IssuersSame
  <2>3. TypeOK'
    BY <1>1, <2>2, Frames DEF IInv, TypeOK, CallSetOK, ActorsOK, ChannelOK, NetOK, CallsOK, IssuersSame
  <2> QED BY <1>1, <1>2, <2>2, <2>3, QuietStep
<1>4. CASE ~(Len(chanEvent) >= plan.events)
  <2>1. d' = [d EXCEPT ![p].pc = "send"] /\ lock' = lock
    BY <1>4 DEF PushCheck
  <2>2. /\ \A q \in Deliverers : q # p => d'[q] = d[q]
        /\ d'[p].pc = "send" /\ d'[p].seq = d[p].seq /\ d'[p].o = d[p].o
        /\ d' \in [Deliverers -> Completing]
    BY <2>1 DEF IInv, TypeOK, ActorsOK, Completing
  <2>3. TypeOK'
    BY <1>1, <2>1, <2>2, Frames DEF IInv, TypeOK, CallSetOK, ActorsOK, ChannelOK, NetOK, CallsOK, IssuersSame
  <2>4. LockInv'
    BY <1>1, <2>1, <2>2, Fact DEF IInv, LockInv, Delivering, IssuersSame
  <2>5. /\ \A q \in Deliverers : /\ Delivering(q)' <=> Delivering(q)
                                 /\ d'[q].seq = d[q].seq /\ d'[q].o = d[q].o
        /\ \A t, u : Carries(t, u)' <=> Carries(t, u)
        /\ \A t : InEvents(t)' <=> InEvents(t)
        /\ CarryInv /\ UniqueInv
    BY <1>1, <2>2 DEF Delivering, Carries, InEvents, IInv, IssuersSame
  <2>6. CarryInv'
    <3>1. \A t \in Seqs : pending[t] # NoCall => Carries(t, pending[t])'
      BY <1>1, <2>5 DEF CarryInv, Carries, IssuersSame
    <3>2. \A q \in Deliverers : Delivering(q)' => Carries(d[q].seq, d[q].o)'
      BY <1>1, <2>5 DEF CarryInv, Carries, IssuersSame
    <3>3. \A i \in 1..Len(chanEvent) : chanEvent[i][1] # 0 =>
            chanEvent[i][1] \in asyncs' /\ Carries(chanEvent[i][1], chanEvent[i][2])'
      BY <1>1, <2>5 DEF CarryInv, Carries, IssuersSame
    <3>4. d[p].seq \in asyncs
      BY <1>1, <2>5 DEF CarryInv, Carries
    <3>5. \A q \in Deliverers : d'[q].pc = "send" => d'[q].seq \in asyncs'
      BY <1>1, <2>2, <2>5, <3>4 DEF CarryInv
    <3>6. \A q \in Deliverers : ~Delivering(q)' => d'[q].o = NoCall
      BY <2>5 DEF CarryInv
    <3>7. \A i \in 1..Len(chanEvent') : chanEvent'[i][1] = 0 => chanEvent'[i] = OtherEvent
      BY <1>1, <2>5 DEF CarryInv
    <3> QED BY <1>1, <3>1, <3>2, <3>3, <3>5, <3>6, <3>7 DEF CarryInv
  <2>7. UniqueInv'
    <3>1. \A q \in Deliverers : Delivering(q)' =>
            pending'[d'[q].seq] = NoCall /\ ~(\E i \in 1..Len(chanEvent') : chanEvent'[i][1] = d'[q].seq)
      BY <1>1, <2>5 DEF UniqueInv, InEvents
    <3>2. \A q, r \in Deliverers : Delivering(q)' /\ Delivering(r)' /\ d'[q].seq = d'[r].seq => q = r
      BY <2>5 DEF UniqueInv
    <3> QED BY <1>1, <2>5, <3>1, <3>2 DEF UniqueInv, InEvents
  <2>8. \A t \in Seqs : NoToken(t) => NoToken(t)'
    BY <1>1, <2>5 DEF NoToken, InDelivery
  <2>9. IssuerInv' /\ NumberInv' /\ RanInv'
    BY <1>1, <2>8, Bystanders, Fact
  <2>10. AnsweredInv' /\ WriteInv'
    BY <1>1, <2>5, AnsweredStays, WriteStays
  <2> QED BY <1>2, <2>3, <2>4, <2>6, <2>7, <2>9, <2>10 DEF IInv
<1> QED BY <1>3, <1>4

\* The objects of two calls differ, as their numbers do.
LEMMA TokenObject ==
  ASSUME IInv, NEW p \in Deliverers, NEW o \in Objs, d[p].o = o
  PROVE  Delivering(p) /\ Carries(d[p].seq, o) /\ ~NoToken(d[p].seq) /\ obj[o].seq = d[p].seq
  BY Fact DEF IInv, CarryInv, Carries, NoToken, InDelivery

LEMMA DeliverDoneStep == ASSUME IInv, NEW p \in Deliverers, DeliverDone(p) PROVE IInv'
<1> DEFINE o == d[p].o
           s == d[p].seq
<1>1. /\ w' = w /\ plan' = plan /\ NetShrinks /\ pending' = pending /\ chanEvent' = chanEvent
      /\ UNCHANGED <<asyncs, ran, cancelled, startSeq, node, timers, others>> /\ UNCHANGED netVars
      /\ d[p].pc = "deliver" /\ Delivering(p) /\ obj[o].cb = 0 /\ Delivered(p)
      /\ obj' = [obj EXCEPT ![o].done = s]
  BY Frames DEF DeliverDone, NetShrinks, Delivering
<1>2. /\ ~Delivering(p)' /\ d'[p].o = NoCall
      /\ \A q \in Deliverers : q # p => d'[q] = d[q]
      /\ d' \in [Deliverers -> Completing]
      /\ lock' \in {"free", Timeout, Closer}
      /\ LockInv'
  BY <1>1, DeliveredEffect
<1>3. /\ Carries(s, o) /\ s \in Seqs /\ o \in Objs /\ s \notin asyncs /\ ~NoToken(s)
      /\ pending[s] = NoCall /\ s # 0
  BY <1>1, Fact DEF IInv, CarryInv, Carries, UniqueInv, NoToken, InDelivery
<1>4. /\ obj' \in [Objs -> Fields]
      /\ \A u \in Objs : /\ obj'[u].ref = obj[u].ref /\ obj'[u].seq = obj[u].seq
                         /\ obj'[u].cb = obj[u].cb
                         /\ u # o => obj'[u].done = obj[u].done
      /\ obj'[o].done = s
  BY <1>1, <1>3 DEF IInv, TypeOK, ActorsOK, Fields, Seqs
<1> HIDE DEF o, s
<1>5. \A t, u : Carries(t, u)' <=> Carries(t, u)
  BY <1>1, <1>4 DEF Carries
<1>6. TypeOK'
  BY <1>1, <1>2, <1>4, Frames DEF IInv, TypeOK, CallSetOK, ActorsOK, ChannelOK, NetOK, CallsOK
<1>7. PlanInv' /\ WriteInv'
  BY <1>1, PlanStays, Frames DEF IInv, WriteInv
<1>8. CarryInv' /\ UniqueInv' /\ \A t \in Seqs : NoToken(t) => NoToken(t)'
  BY <1>1, <1>2, <1>5, Shrink DEF IInv
<1>9. /\ IssuerInv /\ NumberInv /\ RanInv /\ AnsweredInv
      /\ \A i \in Issuers : Active(i) => w[i].seq \in Seqs
      /\ \A i : Active(i)' <=> Active(i)
      /\ Callers \subseteq Issuers /\ Svc \in Issuers
  BY <1>1, Fact DEF IInv, Active
<1>10. \A c \in Callers : Active(c) /\ w[c].o = o => w[c].seq = s /\ w[c].pc # "add"
  BY <1>3, <1>9 DEF IssuerInv, Carries
<1>11. IssuerInv'
  <2>1. \A c \in Callers : Active(c) =>
          /\ w[c].seq \notin asyncs /\ w[c].o \in Objs
          /\ obj'[w[c].o].ref /\ obj'[w[c].o].cb = 0
          /\ obj'[w[c].o].seq \in {0, w[c].seq} /\ obj'[w[c].o].done \in {0, w[c].seq}
    BY <1>4, <1>10, <1>9 DEF IssuerInv
  <2>2. \A c \in Callers : w[c].pc \in {"add", "write"} => obj'[w[c].o].seq = w[c].seq
    BY <1>4, <2>1, <1>9 DEF IssuerInv, Active
  <2>3. \A c \in Callers : w[c].pc = "add" => obj'[w[c].o].done = 0
    BY <1>4, <1>10, <2>1, <1>9 DEF IssuerInv, Active
  <2>4. w[Svc].pc = "write" => Carries(w[Svc].seq, w[Svc].o)'
    BY <1>1, <1>5, <1>9 DEF IssuerInv, Carries
  <2>5. \A i \in Issuers : w[i].pc = "add" => NoToken(w[i].seq)'
    <3> SUFFICES ASSUME NEW i \in Issuers, w[i].pc = "add" PROVE NoToken(w[i].seq)'
      OBVIOUS
    <3>1. ASSUME NEW t, t = w[i].seq PROVE NoToken(t)'
      BY <3>1, <1>8, <1>9 DEF IssuerInv, Active
    <3> QED BY <1>1, <3>1 DEF NoToken, InEvents, InDelivery
  <2>6. \A i \in Issuers : w[i].pc \in {"add", "write", "fail"} => w[i].seq \notin requests' \cup responses'
    BY <1>1, <1>9 DEF IssuerInv, NetShrinks
  <2> QED BY <1>1, <1>9, <2>1, <2>2, <2>3, <2>4, <2>5, <2>6 DEF IssuerInv
<1>12. NumberInv' /\ RanInv'
  BY <1>1, <1>8, <1>9 DEF NumberInv, RanInv, NetShrinks
<1>13. AnsweredInv'
  <2> SUFFICES ASSUME NEW c \in Callers, Answered(c)'
               PROVE  /\ \A q \in Deliverers : d'[q].o = w[c].o => q = Timeout
                      /\ pending[w[c].seq] # NoCall =>
                           /\ w[c].seq \notin requests' \cup responses'
                           /\ plan.close = {} /\ w[c].pc # "write"
    BY <1>1 DEF AnsweredInv
  <2>1. Active(c) /\ w[c].o \in Objs /\ NoCall \notin Objs
    BY <1>9, Fact DEF Answered, IssuerInv
  <2>2. CASE w[c].o = o
    <3>1. \A q \in Deliverers : d[q].o = o => d[q].seq = s /\ Delivering(q)
      BY <1>3, TokenObject DEF Carries
    <3>2. \A q \in Deliverers : d[q].o = o => q = p
      BY <1>1, <3>1 DEF IInv, UniqueInv, s
    <3> QED BY <1>2, <1>3, <1>10, <2>1, <2>2, <3>2
  <2>3. CASE w[c].o # o
    <3>1. Answered(c)
      BY <1>1, <1>4, <2>1, <2>3 DEF Answered, Active
    <3>2. /\ \A q \in Deliverers : d[q].o = w[c].o => q = Timeout
          /\ pending[w[c].seq] # NoCall =>
               w[c].seq \notin requests \cup responses /\ plan.close = {} /\ w[c].pc # "write"
      BY <3>1, <1>9 DEF AnsweredInv
    <3> QED BY <1>1, <1>2, <2>1, <3>2 DEF NetShrinks
  <2> QED BY <2>2, <2>3
<1> QED BY <1>2, <1>6, <1>7, <1>8, <1>11, <1>12, <1>13 DEF IInv

-----------------------------------------------------------------------------
(* Synchronous calls.                                                      *)

\* In a safe plan a request cannot be handed over only when the plan is calm.
LEMMA FailsCalm ==
  ASSUME IInv, SafePlans, NEW i \in Issuers, Active(i), WriteFails(node[w[i].seq])
  PROVE  Calm(plan)
<1>1. plan \in Plans /\ node[w[i].seq] \in plan.async \cup plan.sync /\ node[w[i].seq] \in Nodes
  BY NodesAssumption DEF IInv, PlanInv
<1>2. ASSUME NoWriteFails(plan) PROVE FALSE
  BY <1>1, <1>2 DEF IInv, PlanInv, NoWriteFails, WriteFails
<1> QED BY <1>1, <1>2 DEF SafePlans

\* An issuer goes on with its call.
LEMMA Moves ==
  ASSUME IInv, NEW c \in Callers, Active(c), NEW x \in {"write", "fail", "wait", "clean"},
         w' = [w EXCEPT ![c].pc = x]
  PROVE  /\ w' \in [Issuers -> Issuing] /\ w'[c].pc = x
         /\ \A i \in Issuers : w'[i].seq = w[i].seq /\ w'[i].o = w[i].o
         /\ \A i \in Issuers : i # c => w'[i] = w[i]
         /\ \A i \in Issuers : Active(i)' <=> Active(i)
<1>1. w \in [Issuers -> Issuing] /\ c \in Issuers
  BY Fact DEF IInv, TypeOK, ActorsOK
<1>2. /\ w' \in [Issuers -> Issuing] /\ w'[c].pc = x
      /\ \A i \in Issuers : w'[i].seq = w[i].seq /\ w'[i].o = w[i].o
      /\ \A i \in Issuers : i # c => w'[i] = w[i]
  BY <1>1 DEF Issuing
<1> QED BY <1>1, <1>2 DEF Active

\* The same, when the call is no longer to be written: what is left to show
\* is that the tokens keep their objects and what the caller may rely on once
\* it was answered.
LEMMA CallerStep ==
  ASSUME IInv, NEW c \in Callers, Active(c), NEW x \in {"fail", "wait", "clean"},
         w' = [w EXCEPT ![c].pc = x],
         UNCHANGED <<d, chanEvent, startSeq, plan, lock, conn, node, asyncs, ran, cancelled>>, TypeOK',
         \A u \in Objs : u # w[c].o => obj'[u] = obj[u],
         obj'[w[c].o].ref /\ obj'[w[c].o].cb = 0,
         obj'[w[c].o].seq \in {0, w[c].seq} /\ obj'[w[c].o].done \in {0, w[c].seq},
         \A t, u : Carries(t, u) /\ Held(t, u)' => Carries(t, u)',
         pending'[w[c].seq] \in {pending[w[c].seq], NoCall},
         \A t \in Seqs : t # w[c].seq => pending'[t] = pending[t],
         requests' \cup responses' \subseteq requests \cup responses \cup {w[c].seq},
         x = "fail" => NetShrinks /\ w[c].pc = "write" /\ Calm(plan),
         Answered(c)' => /\ \A p \in Deliverers : d[p].o = w[c].o => p = Timeout
                         /\ pending'[w[c].seq] # NoCall =>
                              w[c].seq \notin requests' \cup responses' /\ plan.close = {}
  PROVE  IInv'
<1>1. /\ w' \in [Issuers -> Issuing] /\ w'[c].pc = x
      /\ \A i \in Issuers : w'[i].seq = w[i].seq /\ w'[i].o = w[i].o
      /\ \A i \in Issuers : i # c => w'[i] = w[i]
      /\ \A i \in Issuers : Active(i)' <=> Active(i)
  BY Moves
<1>2. /\ IssuerInv /\ NumberInv /\ RanInv /\ AnsweredInv /\ WriteInv /\ CarryInv /\ UniqueInv
      /\ \A i \in Issuers : Active(i) => w[i].seq \in Seqs
      /\ Callers \subseteq Issuers /\ Svc \in Issuers /\ Svc # c /\ Seqs \subseteq Nat /\ 0 \notin Seqs
      /\ startSeq \in Nat
  BY Fact DEF IInv
<1>3. CarryInv' /\ UniqueInv' /\ \A t \in Seqs : NoToken(t) => NoToken(t)'
  <2>1. \A t \in Seqs : pending'[t] \in {pending[t], NoCall}
    OBVIOUS
  <2> QED BY <1>2, <2>1, Shrink
<1>4. \A b \in Callers : Active(b) /\ b # c => w[b].o # w[c].o /\ w[b].seq # w[c].seq /\ w[b].o \in Objs
  BY <1>2 DEF IssuerInv
<1>5. IssuerInv'
  <2>1. \A b \in Callers : Active(b) =>
          /\ w[b].seq \notin asyncs /\ w[b].o \in Objs
          /\ obj'[w[b].o].ref /\ obj'[w[b].o].cb = 0
          /\ obj'[w[b].o].seq \in {0, w[b].seq} /\ obj'[w[b].o].done \in {0, w[b].seq}
    BY <1>2, <1>4 DEF IssuerInv
  <2>2. \A b \in Callers : w'[b].pc \in {"add", "write"} => obj'[w[b].o].seq = w[b].seq
    BY <1>1, <1>2, <1>4 DEF IssuerInv, Active
  <2>3. \A b \in Callers : w'[b].pc = "add" => obj'[w[b].o].done = 0
    BY <1>1, <1>2, <1>4 DEF IssuerInv, Active
  <2>4. w'[Svc].pc = "write" => Carries(w[Svc].seq, w[Svc].o)'
    <3> SUFFICES ASSUME w[Svc].pc = "write" PROVE Carries(w[Svc].seq, w[Svc].o)'
      BY <1>1, <1>2
    <3>1. Carries(w[Svc].seq, w[Svc].o) /\ w[Svc].seq \in asyncs /\ w[Svc].seq # 0
      BY <1>2 DEF IssuerInv, Active, Carries
    <3>2. w[Svc].o # w[c].o
      BY <1>2, <3>1 DEF IssuerInv, Carries
    <3>3. w'[Svc] = w[Svc] /\ obj'[w[Svc].o] = obj[w[Svc].o]
      BY <1>1, <1>2, <3>1, <3>2 DEF Carries
    <3> QED BY <3>1, <3>3 DEF Carries
  <2>5. \A i \in Issuers : w'[i].pc = "add" => NoToken(w[i].seq)'
    <3> SUFFICES ASSUME NEW i \in Issuers, w'[i].pc = "add" PROVE NoToken(w[i].seq)'
      OBVIOUS
    <3>1. w[i].pc = "add" /\ w'[i].seq = w[i].seq
      BY <1>1
    <3>2. ASSUME NEW t, t = w[i].seq PROVE NoToken(t)'
      BY <3>1, <3>2, <1>2, <1>3 DEF IssuerInv, Active
    <3> QED BY <3>1, <3>2 DEF NoToken, InEvents, InDelivery
  <2>6. \A i \in Issuers : w'[i].pc \in {"add", "write", "fail"} => w[i].seq \notin requests' \cup responses'
    <3> SUFFICES ASSUME NEW i \in Issuers, w'[i].pc \in {"add", "write", "fail"}
                 PROVE  w[i].seq \notin requests' \cup responses'
      OBVIOUS
    <3>1. CASE i = c
      BY <3>1, <1>1, <1>2 DEF IssuerInv, NetShrinks
    <3>2. CASE i # c
      BY <3>2, <1>1, <1>2 DEF IssuerInv, Active
    <3> QED BY <3>1, <3>2
  <2>7. /\ \A i \in Issuers : Active(i)' => w'[i].seq \in 1..startSeq'
        /\ \A i \in Issuers : ~Active(i)' => w'[i].o = NoCall
        /\ \A i, j \in Issuers : Active(i)' /\ Active(j)' /\ w'[i].seq = w'[j].seq => i = j
        /\ \A a, b \in Callers : Active(a)' /\ Active(b)' /\ w'[a].o = w'[b].o => b = a
    BY <1>1, <1>2 DEF IssuerInv
  <2>8. /\ Active(Svc)' => w'[Svc].pc \in {"add", "write"} /\ w'[Svc].seq \in asyncs'
        /\ w'[Svc].pc = "add" => w'[Svc].o = NoCall
    BY <1>1, <1>2 DEF IssuerInv
  <2>9. \A b \in Callers : Active(b)' =>
          /\ w'[b].seq \notin asyncs' /\ w'[b].o \in Objs
          /\ obj'[w'[b].o].ref /\ obj'[w'[b].o].cb = 0
          /\ obj'[w'[b].o].seq \in {0, w'[b].seq} /\ obj'[w'[b].o].done \in {0, w'[b].seq}
    BY <1>1, <1>2, <2>1
  <2>10. /\ \A b \in Callers : w'[b].pc \in {"add", "write"} => obj'[w'[b].o].seq = w'[b].seq
         /\ \A b \in Callers : w'[b].pc = "add" => obj'[w'[b].o].done = 0
         /\ \A i \in Issuers : w'[i].pc \in {"add", "write", "fail"} => w'[i].seq \notin requests' \cup responses'
    BY <1>1, <1>2, <2>2, <2>3, <2>6
  <2> QED BY <2>4, <2>5, <2>7, <2>8, <2>9, <2>10 DEF IssuerInv
<1>6. NumberInv'
  BY <1>2, <1>3 DEF NumberInv, IssuerInv
<1>7. RanInv'
  <2>1. (Active(Svc)' <=> Active(Svc)) /\ w'[Svc].seq = w[Svc].seq
    BY <1>1, <1>2
  <2> QED BY <1>2, <1>3, <2>1 DEF RanInv
<1>8. AnsweredInv'
  <2> SUFFICES ASSUME NEW b \in Callers, Answered(b)'
               PROVE  /\ \A q \in Deliverers : d[q].o = w[b].o => q = Timeout
                      /\ pending'[w[b].seq] # NoCall =>
                           /\ w[b].seq \notin requests' \cup responses'
                           /\ plan.close = {} /\ w'[b].pc # "write"
    BY <1>1, <1>2 DEF AnsweredInv
  <2>1. CASE b = c
    BY <2>1, <1>1
  <2>2. CASE b # c
    <3>1. Answered(b) /\ w'[b] = w[b] /\ w[b].seq \in Seqs
      BY <2>2, <1>1, <1>2, <1>4 DEF Answered
    <3>2. /\ \A q \in Deliverers : d[q].o = w[b].o => q = Timeout
          /\ pending[w[b].seq] # NoCall =>
               w[b].seq \notin requests \cup responses /\ plan.close = {} /\ w[b].pc # "write"
      BY <3>1, <1>2 DEF AnsweredInv
    <3> QED BY <2>2, <3>1, <3>2, <1>4 DEF Answered
  <2> QED BY <2>1, <2>2
<1>9. WriteInv'
  <2>1. \A i \in Issuers : Calm(plan) /\ w'[i].pc = "write" => pending'[w'[i].seq] = w'[i].o
    BY <1>1, <1>2, <1>4 DEF WriteInv, IssuerInv, Active
  <2>2. \A b \in Callers : w'[b].pc = "fail" => Calm(plan)
    BY <1>1, <1>2 DEF WriteInv
  <2> QED BY <2>1, <2>2 DEF WriteInv
<1>10. PlanInv'
  BY <1>1 DEF IInv, PlanInv
<1>11. LockInv'
  BY DEF IInv, LockInv, Delivering
<1> QED BY <1>3, <1>5, <1>6, <1>7, <1>8, <1>9, <1>10, <1>11 DEF IInv

\* What the caller c knows of its call.
LEMMA CallerFact ==
  ASSUME IInv, NEW c \in Callers, Active(c)
  PROVE  /\ c \in Issuers /\ w[c].seq \in Seqs /\ w[c].seq # 0 /\ w[c].o \in Objs /\ w[c].seq \notin asyncs
         /\ w[c].seq \in 1..startSeq
         /\ obj[w[c].o].ref /\ obj[w[c].o].cb = 0
         /\ obj[w[c].o].seq \in {0, w[c].seq} /\ obj[w[c].o].done \in {0, w[c].seq}
         /\ w[c].pc \in {"add", "write"} => obj[w[c].o].seq = w[c].seq
         /\ \A t, u : Carries(t, u) /\ u = w[c].o => t = w[c].seq
         /\ Answered(c) => /\ \A p \in Deliverers : d[p].o = w[c].o => p = Timeout
                           /\ pending[w[c].seq] # NoCall =>
                                /\ w[c].seq \notin requests \cup responses
                                /\ plan.close = {} /\ w[c].pc # "write"
<1>1. c \in Issuers /\ w[c].seq \in Seqs /\ 0 \notin Seqs /\ IssuerInv /\ AnsweredInv
  BY Fact DEF IInv
<1>2. /\ w[c].o \in Objs /\ w[c].seq \notin asyncs /\ w[c].seq \in 1..startSeq
      /\ obj[w[c].o].ref /\ obj[w[c].o].cb = 0
      /\ obj[w[c].o].seq \in {0, w[c].seq} /\ obj[w[c].o].done \in {0, w[c].seq}
      /\ w[c].pc \in {"add", "write"} => obj[w[c].o].seq = w[c].seq
  BY <1>1 DEF IssuerInv
<1>3. \A t, u : Carries(t, u) /\ u = w[c].o => t = w[c].seq
  BY <1>1, <1>2 DEF Carries
<1> QED BY <1>1, <1>2, <1>3 DEF AnsweredInv

LEMMA CallWriteStep == ASSUME IInv, NEW c \in Callers, CallWrite(c) PROVE IInv'
<1> DEFINE s == w[c].seq
<1>1. /\ UNCHANGED <<d, chanEvent, startSeq, plan, lock, conn, node, asyncs, ran, cancelled, timers>>
      /\ UNCHANGED <<pending, obj, responses, closed, drops, others>>
      /\ w[c].pc = "write" /\ Active(c) /\ w' = [w EXCEPT ![c].pc = "wait"]
      /\ requests' \subseteq requests \cup {s}
  BY Frames DEF CallWrite, Active, Sent
<1>2. w' \in [Issuers -> Issuing] /\ w'[c].pc = "wait" /\ w'[c].o = w[c].o
  BY <1>1, Moves, Fact
<1>3. TypeOK'
  BY <1>1, <1>2, CallerFact DEF IInv, TypeOK, CallSetOK, ActorsOK, ChannelOK, NetOK, CallsOK
<1>4. \A t, u : Carries(t, u)' <=> Carries(t, u)
  BY <1>1 DEF Carries
<1>5. Answered(c)' => Answered(c)
  BY <1>1, <1>2 DEF Answered
<1>6. Answered(c)' => /\ \A p \in Deliverers : d[p].o = w[c].o => p = Timeout
                      /\ pending'[s] = NoCall
  BY <1>1, <1>5, CallerFact
<1> QED BY <1>1, <1>3, <1>4, <1>6, CallerFact, CallerStep

LEMMA CallWriteFailsStep == ASSUME IInv, SafePlans, NEW c \in Callers, CallWriteFails(c) PROVE IInv'
<1> DEFINE s == w[c].seq
           o == w[c].o
<1>1. /\ UNCHANGED <<d, chanEvent, startSeq, plan, lock, conn, node, asyncs, ran, cancelled>>
      /\ UNCHANGED <<requests, responses, closed, drops, others>> /\ NetShrinks
      /\ w[c].pc = "write" /\ Active(c) /\ w' = [w EXCEPT ![c].pc = "fail"]
      /\ WriteFails(node[s])
  BY Frames DEF CallWriteFails, Active, NetShrinks
<1>2. w' \in [Issuers -> Issuing] /\ w'[c].pc = "fail" /\ w'[c].o = w[c].o
  BY <1>1, Moves, Fact
<1>3. /\ s \in Seqs /\ s # 0 /\ o \in Objs /\ obj[o].ref /\ obj[o].cb = 0
      /\ obj[o].seq = s /\ obj[o].done \in {0, s} /\ 0 \in {0, s}
      /\ \A t, u : Carries(t, u) /\ u = w[c].o => t = w[c].seq
      /\ c \in Issuers
  BY <1>1, CallerFact
<1>4. Calm(plan) /\ plan.close = {}
  BY <1>1, <1>3, FailsCalm DEF Calm
<1>5. pending[s] = o /\ o # NoCall /\ s \notin requests \cup responses
  BY <1>1, <1>3, <1>4, Fact DEF IInv, WriteInv, IssuerInv
<1>6. \A p \in Deliverers : d[p].o # o
  <2> SUFFICES ASSUME NEW p \in Deliverers, d[p].o = o PROVE FALSE
    OBVIOUS
  <2>1. Delivering(p) /\ d[p].seq = s
    BY <1>3, TokenObject
  <2> QED BY <2>1, <1>5 DEF IInv, UniqueInv
<1>7. CASE node[s] = Local
  <2>1. UNCHANGED <<pending, timers, obj>>
    BY <1>7 DEF CallWriteFails
  <2>2. TypeOK'
    BY <1>1, <1>2, <2>1 DEF IInv, TypeOK, CallSetOK, ActorsOK, ChannelOK, NetOK, CallsOK
  <2>3. \A t, u : Carries(t, u)' <=> Carries(t, u)
    BY <1>1, <2>1 DEF Carries
  <2> QED BY <1>1, <1>3, <1>4, <1>5, <1>6, <2>1, <2>2, <2>3, CallerStep
<1>8. CASE node[s] # Local
  <2>1. /\ pending' = Unpend(s) /\ timers' = CancelTimer(s)
        /\ obj' = [obj EXCEPT ![o].seq = 0]
    BY <1>3, <1>5, <1>8 DEF CallWriteFails, Withdraw, RemovePending
  <2>2. /\ pending' \in [Seqs -> Objs \cup {NoCall}] /\ timers' \subseteq Seqs
        /\ pending'[s] = NoCall /\ \A t \in Seqs : t # s => pending'[t] = pending[t]
    BY <2>1, <1>3 DEF Unpend, CancelTimer, IInv, TypeOK, CallSetOK
  <2>3. /\ obj' \in [Objs -> Fields]
        /\ \A u \in Objs : u # o => obj'[u] = obj[u]
        /\ obj'[o].ref = obj[o].ref /\ obj'[o].cb = obj[o].cb /\ obj'[o].done = obj[o].done
        /\ obj'[o].seq = 0
    BY <2>1, <1>3, Fact DEF IInv, TypeOK, ActorsOK, Fields
  <2>4. TypeOK'
    BY <1>1, <1>2, <2>2, <2>3 DEF IInv, TypeOK, CallSetOK, ActorsOK, ChannelOK, NetOK, CallsOK
  <2>5. \A t : t = s => NoToken(t)'
    <3>1. ~InDelivery(s) /\ ~InEvents(s)
      BY <1>5, Fact, <1>3 DEF InDelivery, InEvents, IInv, UniqueInv
    <3> QED BY <1>1, <2>2, <3>1 DEF NoToken, InDelivery, InEvents, Delivering
  <2>6. \A t, u : Carries(t, u) /\ Held(t, u)' => Carries(t, u)'
    <3> SUFFICES ASSUME NEW t, NEW u, Carries(t, u), ~NoToken(t)' PROVE Carries(t, u)'
      BY HeldToken
    <3>1. u # o
      BY <1>3, <2>5
    <3> QED BY <1>1, <2>3, <3>1 DEF Carries
  <2> QED BY <1>1, <1>3, <1>4, <1>6, <2>2, <2>3, <2>4, <2>6, CallerStep
<1> QED BY <1>7, <1>8

LEMMA DoErrorStep == ASSUME IInv, NEW c \in Callers, DoError(c) PROVE IInv'
<1> DEFINE s == w[c].seq
           o == w[c].o
<1>1. /\ UNCHANGED <<d, chanEvent, startSeq, plan, lock, conn, node, asyncs, ran, cancelled>>
      /\ UNCHANGED <<pending, timers, requests, responses, closed, drops, others>>
      /\ w[c].pc = "fail" /\ Active(c) /\ w' = [w EXCEPT ![c].pc = "wait"] /\ Answered(c)
      /\ obj' = [obj EXCEPT ![o].done = s]
  BY Frames DEF DoError, Active, Answered
<1>2. w' \in [Issuers -> Issuing]
  BY <1>1, Moves
<1>3. s \in Seqs /\ o \in Objs /\ s \in 0..MaxCalls
  BY <1>1, CallerFact DEF Seqs
<1>4. /\ obj' \in [Objs -> Fields]
      /\ \A u \in Objs : u # o => obj'[u] = obj[u]
      /\ obj'[o].ref = obj[o].ref /\ obj'[o].cb = obj[o].cb /\ obj'[o].seq = obj[o].seq
      /\ obj'[o].done = s
  BY <1>1, <1>3 DEF IInv, TypeOK, ActorsOK, Fields
<1>5. TypeOK'
  BY <1>1, <1>2, <1>4 DEF IInv, TypeOK, CallSetOK, ActorsOK, ChannelOK, NetOK, CallsOK
<1>6. \A t, u : Carries(t, u) => Carries(t, u)'
  BY <1>1, <1>4 DEF Carries
<1>7. /\ obj'[o].ref /\ obj'[o].cb = 0 /\ obj'[o].seq \in {0, s} /\ obj'[o].done \in {0, s}
      /\ \A p \in Deliverers : d[p].o = o => p = Timeout
      /\ pending'[s] # NoCall => s \notin requests' \cup responses' /\ plan.close = {}
  BY <1>1, <1>4, CallerFact
<1> QED BY <1>1, <1>4, <1>5, <1>6, <1>7, CallerStep

LEMMA DoneStep == ASSUME IInv, NEW c \in Callers, Done(c) PROVE IInv'
<1> DEFINE s == w[c].seq
           o == w[c].o
<1>1. /\ UNCHANGED <<d, chanEvent, startSeq, plan, lock, conn, node, asyncs, ran, cancelled>>
      /\ UNCHANGED <<pending, timers, requests, responses, closed, drops, others>>
      /\ w[c].pc = "wait" /\ Active(c) /\ w' = [w EXCEPT ![c].pc = "clean"] /\ Answered(c)
      /\ obj' = [obj EXCEPT ![o].done = 0]
  BY Frames DEF Done, Active, Answered
<1>2. w' \in [Issuers -> Issuing]
  BY <1>1, Moves
<1>3. s \in Seqs /\ o \in Objs /\ 0 \in 0..MaxCalls
  BY <1>1, CallerFact, Fact
<1>4. /\ obj' \in [Objs -> Fields]
      /\ \A u \in Objs : u # o => obj'[u] = obj[u]
      /\ obj'[o].ref = obj[o].ref /\ obj'[o].cb = obj[o].cb /\ obj'[o].seq = obj[o].seq
      /\ obj'[o].done = 0
  BY <1>1, <1>3 DEF IInv, TypeOK, ActorsOK, Fields
<1>5. TypeOK'
  BY <1>1, <1>2, <1>4 DEF IInv, TypeOK, CallSetOK, ActorsOK, ChannelOK, NetOK, CallsOK
<1>6. \A t, u : Carries(t, u) => Carries(t, u)'
  BY <1>1, <1>4 DEF Carries
<1>7. /\ obj'[o].ref /\ obj'[o].cb = 0 /\ obj'[o].seq \in {0, s} /\ obj'[o].done \in {0, s}
      /\ \A p \in Deliverers : d[p].o = o => p = Timeout
      /\ pending'[s] # NoCall => s \notin requests' \cup responses' /\ plan.close = {}
  BY <1>1, <1>4, CallerFact
<1> QED BY <1>1, <1>4, <1>5, <1>6, <1>7, CallerStep

\* Two calls in progress have different objects.
LEMMA OwnObject ==
  ASSUME IInv, NEW i \in Issuers, NEW j \in Issuers, i # j, Active(i), Active(j), w[i].o \in Objs
  PROVE  w[j].o # w[i].o /\ w[j].seq # w[i].seq
<1>1. IssuerInv /\ Issuers = Callers \cup {Svc} /\ 0 \notin Seqs /\ NoCall \notin Objs
  BY Fact DEF IInv
<1>2. w[j].seq # w[i].seq
  BY <1>1 DEF IssuerInv
<1>3. ASSUME w[Svc].o \in Objs, Active(Svc) PROVE obj[w[Svc].o].cb # 0
  BY <1>1, <1>3 DEF IssuerInv, Active, Carries
<1>4. \A c \in Callers : Active(c) => obj[w[c].o].cb = 0
  BY <1>1 DEF IssuerInv
<1>5. CASE i \in Callers /\ j \in Callers
  BY <1>1, <1>2, <1>5 DEF IssuerInv
<1>6. CASE i = Svc \/ j = Svc
  BY <1>1, <1>2, <1>3, <1>4, <1>6
<1> QED BY <1>1, <1>5, <1>6

\* A call without a token gets one, in the CallSet.
LEMMA Add ==
  ASSUME IInv, NEW s \in Seqs, NEW o \in Objs, NoToken(s), Carries(s, o)',
         pending' = [pending EXCEPT ![s] = o], d' = d, chanEvent' = chanEvent, asyncs' = asyncs,
         \A t, u : Carries(t, u) => Carries(t, u)'
  PROVE  CarryInv' /\ UniqueInv' /\ \A t \in Seqs : t # s /\ NoToken(t) => NoToken(t)'
<1>0. CarryInv /\ UniqueInv
  BY DEF IInv
<1>1. pending'[s] = o /\ \A t \in Seqs : t # s => pending'[t] = pending[t]
  BY DEF IInv, TypeOK, CallSetOK
<1>2. /\ \A q : Delivering(q)' <=> Delivering(q)
      /\ \A t : InEvents(t)' <=> InEvents(t)
  BY DEF Delivering, InEvents
<1>3. /\ \A q \in Deliverers : Delivering(q) => d[q].seq # s /\ d[q].seq \in Seqs
      /\ \A i \in 1..Len(chanEvent) : chanEvent[i][1] # s
      /\ \A i \in 1..Len(chanEvent) : chanEvent[i][1] # 0 => chanEvent[i][1] \in Seqs
  BY <1>0 DEF NoToken, InDelivery, InEvents, CarryInv, Carries
<1>4. UniqueInv'
  <2>1. \A q \in Deliverers : Delivering(q) =>
          pending'[d[q].seq] = NoCall /\ ~(\E i \in 1..Len(chanEvent) : chanEvent[i][1] = d[q].seq)
    BY <1>0, <1>1, <1>3 DEF UniqueInv, InEvents
  <2>2. \A i \in 1..Len(chanEvent) : chanEvent[i][1] # 0 => pending'[chanEvent[i][1]] = NoCall
    BY <1>0, <1>1, <1>3 DEF UniqueInv
  <2> QED BY <1>0, <1>2, <2>1, <2>2 DEF UniqueInv, InEvents
<1>5. CarryInv'
  <2>1. \A t \in Seqs : pending'[t] # NoCall => Carries(t, pending[t])'
    <3> SUFFICES ASSUME NEW t \in Seqs, pending'[t] # NoCall PROVE Carries(t, pending[t])'
      OBVIOUS
    <3>1. PICK u : u = pending'[t]
      OBVIOUS
    <3>2. Carries(t, u)'
      BY <1>0, <1>1, <3>1 DEF CarryInv
    <3> QED BY <3>1, <3>2 DEF Carries
  <2>2. \A q \in Deliverers : Delivering(q) => Carries(d[q].seq, d[q].o)'
    <3> SUFFICES ASSUME NEW q \in Deliverers, Delivering(q) PROVE Carries(d[q].seq, d[q].o)'
      OBVIOUS
    <3>1. PICK t, u : t = d[q].seq /\ u = d[q].o
      OBVIOUS
    <3>2. Carries(t, u)'
      BY <1>0, <3>1 DEF CarryInv
    <3> QED BY <3>1, <3>2 DEF Carries
  <2>3. \A i \in 1..Len(chanEvent) : chanEvent[i][1] # 0 =>
          chanEvent[i][1] \in asyncs' /\ Carries(chanEvent[i][1], chanEvent[i][2])'
    <3> SUFFICES ASSUME NEW i \in 1..Len(chanEvent), chanEvent[i][1] # 0
                 PROVE  chanEvent[i][1] \in asyncs' /\ Carries(chanEvent[i][1], chanEvent[i][2])'
      OBVIOUS
    <3>1. PICK t, u : t = chanEvent[i][1] /\ u = chanEvent[i][2]
      OBVIOUS
    <3>2. t \in asyncs /\ Carries(t, u)'
      BY <1>0, <3>1 DEF CarryInv
    <3> QED BY <3>1, <3>2 DEF Carries
  <2> QED BY <1>0, <1>2, <2>1, <2>2, <2>3 DEF CarryInv
<1>6. \A t \in Seqs : t # s /\ NoToken(t) => NoToken(t)'
  BY <1>1, <1>2 DEF NoToken, InDelivery
<1> QED BY <1>4, <1>5, <1>6

LEMMA CallAddStep == ASSUME IInv, NEW c \in Callers, CallAdd(c) PROVE IInv'
<1>0. w[c].pc = "add" /\ Active(c)
  BY DEF CallAdd, Active
<1> PICK s \in Seqs, o \in Objs : s = w[c].seq /\ o = w[c].o
  BY <1>0, CallerFact
<1>1. /\ UNCHANGED <<d, chanEvent, startSeq, plan, lock, conn, node, asyncs, ran, cancelled>>
      /\ UNCHANGED <<obj, requests, responses, closed, drops, others>>
      /\ w' = [w EXCEPT ![c].pc = "write"]
      /\ pending' = [pending EXCEPT ![s] = o] /\ timers' = timers \cup {s}
  BY <1>0, Frames DEF CallAdd, AddPending
<1>2. /\ w' \in [Issuers -> Issuing] /\ w'[c].pc = "write"
      /\ \A i \in Issuers : w'[i].seq = w[i].seq /\ w'[i].o = w[i].o
      /\ \A i \in Issuers : i # c => w'[i] = w[i]
      /\ \A i \in Issuers : Active(i)' <=> Active(i)
  BY <1>0, <1>1, Moves
<1>3. /\ IssuerInv /\ NumberInv /\ RanInv /\ AnsweredInv /\ WriteInv
      /\ \A i \in Issuers : Active(i) => w[i].seq \in Seqs
      /\ Callers \subseteq Issuers /\ Svc \in Issuers /\ Svc # c /\ c \in Issuers
      /\ Seqs \subseteq Nat /\ startSeq \in Nat
      /\ s \in 1..startSeq /\ s \notin asyncs /\ obj[o].ref /\ obj[o].cb = 0 /\ obj[o].seq = s
      /\ pending'[s] = o /\ \A t \in Seqs : t # s => pending'[t] = pending[t]
  BY <1>0, <1>1, Fact, CallerFact DEF IInv, TypeOK, CallSetOK
<1>4. obj[o].done = 0 /\ NoToken(s)
  BY <1>0, <1>3 DEF IssuerInv
<1>5. TypeOK'
  <2>1. CallSetOK' /\ ActorsOK'
    BY <1>1, <1>2 DEF IInv, TypeOK, CallSetOK, ActorsOK
  <2> QED BY <1>1, <2>1 DEF IInv, TypeOK, ChannelOK, NetOK, CallsOK
<1>6. \A t, u : Carries(t, u)' <=> Carries(t, u)
  BY <1>1 DEF Carries
<1>7. CarryInv' /\ UniqueInv' /\ \A t \in Seqs : t # s /\ NoToken(t) => NoToken(t)'
  <2>1. Carries(s, o)
    BY <1>3 DEF Carries
  <2> QED BY <1>1, <1>4, <1>6, <2>1, Add
<1>8. IssuerInv'
  <2>1. \A i \in Issuers : w'[i].pc = "add" => NoToken(w[i].seq)'
    <3> SUFFICES ASSUME NEW i \in Issuers, w'[i].pc = "add" PROVE NoToken(w[i].seq)'
      OBVIOUS
    <3>1. w[i].pc = "add" /\ w'[i].seq = w[i].seq /\ i # c /\ Active(i)
      BY <1>2 DEF Active
    <3>2. ASSUME NEW t, t = w[i].seq PROVE NoToken(t)'
      BY <3>1, <3>2, <1>0, <1>3, <1>7 DEF IssuerInv
    <3> QED BY <3>1, <3>2 DEF NoToken, InEvents, InDelivery
  <2>2. w'[Svc].pc = "write" => Carries(w[Svc].seq, w[Svc].o)'
    BY <1>1, <1>2, <1>3 DEF IssuerInv, Carries
  <2>3. \A b \in Callers : Active(b)' =>
          /\ w'[b].seq \notin asyncs' /\ w'[b].o \in Objs
          /\ obj'[w'[b].o].ref /\ obj'[w'[b].o].cb = 0
          /\ obj'[w'[b].o].seq \in {0, w'[b].seq} /\ obj'[w'[b].o].done \in {0, w'[b].seq}
    BY <1>1, <1>2, <1>3 DEF IssuerInv
  <2>4. /\ \A b \in Callers : w'[b].pc \in {"add", "write"} => obj'[w'[b].o].seq = w'[b].seq
        /\ \A b \in Callers : w'[b].pc = "add" => obj'[w'[b].o].done = 0
        /\ \A i \in Issuers : w'[i].pc \in {"add", "write", "fail"} => w'[i].seq \notin requests' \cup responses'
    BY <1>0, <1>1, <1>2, <1>3 DEF IssuerInv
  <2>5. /\ \A i \in Issuers : Active(i)' => w'[i].seq \in 1..startSeq'
        /\ \A i \in Issuers : ~Active(i)' => w'[i].o = NoCall
        /\ \A i, j \in Issuers : Active(i)' /\ Active(j)' /\ w'[i].seq = w'[j].seq => i = j
        /\ \A a, b \in Callers : Active(a)' /\ Active(b)' /\ w'[a].o = w'[b].o => b = a
    BY <1>1, <1>2, <1>3 DEF IssuerInv
  <2>6. /\ Active(Svc)' => w'[Svc].pc \in {"add", "write"} /\ w'[Svc].seq \in asyncs'
        /\ w'[Svc].pc = "add" => w'[Svc].o = NoCall
    BY <1>1, <1>2, <1>3 DEF IssuerInv
  <2> QED BY <2>1, <2>2, <2>3, <2>4, <2>5, <2>6 DEF IssuerInv
<1>9. NumberInv'
  BY <1>1, <1>3, <1>7 DEF NumberInv
<1>10. RanInv'
  <2>1. (Active(Svc)' <=> Active(Svc)) /\ w'[Svc].seq = w[Svc].seq
    BY <1>2, <1>3
  <2> QED BY <1>1, <1>3, <1>7, <2>1 DEF RanInv
<1>11. AnsweredInv'
  <2> SUFFICES ASSUME NEW b \in Callers, Answered(b)'
               PROVE  /\ \A q \in Deliverers : d[q].o = w[b].o => q = Timeout
                      /\ pending'[w[b].seq] # NoCall =>
                           /\ w[b].seq \notin requests \cup responses
                           /\ plan.close = {} /\ w'[b].pc # "write"
    BY <1>1, <1>2, <1>3 DEF AnsweredInv
  <2>1. b # c
    BY <1>1, <1>2, <1>3, <1>4 DEF Answered
  <2>2. Answered(b) /\ w'[b] = w[b] /\ Active(b) /\ w[b].seq \in Seqs
    BY <2>1, <1>1, <1>2, <1>3 DEF Answered
  <2>3. w[b].seq # s
    BY <2>1, <2>2, <1>0, <1>3 DEF IssuerInv
  <2> QED BY <2>2, <2>3, <1>3 DEF AnsweredInv
<1>12. WriteInv'
  <2>1. \A i \in Issuers : Calm(plan) /\ w'[i].pc = "write" => pending'[w'[i].seq] = w'[i].o
    <3> SUFFICES ASSUME NEW i \in Issuers, i # c, Calm(plan), w'[i].pc = "write"
                 PROVE  pending'[w'[i].seq] = w'[i].o
      BY <1>2, <1>3
    <3>1. w'[i] = w[i] /\ w[i].seq \in Seqs /\ w[i].seq # s
      BY <1>0, <1>2, <1>3 DEF IssuerInv, Active
    <3> QED BY <3>1, <1>3 DEF WriteInv
  <2>2. \A b \in Callers : w'[b].pc = "fail" => Calm(plan)
    BY <1>2, <1>3 DEF WriteInv
  <2> QED BY <1>1, <2>1, <2>2 DEF WriteInv
<1>13. PlanInv'
  BY <1>1, <1>2 DEF IInv, PlanInv
<1>14. LockInv'
  BY <1>1 DEF IInv, LockInv, Delivering
<1> QED BY <1>5, <1>7, <1>8, <1>9, <1>10, <1>11, <1>12, <1>13, <1>14 DEF IInv

\* An issuer is done with its call: what is left to show is that the tokens
\* keep their objects, and that a callback ran only if the call is over.
LEMMA LeaveStep ==
  ASSUME IInv, NEW i \in Issuers, Active(i), NEW s \in Seqs, s = w[i].seq, NEW o \in Objs, o = w[i].o,
         w' = [w EXCEPT ![i] = Idle],
         UNCHANGED <<d, chanEvent, startSeq, plan, lock, conn, node, asyncs, cancelled>>, TypeOK',
         \A u \in Objs : u # o => obj'[u] = obj[u],
         \A t, u : Carries(t, u) /\ Held(t, u)' => Carries(t, u)',
         pending'[s] \in {pending[s], NoCall},
         \A t \in Seqs : t # s => pending'[t] = pending[t],
         requests' \cup responses' \subseteq requests \cup responses \cup {s},
         \A t \in Seqs : t # s => ran'[t] = ran[t],
         ran'[s] = ran[s] \/ (i = Svc /\ ran'[s] = ran[s] + 1 /\ NoToken(s)')
  PROVE  IInv'
<1>0. /\ IssuerInv /\ NumberInv /\ RanInv /\ AnsweredInv /\ WriteInv /\ CarryInv /\ UniqueInv
      /\ \A j \in Issuers : Active(j) => w[j].seq \in Seqs
      /\ Issuers = Callers \cup {Svc} /\ Svc \notin Callers
      /\ Seqs \subseteq Nat /\ startSeq \in Nat /\ s <= startSeq
  BY Fact DEF IInv, IssuerInv
<1>1. /\ w'[i].pc = "idle" /\ w'[i].o = NoCall
      /\ \A j \in Issuers : j # i => w'[j] = w[j]
  BY DEF IInv, TypeOK, ActorsOK, Idle
<1>2. /\ ~Active(i)'
      /\ \A j \in Issuers : Active(j)' => j # i /\ Active(j) /\ w'[j] = w[j]
      /\ \A j \in Issuers : ~Active(j)' => j = i \/ ~Active(j)
  BY <1>1 DEF Active
<1>3. \A j \in Issuers : j # i /\ Active(j) => w[j].o # o /\ w[j].seq # s
  BY OwnObject
<1>4. CarryInv' /\ UniqueInv' /\ \A t \in Seqs : NoToken(t) => NoToken(t)'
  <2>1. \A t \in Seqs : pending'[t] \in {pending[t], NoCall}
    OBVIOUS
  <2> QED BY <1>0, <2>1, Shrink
<1>5. IssuerInv'
  <2>1. \A j \in Issuers : w'[j].pc = "add" => NoToken(w[j].seq)'
    <3> SUFFICES ASSUME NEW j \in Issuers, w'[j].pc = "add" PROVE NoToken(w[j].seq)'
      OBVIOUS
    <3>1. w[j].pc = "add" /\ w'[j].seq = w[j].seq /\ j # i /\ Active(j)
      BY <1>1 DEF Active
    <3>2. ASSUME NEW t, t = w[j].seq PROVE NoToken(t)'
      BY <3>1, <3>2, <1>0, <1>4 DEF IssuerInv
    <3> QED BY <3>1, <3>2 DEF NoToken, InEvents, InDelivery
  <2>2. w'[Svc].pc = "write" => Carries(w[Svc].seq, w[Svc].o)'
    <3> SUFFICES ASSUME w'[Svc].pc = "write" PROVE Carries(w[Svc].seq, w[Svc].o)'
      OBVIOUS
    <3>1. Svc # i /\ w'[Svc] = w[Svc] /\ Active(Svc)
      BY <1>0, <1>1 DEF Active
    <3>2. Carries(w[Svc].seq, w[Svc].o) /\ w[Svc].o # o
      BY <1>0, <1>3, <3>1 DEF IssuerInv
    <3> QED BY <3>1, <3>2 DEF Carries
  <2>3. \A b \in Callers : Active(b)' =>
          /\ w'[b].seq \notin asyncs' /\ w'[b].o \in Objs
          /\ obj'[w'[b].o].ref /\ obj'[w'[b].o].cb = 0
          /\ obj'[w'[b].o].seq \in {0, w'[b].seq} /\ obj'[w'[b].o].done \in {0, w'[b].seq}
    BY <1>0, <1>2, <1>3 DEF IssuerInv
  <2>4. /\ \A b \in Callers : w'[b].pc \in {"add", "write"} => obj'[w'[b].o].seq = w'[b].seq
        /\ \A b \in Callers : w'[b].pc = "add" => obj'[w'[b].o].done = 0
    <3> SUFFICES ASSUME NEW b \in Callers, w'[b].pc \in {"add", "write"}
                 PROVE  /\ obj'[w'[b].o].seq = w'[b].seq
                        /\ w'[b].pc = "add" => obj'[w'[b].o].done = 0
      OBVIOUS
    <3>1. w'[b] = w[b] /\ b # i /\ Active(b) /\ b \in Issuers
      BY <1>0, <1>1 DEF Active
    <3>2. w[b].o \in Objs /\ w[b].o # o
      BY <3>1, <1>0, <1>3 DEF IssuerInv
    <3> QED BY <3>1, <3>2, <1>0 DEF IssuerInv
  <2>5. \A j \in Issuers : w'[j].pc \in {"add", "write", "fail"} => w'[j].seq \notin requests' \cup responses'
    BY <1>0, <1>1, <1>3 DEF IssuerInv, Active
  <2>6. /\ \A j \in Issuers : Active(j)' => w'[j].seq \in 1..startSeq'
        /\ \A j, k \in Issuers : Active(j)' /\ Active(k)' /\ w'[j].seq = w'[k].seq => j = k
        /\ \A a, b \in Callers : Active(a)' /\ Active(b)' /\ w'[a].o = w'[b].o => b = a
    BY <1>0, <1>2 DEF IssuerInv
  <2>7. \A j \in Issuers : ~Active(j)' => w'[j].o = NoCall
    BY <1>0, <1>1, <1>2 DEF IssuerInv
  <2>8. /\ Active(Svc)' => w'[Svc].pc \in {"add", "write"} /\ w'[Svc].seq \in asyncs'
        /\ w'[Svc].pc = "add" => w'[Svc].o = NoCall
    BY <1>0, <1>1, <1>2 DEF IssuerInv
  <2> QED BY <2>1, <2>2, <2>3, <2>4, <2>5, <2>6, <2>7, <2>8 DEF IssuerInv
<1>6. NumberInv'
  BY <1>0, <1>4 DEF NumberInv
<1>7. RanInv'
  <2> SUFFICES ASSUME NEW t \in Seqs
               PROVE  /\ ran'[t] <= 1 /\ (t \in cancelled => ran'[t] = 0)
                      /\ ran'[t] # 0 \/ t \in cancelled =>
                           t \in asyncs /\ NoToken(t)' /\ ~(Active(Svc)' /\ w'[Svc].seq = t)
    BY DEF RanInv
  <2>1. CASE ran'[t] = ran[t]
    BY <2>1, <1>0, <1>2, <1>4 DEF RanInv
  <2>2. CASE ran'[t] # ran[t]
    <3>1. t = s /\ i = Svc /\ ran'[s] = ran[s] + 1 /\ NoToken(t)'
      BY <2>2
    <3>2. ran[s] = 0 /\ s \notin cancelled /\ s \in asyncs
      BY <3>1, <1>0 DEF RanInv, IssuerInv
    <3> QED BY <3>1, <3>2, <1>2
  <2> QED BY <2>1, <2>2
<1>8. AnsweredInv'
  <2> SUFFICES ASSUME NEW b \in Callers, Answered(b)'
               PROVE  /\ \A q \in Deliverers : d[q].o = w'[b].o => q = Timeout
                      /\ pending'[w'[b].seq] # NoCall =>
                           /\ w'[b].seq \notin requests' \cup responses'
                           /\ plan.close = {} /\ w'[b].pc # "write"
    BY DEF AnsweredInv
  <2>1. w'[b] = w[b] /\ b # i /\ Active(b) /\ b \in Issuers /\ w[b].o \in Objs
    BY <1>0, <1>2 DEF Answered, IssuerInv
  <2>2. Answered(b) /\ w[b].seq \in Seqs /\ w[b].seq # s
    BY <2>1, <1>0, <1>3 DEF Answered
  <2> QED BY <2>1, <2>2, <1>0 DEF AnsweredInv
<1>9. WriteInv'
  <2>1. \A j \in Issuers : Calm(plan) /\ w'[j].pc = "write" => pending'[w'[j].seq] = w'[j].o
    <3> SUFFICES ASSUME NEW j \in Issuers, Calm(plan), w'[j].pc = "write"
                 PROVE  pending'[w'[j].seq] = w'[j].o
      OBVIOUS
    <3>1. w'[j] = w[j] /\ j # i /\ Active(j)
      BY <1>1 DEF Active
    <3>2. w[j].seq \in Seqs /\ w[j].seq # s /\ pending[w[j].seq] = w[j].o
      BY <3>1, <1>0, <1>3 DEF WriteInv
    <3> QED BY <3>1, <3>2
  <2>2. \A b \in Callers : w'[b].pc = "fail" => Calm(plan)
    BY <1>0, <1>1 DEF WriteInv
  <2> QED BY <2>1, <2>2 DEF WriteInv
<1>10. PlanInv'
  BY <1>2 DEF IInv, PlanInv
<1>11. LockInv'
  BY DEF IInv, LockInv, Delivering
<1> QED BY <1>4, <1>5, <1>6, <1>7, <1>8, <1>9, <1>10, <1>11 DEF IInv

\* The types of an issuer that leaves.
LEMMA LeaveTypes ==
  ASSUME IInv, NEW i \in Issuers, w' = [w EXCEPT ![i] = Idle]
  PROVE  w' \in [Issuers -> Issuing]
<1>1. w \in [Issuers -> Issuing] /\ Idle \in Issuing
  BY Fact DEF IInv, TypeOK, ActorsOK, Issuing, Idle
<1> QED BY <1>1

\* A released object is like a new one.
LEMMA Released ==
  ASSUME IInv, NEW o \in Objs, obj[o].ref, obj' = [obj EXCEPT ![o] = ReleaseCall(o)]
  PROVE  obj' \in [Objs -> Fields] /\ ~obj'[o].ref /\ \A u \in Objs : u # o => obj'[u] = obj[u]
<1>1. obj \in [Objs -> Fields] /\ Fresh \in Fields /\ ~Fresh.ref
  BY Fact DEF IInv, TypeOK, ActorsOK, Fields, Fresh
<1> QED BY <1>1 DEF ReleaseCall

LEMMA CallReturnStep == ASSUME IInv, NEW c \in Callers, CallReturn(c) PROVE IInv'
<1>0. w[c].pc = "clean" /\ Active(c) /\ Answered(c)
  BY DEF CallReturn, Active, Answered
<1> PICK s \in Seqs, o \in Objs : s = w[c].seq /\ o = w[c].o
  BY <1>0, CallerFact
<1>1. /\ UNCHANGED <<d, chanEvent, startSeq, plan, lock, conn, node, asyncs, ran, cancelled>>
      /\ UNCHANGED <<requests, responses, closed, drops, others>>
      /\ w' = [w EXCEPT ![c] = Idle] /\ RemovePending(obj[o].seq)
      /\ obj' = [obj EXCEPT ![o] = ReleaseCall(o)]
  BY <1>0, Frames DEF CallReturn
<1>2. /\ c \in Issuers /\ s # 0 /\ s \notin asyncs /\ obj[o].ref /\ obj[o].cb = 0
      /\ obj[o].seq \in {0, s} /\ NoCall \notin Objs
      /\ \A p \in Deliverers : d[p].o = o => p = Timeout
      /\ \A t, u : Carries(t, u) /\ u = o => t = s
  BY <1>0, CallerFact, Fact
<1>3. /\ pending' \in [Seqs -> Objs \cup {NoCall}] /\ timers' \subseteq Seqs
      /\ pending'[s] \in {pending[s], NoCall}
      /\ \A t \in Seqs : t # s => pending'[t] = pending[t]
      /\ obj[o].seq = s => pending'[s] = NoCall /\ lock = "free"
  BY <1>1, <1>2 DEF RemovePending, Unpend, CancelTimer, IInv, TypeOK, CallSetOK
<1>4. /\ obj' \in [Objs -> Fields]
      /\ \A u \in Objs : u # o => obj'[u] = obj[u]
  BY <1>1, <1>2, Released
<1>5. TypeOK'
  <2>1. w' \in [Issuers -> Issuing]
    BY <1>1, <1>2, LeaveTypes
  <2> QED BY <1>1, <1>3, <1>4, <2>1 DEF IInv, TypeOK, CallSetOK, ActorsOK, ChannelOK, NetOK, CallsOK
<1>6. \A t, u : Carries(t, u) /\ Held(t, u)' => Carries(t, u)'
  <2> SUFFICES ASSUME NEW t, NEW u, Carries(t, u), Held(t, u)' PROVE u # o
    BY <1>1, <1>4 DEF Carries
  <2> SUFFICES ASSUME u = o PROVE FALSE
    OBVIOUS
  <2>1. t = s /\ obj[o].seq = s /\ pending'[s] = NoCall /\ lock = "free"
    BY <1>2, <1>3 DEF Carries
  <2>2. ~(\E p \in Deliverers : Delivering(p)' /\ d'[p].seq = t /\ d'[p].o = o)
    <3>1. ~Delivering(Timeout)
      BY <2>1 DEF IInv, LockInv, Timeout
    <3>2. \A p \in Deliverers : d[p].o = o => Delivering(p)
      BY TokenObject
    <3> QED BY <1>1, <1>2, <3>1, <3>2
  <2>3. ~(\E i \in 1..Len(chanEvent') : chanEvent'[i][1] = t)
    BY <1>1, <1>2, <2>1 DEF IInv, CarryInv
  <2> QED BY <1>2, <2>1, <2>2, <2>3 DEF Held
<1>7. /\ requests' \cup responses' \subseteq requests \cup responses \cup {s}
      /\ \A t \in Seqs : ran'[t] = ran[t]
  BY <1>1
<1>8. /\ w' = [w EXCEPT ![c] = Idle] /\ Active(c) /\ c \in Issuers
      /\ UNCHANGED <<d, chanEvent, startSeq, plan, lock, conn, node, asyncs, cancelled>>
      /\ pending'[s] \in {pending[s], NoCall} /\ \A t \in Seqs : t # s => pending'[t] = pending[t]
      /\ \A u \in Objs : u # o => obj'[u] = obj[u]
      /\ ran'[s] = ran[s] /\ \A t \in Seqs : t # s => ran'[t] = ran[t]
      /\ s = w[c].seq /\ o = w[c].o
  BY <1>0, <1>1, <1>2, <1>3, <1>4
<1> QED BY <1>5, <1>6, <1>7, <1>8, LeaveStep

\* The number of a new call.
LEMMA NewNumber ==
  ASSUME IInv, startSeq < MaxCalls
  PROVE  /\ startSeq + 1 \in Seqs /\ startSeq + 1 \in 0..MaxCalls /\ startSeq + 1 # 0
         /\ NoToken(startSeq + 1) /\ ran[startSeq + 1] = 0
         /\ startSeq + 1 \notin asyncs \cup requests \cup responses \cup cancelled
         /\ \A i \in Issuers : Active(i) => w[i].seq # startSeq + 1
<1>1. startSeq + 1 \in Seqs /\ startSeq + 1 > startSeq /\ startSeq + 1 # 0 /\ startSeq + 1 \in 0..MaxCalls
  BY Fact DEF Seqs
<1>2. \A i \in Issuers : Active(i) => w[i].seq # startSeq + 1
  BY Fact DEF IInv, IssuerInv
<1> QED BY <1>1, <1>2 DEF IInv, NumberInv

LEMMA GoStep ==
  ASSUME IInv, NEW c \in Callers, NEW n \in plan.sync, NEW o \in Objs, Go(c, n, o)
  PROVE  IInv'
<1> PICK s : s = startSeq + 1
  OBVIOUS
<1>0. w[c].pc = "idle" /\ ~Active(c) /\ startSeq < MaxCalls /\ ~obj[o].ref
  BY DEF Go, MakeCall, Active
<1>1. /\ UNCHANGED <<pending, timers, lock, d, chanEvent, plan, conn, closed, requests, responses, drops>>
      /\ UNCHANGED <<others, asyncs, ran, cancelled>>
      /\ startSeq' = s /\ node' = [node EXCEPT ![s] = n]
  BY Frames DEF Go, generateSeq
<1>2. /\ s \in Seqs /\ s \in 0..MaxCalls /\ s # 0 /\ NoToken(s)
      /\ s \notin asyncs \cup requests \cup responses \cup cancelled
      /\ \A i \in Issuers : Active(i) => w[i].seq # s
  BY <1>0, NewNumber
<1>3. PICK x \in {"add", "wait"}, e \in {0, s}, f \in {0, s} :
        /\ w' = [w EXCEPT ![c] = [pc |-> x, seq |-> s, o |-> o]]
        /\ obj' = [obj EXCEPT ![o] = [ref |-> TRUE, seq |-> e, cb |-> 0, done |-> f]]
        /\ x = "add" => e = s /\ f = 0
  <2>1. CASE Connected(n)
    <3>1. /\ w' = [w EXCEPT ![c] = [pc |-> "add", seq |-> s, o |-> o]]
          /\ obj' = [obj EXCEPT ![o] = [ref |-> TRUE, seq |-> s, cb |-> 0, done |-> 0]]
      BY <2>1, <1>1 DEF Go, Fresh
    <3> QED BY <3>1
  <2>2. CASE ~Connected(n)
    <3>1. /\ w' = [w EXCEPT ![c] = [pc |-> "wait", seq |-> s, o |-> o]]
          /\ obj' = [obj EXCEPT ![o] = [ref |-> TRUE, seq |-> 0, cb |-> 0, done |-> s]]
      BY <2>2, <1>1 DEF Go, Fresh
    <3> QED BY <3>1
  <2> QED BY <2>1, <2>2
<1>4. /\ IssuerInv /\ NumberInv /\ RanInv /\ AnsweredInv /\ WriteInv /\ CarryInv /\ UniqueInv
      /\ \A j \in Issuers : Active(j) => w[j].seq \in Seqs
      /\ Issuers = Callers \cup {Svc} /\ Svc \notin Callers /\ c \in Issuers /\ Svc # c /\ Svc \in Issuers
      /\ Seqs \subseteq Nat /\ startSeq \in Nat /\ NoCall \notin Objs
  BY Fact DEF IInv
<1>5. /\ w' \in [Issuers -> Issuing]
      /\ w'[c].pc = x /\ w'[c].seq = s /\ w'[c].o = o
      /\ \A i \in Issuers : i # c => w'[i] = w[i]
  <2>1. w \in [Issuers -> Issuing] /\ [pc |-> x, seq |-> s, o |-> o] \in Issuing
    BY <1>2, <1>3 DEF IInv, TypeOK, ActorsOK, Issuing
  <2> QED BY <1>3, <1>4, <2>1
<1>6. /\ obj' \in [Objs -> Fields]
      /\ obj'[o].ref /\ obj'[o].seq = e /\ obj'[o].cb = 0 /\ obj'[o].done = f
      /\ \A u \in Objs : u # o => obj'[u] = obj[u]
  <2>1. obj \in [Objs -> Fields] /\ [ref |-> TRUE, seq |-> e, cb |-> 0, done |-> f] \in Fields
    BY <1>2, <1>3, Fact DEF IInv, TypeOK, ActorsOK, Fields
  <2> QED BY <1>3, <2>1
<1>7. /\ Active(c)'
      /\ \A i \in Issuers : i # c => (Active(i)' <=> Active(i))
  BY <1>3, <1>5 DEF Active
<1>8. \A b \in Callers : Active(b) => b # c /\ w[b].o # o /\ w[b].o \in Objs
  BY <1>0, <1>4 DEF IssuerInv
<1>9. \A t, u : Carries(t, u) => Carries(t, u)'
  BY <1>0, <1>1, <1>6 DEF Carries
<1>10. TypeOK'
  <2>1. n \in Nodes
    BY NodesAssumption DEF IInv, PlanInv
  <2>2. CallsOK'
    BY <1>1, <2>1 DEF IInv, TypeOK, CallsOK
  <2>3. CallSetOK' /\ ActorsOK'
    BY <1>1, <1>2, <1>5, <1>6 DEF IInv, TypeOK, CallSetOK, ActorsOK
  <2> QED BY <1>1, <2>2, <2>3 DEF IInv, TypeOK, ChannelOK, NetOK
<1>11. CarryInv' /\ UniqueInv' /\ \A t \in Seqs : NoToken(t) => NoToken(t)'
  BY <1>1, <1>4, <1>9, Shrink
<1>12. IssuerInv'
  <2>1. \A j \in Issuers : w'[j].pc = "add" => NoToken(w[j].seq)'
    <3> SUFFICES ASSUME NEW j \in Issuers, w'[j].pc = "add" PROVE NoToken(w[j].seq)'
      OBVIOUS
    <3>1. PICK t : t = w'[j].seq
      OBVIOUS
    <3>2. CASE j = c
      BY <3>1, <3>2, <1>2, <1>5, <1>11 DEF NoToken, InEvents, InDelivery
    <3>3. CASE j # c
      <4>1. w[j].pc = "add" /\ w'[j] = w[j] /\ Active(j)
        BY <3>3, <1>5 DEF Active
      <4>2. NoToken(t)'
        BY <3>1, <4>1, <1>4, <1>11 DEF IssuerInv
      <4> QED BY <3>1, <4>2 DEF NoToken, InEvents, InDelivery
    <3> QED BY <3>2, <3>3
  <2>2. w'[Svc].pc = "write" => Carries(w[Svc].seq, w[Svc].o)'
    <3> SUFFICES ASSUME w'[Svc].pc = "write" PROVE Carries(w[Svc].seq, w[Svc].o)'
      OBVIOUS
    <3>1. w'[Svc] = w[Svc] /\ Carries(w[Svc].seq, w[Svc].o)
      BY <1>4, <1>5 DEF IssuerInv
    <3>2. w[Svc].o # o
      BY <3>1, <1>0 DEF Carries
    <3> QED BY <3>1, <3>2, <1>1, <1>6 DEF Carries
  <2>3. \A b \in Callers : Active(b)' =>
          /\ w'[b].seq \notin asyncs' /\ w'[b].o \in Objs
          /\ obj'[w'[b].o].ref /\ obj'[w'[b].o].cb = 0
          /\ obj'[w'[b].o].seq \in {0, w'[b].seq} /\ obj'[w'[b].o].done \in {0, w'[b].seq}
    <3> SUFFICES ASSUME NEW b \in Callers, Active(b)'
                 PROVE  /\ w'[b].seq \notin asyncs /\ w'[b].o \in Objs
                        /\ obj'[w'[b].o].ref /\ obj'[w'[b].o].cb = 0
                        /\ obj'[w'[b].o].seq \in {0, w'[b].seq} /\ obj'[w'[b].o].done \in {0, w'[b].seq}
      BY <1>1
    <3>1. CASE b = c
      BY <3>1, <1>2, <1>5, <1>6
    <3>2. CASE b # c
      <4>1. w'[b] = w[b] /\ Active(b) /\ w[b].o # o
        BY <3>2, <1>4, <1>5, <1>7, <1>8
      <4> QED BY <4>1, <1>4, <1>6 DEF IssuerInv
    <3> QED BY <3>1, <3>2
  <2>4. \A b \in Callers : w'[b].pc \in {"add", "write"} =>
           obj'[w'[b].o].seq = w'[b].seq /\ (w'[b].pc = "add" => obj'[w'[b].o].done = 0)
    <3> SUFFICES ASSUME NEW b \in Callers, w'[b].pc \in {"add", "write"}
                 PROVE  /\ obj'[w'[b].o].seq = w'[b].seq
                        /\ w'[b].pc = "add" => obj'[w'[b].o].done = 0
      OBVIOUS
    <3>1. CASE b = c
      BY <3>1, <1>3, <1>5, <1>6
    <3>2. CASE b # c
      <4>1. w'[b] = w[b] /\ Active(b) /\ w[b].o # o /\ w[b].o \in Objs
        BY <3>2, <1>4, <1>5, <1>8 DEF Active
      <4> QED BY <4>1, <1>4, <1>6 DEF IssuerInv
    <3> QED BY <3>1, <3>2
  <2>5. \A j \in Issuers : w'[j].pc \in {"add", "write", "fail"} => w'[j].seq \notin requests' \cup responses'
    BY <1>1, <1>2, <1>4, <1>5 DEF IssuerInv
  <2>6. \A j \in Issuers : Active(j)' => w'[j].seq \in 1..startSeq'
    <3> SUFFICES ASSUME NEW j \in Issuers, Active(j)' PROVE w'[j].seq \in 1..s
      BY <1>1
    <3>1. CASE j = c
      BY <3>1, <1>2, <1>4, <1>5
    <3>2. CASE j # c
      BY <3>2, <1>4, <1>5, <1>7 DEF IssuerInv
    <3> QED BY <3>1, <3>2
  <2>7. /\ \A j, k \in Issuers : Active(j)' /\ Active(k)' /\ w'[j].seq = w'[k].seq => j = k
        /\ \A a, b \in Callers : Active(a)' /\ Active(b)' /\ w'[a].o = w'[b].o => b = a
    BY <1>2, <1>4, <1>5, <1>7, <1>8 DEF IssuerInv
  <2>8. \A j \in Issuers : ~Active(j)' => w'[j].o = NoCall
    BY <1>4, <1>5, <1>7 DEF IssuerInv
  <2>9. /\ Active(Svc)' => w'[Svc].pc \in {"add", "write"} /\ w'[Svc].seq \in asyncs'
        /\ w'[Svc].pc = "add" => w'[Svc].o = NoCall
    BY <1>1, <1>4, <1>5, <1>7 DEF IssuerInv
  <2> QED BY <2>1, <2>2, <2>3, <2>4, <2>5, <2>6, <2>7, <2>8, <2>9 DEF IssuerInv
<1>13. NumberInv'
  <2>0. startSeq' = startSeq + 1 /\ startSeq \in Nat /\ Seqs \subseteq Nat
    BY <1>1, <1>4
  <2>1. \A t \in Seqs : t > startSeq' => t > startSeq
    BY <2>0
  <2> QED BY <1>1, <1>4, <1>11, <2>1 DEF NumberInv
<1>14. RanInv'
  <2>1. (Active(Svc)' <=> Active(Svc)) /\ w'[Svc] = w[Svc]
    BY <1>4, <1>5, <1>7
  <2> QED BY <1>1, <1>4, <1>11, <2>1 DEF RanInv
<1>15. AnsweredInv'
  <2> SUFFICES ASSUME NEW b \in Callers, Answered(b)'
               PROVE  /\ \A q \in Deliverers : d[q].o = w'[b].o => q = Timeout
                      /\ pending[w'[b].seq] # NoCall =>
                           /\ w'[b].seq \notin requests \cup responses
                           /\ plan.close = {} /\ w'[b].pc # "write"
    BY <1>1 DEF AnsweredInv
  <2>1. CASE b = c
    <3>1. \A q \in Deliverers : d[q].o # o
      BY <1>0, TokenObject DEF Carries
    <3>2. pending[s] = NoCall
      BY <1>2 DEF NoToken
    <3> QED BY <2>1, <3>1, <3>2, <1>5
  <2>2. CASE b # c
    <3>1. w'[b] = w[b] /\ Active(b) /\ w[b].o # o /\ w[b].o \in Objs
      BY <2>2, <1>4, <1>5, <1>7, <1>8 DEF Answered
    <3>2. Answered(b)
      BY <3>1, <1>6 DEF Answered
    <3> QED BY <3>1, <3>2, <1>4 DEF AnsweredInv
  <2> QED BY <2>1, <2>2
<1>16. WriteInv'
  <2>1. \A j \in Issuers : Calm(plan) /\ w'[j].pc = "write" => pending[w'[j].seq] = w'[j].o
    BY <1>4, <1>5 DEF WriteInv
  <2>2. \A b \in Callers : w'[b].pc = "fail" => Calm(plan)
    BY <1>4, <1>5 DEF WriteInv
  <2> QED BY <1>1, <2>1, <2>2 DEF WriteInv
<1>17. PlanInv'
  <2>1. node'[s] = n /\ \A t \in Seqs : t # s => node'[t] = node[t]
    BY <1>1, <1>2 DEF IInv, TypeOK, CallsOK
  <2>2. \A j \in Issuers : Active(j)' => node'[w'[j].seq] \in plan.async \cup plan.sync
    BY <2>1, <1>2, <1>4, <1>5, <1>7 DEF IInv, PlanInv
  <2> QED BY <1>1, <2>2 DEF IInv, PlanInv
<1>18. LockInv'
  BY <1>1 DEF IInv, LockInv, Delivering
<1> QED BY <1>10, <1>11, <1>12, <1>13, <1>14, <1>15, <1>16, <1>17, <1>18 DEF IInv

-----------------------------------------------------------------------------
(* Asynchronous calls.                                                     *)

LEMMA AsyncCallStep == ASSUME IInv, NEW n \in plan.async, AsyncCall(n) PROVE IInv'
<1> PICK s : s = startSeq + 1
  OBVIOUS
<1>0. w[Svc].pc = "idle" /\ ~Active(Svc) /\ startSeq < MaxCalls
  BY DEF AsyncCall, Active
<1>1. /\ UNCHANGED <<pending, timers, lock, d, chanEvent, plan, conn, closed, requests, responses, drops>>
      /\ UNCHANGED <<others, cancelled, obj>>
      /\ startSeq' = s /\ node' = [node EXCEPT ![s] = n] /\ asyncs' = asyncs \cup {s}
  BY Frames DEF AsyncCall, generateSeq
<1>2. /\ s \in Seqs /\ s \in 0..MaxCalls /\ s # 0 /\ NoToken(s) /\ ran[s] = 0
      /\ s \notin asyncs \cup requests \cup responses \cup cancelled
      /\ \A i \in Issuers : Active(i) => w[i].seq # s
  BY <1>0, NewNumber
<1>3. /\ IssuerInv /\ NumberInv /\ RanInv /\ AnsweredInv /\ WriteInv /\ CarryInv /\ UniqueInv
      /\ \A j \in Issuers : Active(j) => w[j].seq \in Seqs
      /\ Issuers = Callers \cup {Svc} /\ Svc \notin Callers /\ Svc \in Issuers
      /\ Seqs \subseteq Nat /\ startSeq \in Nat /\ NoCall \notin Objs
  BY Fact DEF IInv
<1>4. /\ \A i \in Callers : w'[i] = w[i]
      /\ w' \in [Issuers -> Issuing] /\ ran' \in [Seqs -> 0..2]
      /\ \A t \in Seqs : t # s => ran'[t] = ran[t]
      /\ \/ w'[Svc].pc = "add" /\ w'[Svc].seq = s /\ w'[Svc].o = NoCall /\ ran'[s] = 0
         \/ w'[Svc] = w[Svc] /\ ran'[s] = 1
  <2>1. w \in [Issuers -> Issuing] /\ [pc |-> "add", seq |-> s, o |-> NoCall] \in Issuing /\ ran \in [Seqs -> 0..2]
    BY <1>2 DEF IInv, TypeOK, ActorsOK, CallsOK, Issuing
  <2>2. CASE Connected(n)
    <3>1. w' = [w EXCEPT ![Svc] = [pc |-> "add", seq |-> s, o |-> NoCall]] /\ ran' = ran
      BY <2>2, <1>1 DEF AsyncCall
    <3> QED BY <2>1, <3>1, <1>2, <1>3
  <2>3. CASE ~Connected(n)
    <3>1. w' = w /\ ran' = [ran EXCEPT ![s] = IF @ < 2 THEN @ + 1 ELSE @]
      BY <2>3, <1>1 DEF AsyncCall, RunOnce
    <3> QED BY <2>1, <3>1, <1>2, <1>3
  <2> QED BY <2>2, <2>3
<1>5. /\ \A i \in Callers : Active(i)' <=> Active(i)
      /\ Active(Svc)' => w'[Svc].pc = "add" /\ w'[Svc].seq = s /\ w'[Svc].o = NoCall /\ ran'[s] = 0
      /\ ~Active(Svc)' => w'[Svc].o = NoCall
      /\ ran'[s] \in {0, 1} /\ (ran'[s] = 1 => ~Active(Svc)')
      /\ w'[Svc].pc \in {"idle", "add"}
  BY <1>0, <1>3, <1>4 DEF Active, IssuerInv
<1>6. \A t, u : Carries(t, u) /\ Held(t, u)' => Carries(t, u)'
  <2> SUFFICES ASSUME NEW t, NEW u, Carries(t, u), Held(t, u)' PROVE Carries(t, u)'
    OBVIOUS
  <2>1. t # s
    BY <1>1, <1>2, HeldToken DEF NoToken, InDelivery, InEvents, Delivering
  <2> QED BY <2>1, <1>1 DEF Carries
<1>7. TypeOK'
  <2>1. n \in Nodes
    BY NodesAssumption DEF IInv, PlanInv
  <2>2. CallsOK'
    BY <1>1, <1>2, <1>4, <2>1 DEF IInv, TypeOK, CallsOK
  <2>3. CallSetOK' /\ ActorsOK'
    BY <1>1, <1>2, <1>4 DEF IInv, TypeOK, CallSetOK, ActorsOK
  <2> QED BY <1>1, <2>2, <2>3 DEF IInv, TypeOK, ChannelOK, NetOK
<1>8. CarryInv' /\ UniqueInv' /\ \A t \in Seqs : NoToken(t) => NoToken(t)'
  BY <1>1, <1>3, <1>6, Shrink
<1>9. \A c \in Callers : Active(c) => w[c].seq # s /\ w[c].seq \in Seqs /\ c \in Issuers
  BY <1>2, <1>3
<1>10. IssuerInv'
  <2>1. \A j \in Issuers : w'[j].pc = "add" => NoToken(w[j].seq)'
    <3> SUFFICES ASSUME NEW j \in Issuers, w'[j].pc = "add" PROVE NoToken(w[j].seq)'
      OBVIOUS
    <3>1. PICK t : t = w'[j].seq
      OBVIOUS
    <3>2. CASE j = Svc
      <4>1. t = s
        BY <3>1, <3>2, <1>5 DEF Active
      <4> QED BY <3>1, <4>1, <1>2, <1>8 DEF NoToken, InEvents, InDelivery
    <3>3. CASE j # Svc
      <4>1. w[j].pc = "add" /\ w'[j] = w[j] /\ Active(j)
        BY <3>3, <1>3, <1>4 DEF Active
      <4>2. NoToken(t)'
        BY <3>1, <4>1, <1>3, <1>8 DEF IssuerInv
      <4> QED BY <3>1, <4>2 DEF NoToken, InEvents, InDelivery
    <3> QED BY <3>2, <3>3
  <2>2. \A b \in Callers : Active(b)' =>
          /\ w'[b].seq \notin asyncs' /\ w'[b].o \in Objs
          /\ obj'[w'[b].o].ref /\ obj'[w'[b].o].cb = 0
          /\ obj'[w'[b].o].seq \in {0, w'[b].seq} /\ obj'[w'[b].o].done \in {0, w'[b].seq}
    BY <1>1, <1>3, <1>4, <1>5, <1>9 DEF IssuerInv
  <2>3. /\ \A b \in Callers : w'[b].pc \in {"add", "write"} => obj'[w'[b].o].seq = w'[b].seq
        /\ \A b \in Callers : w'[b].pc = "add" => obj'[w'[b].o].done = 0
    BY <1>1, <1>3, <1>4 DEF IssuerInv
  <2>4. \A j \in Issuers : w'[j].pc \in {"add", "write", "fail"} => w'[j].seq \notin requests' \cup responses'
    BY <1>1, <1>2, <1>3, <1>4, <1>5 DEF IssuerInv, Active
  <2>5. \A j \in Issuers : Active(j)' => w'[j].seq \in 1..startSeq'
    <3> SUFFICES ASSUME NEW j \in Issuers, Active(j)' PROVE w'[j].seq \in 1..s
      BY <1>1
    <3>1. CASE j = Svc
      BY <3>1, <1>2, <1>3, <1>5
    <3>2. CASE j # Svc
      BY <3>2, <1>3, <1>4, <1>5 DEF IssuerInv
    <3> QED BY <3>1, <3>2
  <2>6. /\ \A j, k \in Issuers : Active(j)' /\ Active(k)' /\ w'[j].seq = w'[k].seq => j = k
        /\ \A a, b \in Callers : Active(a)' /\ Active(b)' /\ w'[a].o = w'[b].o => b = a
    BY <1>3, <1>4, <1>5, <1>9 DEF IssuerInv
  <2>7. \A j \in Issuers : ~Active(j)' => w'[j].o = NoCall
    BY <1>3, <1>4, <1>5 DEF IssuerInv
  <2>8. /\ Active(Svc)' => w'[Svc].pc \in {"add", "write"} /\ w'[Svc].seq \in asyncs'
        /\ w'[Svc].pc = "add" => w'[Svc].o = NoCall
        /\ w'[Svc].pc # "write"
    BY <1>1, <1>5 DEF Active
  <2> QED BY <2>1, <2>2, <2>3, <2>4, <2>5, <2>6, <2>7, <2>8 DEF IssuerInv
<1>11. NumberInv'
  <2>1. \A t \in Seqs : t > startSeq' => t > startSeq /\ t # s
    BY <1>1, <1>2, <1>3
  <2> QED BY <1>1, <1>3, <1>4, <1>8, <2>1 DEF NumberInv
<1>12. RanInv'
  <2> SUFFICES ASSUME NEW t \in Seqs
               PROVE  /\ ran'[t] <= 1 /\ (t \in cancelled => ran'[t] = 0)
                      /\ ran'[t] # 0 \/ t \in cancelled =>
                           t \in asyncs' /\ NoToken(t)' /\ ~(Active(Svc)' /\ w'[Svc].seq = t)
    BY <1>1 DEF RanInv
  <2>1. CASE t = s
    BY <2>1, <1>1, <1>2, <1>5, <1>8
  <2>2. CASE t # s
    BY <2>2, <1>1, <1>3, <1>4, <1>5, <1>8 DEF RanInv
  <2> QED BY <2>1, <2>2
<1>13. AnsweredInv'
  <2> SUFFICES ASSUME NEW b \in Callers, Answered(b)'
               PROVE  /\ \A q \in Deliverers : d[q].o = w[b].o => q = Timeout
                      /\ pending[w[b].seq] # NoCall =>
                           /\ w[b].seq \notin requests \cup responses
                           /\ plan.close = {} /\ w[b].pc # "write"
    BY <1>1, <1>4 DEF AnsweredInv
  <2>1. Answered(b)
    BY <1>1, <1>4, <1>5 DEF Answered
  <2> QED BY <2>1, <1>3 DEF AnsweredInv
<1>14. WriteInv'
  BY <1>1, <1>3, <1>4, <1>5 DEF WriteInv
<1>15. PlanInv'
  <2>1. node'[s] = n /\ \A t \in Seqs : t # s => node'[t] = node[t]
    BY <1>1, <1>2 DEF IInv, TypeOK, CallsOK
  <2>2. \A j \in Issuers : Active(j) => node[w[j].seq] \in plan.async \cup plan.sync
    BY DEF IInv, PlanInv
  <2>3. \A j \in Callers : Active(j)' => node'[w'[j].seq] \in plan.async \cup plan.sync
    BY <2>1, <2>2, <1>4, <1>5, <1>9
  <2>4. Active(Svc)' => node'[w'[Svc].seq] \in plan.async \cup plan.sync
    BY <2>1, <1>5
  <2> QED BY <1>1, <1>3, <2>3, <2>4 DEF IInv, PlanInv
<1>16. LockInv'
  BY <1>1 DEF IInv, LockInv, Delivering
<1> QED BY <1>7, <1>8, <1>10, <1>11, <1>12, <1>13, <1>14, <1>15, <1>16 DEF IInv

LEMMA AsyncAddStep == ASSUME IInv, NEW o \in Objs, AsyncAdd(o) PROVE IInv'
<1>0. w[Svc].pc = "add" /\ Active(Svc) /\ ~obj[o].ref
  BY DEF AsyncAdd, Active, MakeCall
<1>1. /\ IssuerInv /\ NumberInv /\ RanInv /\ AnsweredInv /\ WriteInv /\ CarryInv
      /\ \A j \in Issuers : Active(j) => w[j].seq \in Seqs
      /\ Issuers = Callers \cup {Svc} /\ Svc \notin Callers /\ Svc \in Issuers
      /\ Seqs \subseteq Nat /\ startSeq \in Nat /\ NoCall \notin Objs
  BY Fact DEF IInv
<1> PICK s \in Seqs : s = w[Svc].seq
  BY <1>0, <1>1
<1>2. /\ s \in 1..startSeq /\ s \in asyncs /\ NoToken(s) /\ s \notin requests \cup responses
      /\ s \in 0..MaxCalls /\ s # 0
  BY <1>0, <1>1, Fact DEF IssuerInv, Seqs
<1>3. /\ UNCHANGED <<d, chanEvent, startSeq, plan, lock, conn, node, asyncs, ran, cancelled>>
      /\ UNCHANGED <<requests, responses, closed, drops, others>>
      /\ w' = [w EXCEPT ![Svc] = [pc |-> "write", seq |-> s, o |-> o]]
      /\ obj' = [obj EXCEPT ![o] = [Fresh EXCEPT !.ref = TRUE, !.seq = s, !.cb = s]]
      /\ pending' = [pending EXCEPT ![s] = o] /\ timers' = timers \cup {s}
  BY <1>0, Frames DEF AsyncAdd, AddPending
<1>4. /\ w' \in [Issuers -> Issuing]
      /\ w'[Svc].pc = "write" /\ w'[Svc].seq = s /\ w'[Svc].o = o
      /\ \A c \in Callers : w'[c] = w[c]
      /\ pending'[s] = o /\ \A t \in Seqs : t # s => pending'[t] = pending[t]
  <2>1. w \in [Issuers -> Issuing] /\ [pc |-> "write", seq |-> s, o |-> o] \in Issuing
    BY <1>2 DEF IInv, TypeOK, ActorsOK, Issuing
  <2> QED BY <1>1, <1>3, <2>1 DEF IInv, TypeOK, CallSetOK
<1>5. /\ obj' \in [Objs -> Fields]
      /\ obj'[o].ref /\ obj'[o].seq = s /\ obj'[o].cb = s /\ obj'[o].done = 0
      /\ \A u \in Objs : u # o => obj'[u] = obj[u]
  <2> DEFINE r == [Fresh EXCEPT !.ref = TRUE, !.seq = s, !.cb = s]
  <2>1. r.ref = TRUE /\ r.seq = s /\ r.cb = s /\ r.done = 0
    BY DEF Fresh
  <2>2. Fresh \in Fields /\ obj \in [Objs -> Fields]
    BY Fact DEF IInv, TypeOK, ActorsOK, Fields, Fresh
  <2>3. r \in Fields
    BY <1>2, <2>2 DEF Fields
  <2> QED BY <1>3, <2>1, <2>2, <2>3
<1>6. Active(Svc)' /\ \A c \in Callers : Active(c)' <=> Active(c)
  BY <1>4 DEF Active
<1>7. TypeOK'
  <2>1. CallSetOK' /\ ActorsOK'
    BY <1>3, <1>4, <1>5 DEF IInv, TypeOK, CallSetOK, ActorsOK
  <2> QED BY <1>3, <2>1 DEF IInv, TypeOK, ChannelOK, NetOK, CallsOK
<1>8. Carries(s, o)' /\ \A t, u : Carries(t, u) => Carries(t, u)'
  BY <1>0, <1>2, <1>3, <1>5 DEF Carries
<1>9. CarryInv' /\ UniqueInv' /\ \A t \in Seqs : t # s /\ NoToken(t) => NoToken(t)'
  BY <1>2, <1>3, <1>8, Add
<1>10. \A c \in Callers : Active(c) => w[c].seq # s /\ w[c].seq \in Seqs /\ c \in Issuers
                                       /\ w[c].o \in Objs /\ w[c].o # o
  BY <1>0, <1>1 DEF IssuerInv
<1>11. IssuerInv'
  <2>1. \A j \in Issuers : w'[j].pc = "add" => NoToken(w[j].seq)'
    <3> SUFFICES ASSUME NEW j \in Issuers, w'[j].pc = "add" PROVE NoToken(w[j].seq)'
      OBVIOUS
    <3>1. PICK t : t = w'[j].seq
      OBVIOUS
    <3>2. w[j].pc = "add" /\ w'[j] = w[j] /\ Active(j) /\ j \in Callers
      BY <1>1, <1>4 DEF Active
    <3>3. NoToken(t) /\ t # s /\ t \in Seqs
      BY <3>1, <3>2, <1>1, <1>10 DEF IssuerInv
    <3> QED BY <3>1, <3>3, <1>9 DEF NoToken, InEvents, InDelivery
  <2>2. Carries(w[Svc].seq, w[Svc].o)'
    BY <1>4, <1>8 DEF Carries
  <2>3. \A b \in Callers : Active(b)' =>
          /\ w'[b].seq \notin asyncs' /\ w'[b].o \in Objs
          /\ obj'[w'[b].o].ref /\ obj'[w'[b].o].cb = 0
          /\ obj'[w'[b].o].seq \in {0, w'[b].seq} /\ obj'[w'[b].o].done \in {0, w'[b].seq}
    BY <1>1, <1>3, <1>4, <1>5, <1>6, <1>10 DEF IssuerInv
  <2>4. /\ \A b \in Callers : w'[b].pc \in {"add", "write"} => obj'[w'[b].o].seq = w'[b].seq
        /\ \A b \in Callers : w'[b].pc = "add" => obj'[w'[b].o].done = 0
    BY <1>1, <1>4, <1>5, <1>10 DEF IssuerInv, Active
  <2>5. \A j \in Issuers : w'[j].pc \in {"add", "write", "fail"} => w'[j].seq \notin requests' \cup responses'
    BY <1>1, <1>2, <1>3, <1>4 DEF IssuerInv
  <2>6. /\ \A j \in Issuers : Active(j)' => w'[j].seq \in 1..startSeq'
        /\ \A j \in Issuers : ~Active(j)' => w'[j].o = NoCall
        /\ \A a, b \in Callers : Active(a)' /\ Active(b)' /\ w'[a].o = w'[b].o => b = a
    BY <1>1, <1>2, <1>3, <1>4, <1>6 DEF IssuerInv
  <2>7. \A j, k \in Issuers : Active(j)' /\ Active(k)' /\ w'[j].seq = w'[k].seq => j = k
    BY <1>1, <1>4, <1>6, <1>10 DEF IssuerInv
  <2>8. w'[Svc].pc = "write" /\ w'[Svc].seq \in asyncs'
    BY <1>2, <1>3, <1>4
  <2> QED BY <2>1, <2>2, <2>3, <2>4, <2>5, <2>6, <2>7, <2>8 DEF IssuerInv
<1>12. NumberInv'
  BY <1>1, <1>2, <1>3, <1>9 DEF NumberInv
<1>13. RanInv'
  <2> SUFFICES ASSUME NEW t \in Seqs
               PROVE  /\ ran[t] <= 1 /\ (t \in cancelled => ran[t] = 0)
                      /\ ran[t] # 0 \/ t \in cancelled =>
                           t \in asyncs /\ NoToken(t)' /\ ~(Active(Svc)' /\ w'[Svc].seq = t)
    BY <1>3 DEF RanInv
  <2>1. t = s => ran[t] = 0 /\ t \notin cancelled
    BY <1>0, <1>1 DEF RanInv
  <2> QED BY <2>1, <1>1, <1>4, <1>9 DEF RanInv
<1>14. AnsweredInv'
  <2> SUFFICES ASSUME NEW b \in Callers, Answered(b)'
               PROVE  /\ \A q \in Deliverers : d[q].o = w[b].o => q = Timeout
                      /\ pending'[w[b].seq] # NoCall =>
                           /\ w[b].seq \notin requests \cup responses
                           /\ plan.close = {} /\ w[b].pc # "write"
    BY <1>3, <1>4 DEF AnsweredInv
  <2>1. Active(b)
    BY <1>6 DEF Answered
  <2>2. Answered(b) /\ pending'[w[b].seq] = pending[w[b].seq]
    BY <2>1, <1>4, <1>5, <1>10 DEF Answered
  <2> QED BY <2>2, <1>1 DEF AnsweredInv
<1>15. WriteInv'
  <2>1. \A c \in Callers : Calm(plan) /\ w'[c].pc = "write" => pending'[w'[c].seq] = w'[c].o
    <3> SUFFICES ASSUME NEW c \in Callers, Calm(plan), w'[c].pc = "write"
                 PROVE  pending'[w'[c].seq] = w'[c].o
      OBVIOUS
    <3>1. w'[c] = w[c] /\ w[c].pc = "write" /\ Active(c) /\ c \in Issuers
      BY <1>1, <1>4 DEF Active
    <3>2. pending[w[c].seq] = w[c].o
      BY <3>1, <1>1 DEF WriteInv
    <3>3. w[c].seq # s /\ w[c].seq \in Seqs
      BY <3>1, <1>10
    <3>4. pending'[w[c].seq] = pending[w[c].seq]
      BY <3>3, <1>4
    <3> QED BY <3>1, <3>2, <3>4
  <2>2. \A c \in Callers : w'[c].pc = "fail" => Calm(plan)
    BY <1>1, <1>4 DEF WriteInv
  <2> QED BY <1>1, <1>3, <1>4, <2>1, <2>2 DEF WriteInv
<1>16. PlanInv'
  <2>1. \A j \in Issuers : Active(j) => node[w[j].seq] \in plan.async \cup plan.sync
    BY DEF IInv, PlanInv
  <2>2. \A j \in Issuers : Active(j)' => node[w'[j].seq] \in plan.async \cup plan.sync
    BY <2>1, <1>0, <1>1, <1>4, <1>6
  <2> QED BY <1>3, <2>2 DEF IInv, PlanInv
<1>17. LockInv'
  BY <1>3 DEF IInv, LockInv, Delivering
<1> QED BY <1>7, <1>9, <1>11, <1>12, <1>13, <1>14, <1>15, <1>16, <1>17 DEF IInv

\* What the service knows of the call it is writing.
LEMMA SvcFact ==
  ASSUME IInv, w[Svc].pc = "write"
  PROVE  /\ Active(Svc) /\ Svc \in Issuers /\ w[Svc].seq \in Seqs /\ w[Svc].seq # 0 /\ w[Svc].o \in Objs
         /\ w[Svc].seq \in asyncs /\ ran[w[Svc].seq] = 0
         /\ obj[w[Svc].o].ref /\ obj[w[Svc].o].seq = w[Svc].seq
<1>1. Active(Svc) /\ Svc \in Issuers /\ w[Svc].seq \in Seqs /\ 0 \notin Seqs /\ IssuerInv /\ RanInv
  BY Fact DEF IInv, Active
<1>2. w[Svc].seq \in asyncs /\ Carries(w[Svc].seq, w[Svc].o)
  BY <1>1 DEF IssuerInv
<1> QED BY <1>1, <1>2 DEF RanInv, Carries

LEMMA AsyncWriteStep == ASSUME IInv, AsyncWrite PROVE IInv'
<1>0. w[Svc].pc = "write"
  BY DEF AsyncWrite
<1> PICK s \in Seqs, o \in Objs : s = w[Svc].seq /\ o = w[Svc].o
  BY <1>0, SvcFact
<1>1. /\ UNCHANGED <<d, chanEvent, startSeq, plan, lock, conn, node, asyncs, cancelled>>
      /\ UNCHANGED <<pending, timers, obj, ran, responses, closed, drops, others>>
      /\ w' = [w EXCEPT ![Svc] = Idle] /\ requests' \subseteq requests \cup {s}
      /\ Active(Svc) /\ Svc \in Issuers
  BY <1>0, SvcFact, Frames DEF AsyncWrite, Sent
<1>2. w' \in [Issuers -> Issuing]
  BY <1>1, LeaveTypes
<1>3. TypeOK'
  BY <1>1, <1>2 DEF IInv, TypeOK, CallSetOK, ActorsOK, ChannelOK, NetOK, CallsOK
<1>4. \A t, u : Carries(t, u) /\ Held(t, u)' => Carries(t, u)'
  BY <1>1 DEF Carries
<1>5. /\ pending'[s] \in {pending[s], NoCall} /\ \A t \in Seqs : t # s => pending'[t] = pending[t]
      /\ \A u \in Objs : u # o => obj'[u] = obj[u]
      /\ ran'[s] = ran[s] /\ \A t \in Seqs : t # s => ran'[t] = ran[t]
      /\ s = w[Svc].seq /\ o = w[Svc].o
      /\ requests' \cup responses' \subseteq requests \cup responses \cup {s}
  BY <1>1
<1> QED BY <1>1, <1>3, <1>4, <1>5, LeaveStep

LEMMA AsyncWriteFailsStep == ASSUME IInv, SafePlans, AsyncWriteFails PROVE IInv'
<1>0. w[Svc].pc = "write"
  BY DEF AsyncWriteFails
<1> PICK s \in Seqs, o \in Objs : s = w[Svc].seq /\ o = w[Svc].o
  BY <1>0, SvcFact
<1>1. /\ s # 0 /\ ran[s] = 0 /\ obj[o].ref /\ obj[o].seq = s
      /\ Active(Svc) /\ Svc \in Issuers /\ NoCall \notin Objs
  BY <1>0, SvcFact, Fact
<1>2. /\ UNCHANGED <<d, chanEvent, startSeq, plan, lock, conn, node, asyncs, cancelled>>
      /\ UNCHANGED <<requests, responses, closed, drops, others>>
      /\ w' = [w EXCEPT ![Svc] = Idle] /\ WriteFails(node[s])
      /\ ran' = [ran EXCEPT ![s] = IF @ < 2 THEN @ + 1 ELSE @]
      /\ Withdraw(s)
      /\ obj' = obj \/ obj' = [obj EXCEPT ![o] = ReleaseCall(o)]
  BY <1>0, <1>1, Frames DEF AsyncWriteFails, RunOnce
<1>3. Calm(plan)
  BY <1>1, <1>2, FailsCalm
<1>4. pending[s] = o
  BY <1>0, <1>1, <1>3 DEF IInv, WriteInv
<1>5. /\ pending' \in [Seqs -> Objs \cup {NoCall}] /\ timers' \subseteq Seqs
      /\ pending'[s] = NoCall
      /\ \A t \in Seqs : t # s => pending'[t] = pending[t]
  BY <1>1, <1>2, <1>4 DEF Withdraw, RemovePending, Unpend, CancelTimer, IInv, TypeOK, CallSetOK
<1>6. /\ obj' \in [Objs -> Fields]
      /\ \A u \in Objs : u # o => obj'[u] = obj[u]
  <2>1. CASE obj' = obj
    BY <2>1 DEF IInv, TypeOK, ActorsOK
  <2>2. CASE obj' = [obj EXCEPT ![o] = ReleaseCall(o)]
    BY <2>2, <1>1, Released
  <2> QED BY <1>2, <2>1, <2>2
<1>7. ran' \in [Seqs -> 0..2] /\ ran'[s] = ran[s] + 1 /\ \A t \in Seqs : t # s => ran'[t] = ran[t]
  BY <1>1, <1>2 DEF IInv, TypeOK, CallsOK
<1>8. TypeOK'
  <2>1. w' \in [Issuers -> Issuing]
    BY <1>1, <1>2, LeaveTypes
  <2> QED BY <1>2, <1>5, <1>6, <1>7, <2>1 DEF IInv, TypeOK, CallSetOK, ActorsOK, ChannelOK, NetOK, CallsOK
<1>9. NoToken(s)'
  <2>1. ~InDelivery(s) /\ ~InEvents(s)
    BY <1>1, <1>4 DEF InDelivery, InEvents, IInv, UniqueInv
  <2> QED BY <1>2, <1>5, <2>1 DEF NoToken, InDelivery, InEvents, Delivering
<1>10. \A t, u : Carries(t, u) /\ Held(t, u)' => Carries(t, u)'
  <2> SUFFICES ASSUME NEW t, NEW u, Carries(t, u), Held(t, u)' PROVE Carries(t, u)'
    OBVIOUS
  <2>1. t # s
    BY <1>9, HeldToken
  <2>2. u # o
    BY <2>1, <1>1 DEF Carries
  <2> QED BY <2>2, <1>2, <1>6 DEF Carries
<1>11. /\ pending'[s] \in {pending[s], NoCall}
       /\ s = w[Svc].seq /\ o = w[Svc].o
       /\ requests' \cup responses' \subseteq requests \cup responses \cup {s}
  BY <1>2, <1>5
<1>12. /\ UNCHANGED <<d, chanEvent, startSeq, plan, lock, conn, node, asyncs, cancelled>>
       /\ w' = [w EXCEPT ![Svc] = Idle]
  BY <1>2
<1>13. /\ Active(Svc) /\ Svc \in Issuers
       /\ \A t \in Seqs : t # s => pending'[t] = pending[t]
       /\ \A u \in Objs : u # o => obj'[u] = obj[u]
       /\ \A t \in Seqs : t # s => ran'[t] = ran[t]
       /\ ran'[s] = ran[s] + 1 /\ NoToken(s)'
  BY <1>1, <1>5, <1>6, <1>7, <1>9
<1> QED BY <1>8, <1>10, <1>11, <1>12, <1>13, LeaveStep

LEMMA CancelRpcStep == ASSUME IInv, NEW s \in Seqs, CancelRpc(s) PROVE IInv'
<1>1. /\ IssuersSame /\ NetShrinks
      /\ UNCHANGED <<d, chanEvent, startSeq, lock, conn, node, asyncs, ran>>
      /\ UNCHANGED <<requests, responses, closed, drops, others>>
      /\ w[Svc].pc = "idle" /\ s \in asyncs /\ pending[s] # NoCall /\ s # 0
      /\ cancelled' = cancelled \cup {s} /\ RemovePending(s)
  BY Frames, Fact DEF CancelRpc, IssuersSame, NetShrinks
<1>2. /\ pending' \in [Seqs -> Objs \cup {NoCall}] /\ timers' \subseteq Seqs
      /\ pending'[s] = NoCall
      /\ \A t \in Seqs : t # s => pending'[t] = pending[t]
      /\ \A t \in Seqs : pending'[t] \in {pending[t], NoCall}
  BY <1>1 DEF RemovePending, Unpend, CancelTimer, IInv, TypeOK, CallSetOK
<1>3. TypeOK'
  <2>1. CallSetOK' /\ CallsOK'
    BY <1>1, <1>2 DEF IInv, TypeOK, CallSetOK, CallsOK
  <2> QED BY <1>1, <2>1 DEF IInv, TypeOK, ActorsOK, ChannelOK, NetOK, IssuersSame
<1>4. CarryInv' /\ UniqueInv' /\ \A t \in Seqs : NoToken(t) => NoToken(t)'
  <2>1. \A t, u : Carries(t, u)' <=> Carries(t, u)
    BY <1>1 DEF Carries, IssuersSame
  <2> QED BY <1>1, <1>2, <2>1, Shrink DEF IInv
<1>5. IssuerInv'
  BY <1>1, <1>4, IssuersStay, Fact
<1>6. NumberInv /\ RanInv /\ ~NoToken(s) /\ ~Active(Svc) /\ ~Active(Svc)'
  BY <1>1 DEF IInv, NoToken, Active, IssuersSame
<1>7. NumberInv'
  <2>1. ~(s > startSeq)
    BY <1>6 DEF NumberInv
  <2> QED BY <1>1, <1>4, <1>6, <2>1 DEF NumberInv, NetShrinks
<1>8. NoToken(s)'
  <2>1. ~InDelivery(s) /\ ~InEvents(s)
    BY <1>1 DEF InDelivery, InEvents, IInv, UniqueInv
  <2> QED BY <1>1, <1>2, <2>1 DEF NoToken, InDelivery, InEvents, Delivering
<1>9. RanInv'
  <2>1. ran[s] = 0 /\ s \notin cancelled
    BY <1>6 DEF RanInv
  <2> QED BY <1>1, <1>4, <1>6, <1>8, <2>1 DEF RanInv
<1>10. AnsweredInv'
  BY <1>1, <1>2, AnsweredStays
<1>11. WriteInv'
  <2>1. \A i \in Issuers : w[i].pc = "write" => w[i].seq # s /\ w[i].seq \in Seqs
    BY <1>1, Fact DEF IInv, IssuerInv, Active
  <2> QED BY <1>1, <1>2, <2>1, WriteStays
<1>12. PlanInv' /\ LockInv'
  BY <1>1, PlanStays DEF IssuersSame, IInv, LockInv, Delivering
<1> QED BY <1>3, <1>4, <1>5, <1>7, <1>9, <1>10, <1>11, <1>12 DEF IInv

\* The service takes the first event, over objects that stay in use unless
\* the event is for their call.
LEMMA TakeEvent ==
  ASSUME IInv, chanEvent # <<>>, chanEvent' = Tail(chanEvent), pending' = pending, d' = d, asyncs' = asyncs,
         NEW s, s = chanEvent[1][1], \A t, u : Carries(t, u) /\ t # s => Carries(t, u)'
  PROVE  /\ CarryInv' /\ UniqueInv' /\ \A t \in Seqs : NoToken(t) => NoToken(t)'
         /\ s \in Seqs => NoToken(s)'
<1> DEFINE n == Len(chanEvent)
<1>0. CarryInv /\ UniqueInv /\ 0 \notin Seqs
  BY Fact DEF IInv
<1>1. /\ Len(chanEvent') = n - 1 /\ n \in Nat /\ n >= 1 /\ 1 \in 1..n
      /\ \A i \in 1..Len(chanEvent') : i + 1 \in 1..n /\ i + 1 # 1 /\ chanEvent'[i] = chanEvent[i + 1]
  BY DEF IInv, TypeOK, ChannelOK
<1> HIDE DEF n
<1>2. \A i \in 1..Len(chanEvent') : \E j \in 1..Len(chanEvent) : j # 1 /\ j = i + 1 /\ chanEvent'[i] = chanEvent[j]
  BY <1>1 DEF n
<1>3. /\ \A q : Delivering(q)' <=> Delivering(q)
      /\ \A t : InEvents(t)' => InEvents(t)
      /\ 1 \in 1..Len(chanEvent)
  BY <1>1, <1>2 DEF Delivering, InEvents, n
<1>4. s # 0 => /\ \A i \in 1..Len(chanEvent') : chanEvent'[i][1] # s
               /\ \A q \in Deliverers : Delivering(q) => d[q].seq # s
               /\ pending[s] = NoCall
  BY <1>0, <1>2, <1>3 DEF UniqueInv, InEvents
<1>5. UniqueInv'
  <2>1. \A q \in Deliverers : Delivering(q) =>
          pending[d[q].seq] = NoCall /\ ~(\E i \in 1..Len(chanEvent') : chanEvent'[i][1] = d[q].seq)
    BY <1>0, <1>2 DEF UniqueInv, InEvents
  <2>2. \A i \in 1..Len(chanEvent') : chanEvent'[i][1] # 0 => pending[chanEvent'[i][1]] = NoCall
    BY <1>0, <1>2 DEF UniqueInv
  <2>3. \A i, j \in 1..Len(chanEvent') : chanEvent'[i][1] # 0 /\ chanEvent'[i][1] = chanEvent'[j][1] => i = j
    <3> SUFFICES ASSUME NEW i \in 1..Len(chanEvent'), NEW j \in 1..Len(chanEvent'),
                        chanEvent'[i][1] # 0, chanEvent'[i][1] = chanEvent'[j][1]
                 PROVE  i = j
      OBVIOUS
    <3>1. i + 1 = j + 1
      BY <1>0, <1>1 DEF UniqueInv, n
    <3> QED BY <3>1
  <2> QED BY <1>0, <1>3, <2>1, <2>2, <2>3 DEF UniqueInv, InEvents
<1>6. CarryInv'
  <2>1. \A t \in Seqs : pending[t] # NoCall => Carries(t, pending[t])'
    <3> SUFFICES ASSUME NEW t \in Seqs, pending[t] # NoCall PROVE Carries(t, pending[t])'
      OBVIOUS
    <3>1. PICK u : u = pending[t]
      OBVIOUS
    <3>2. Carries(t, u)'
      BY <3>1, <1>0, <1>4 DEF CarryInv
    <3> QED BY <3>1, <3>2 DEF Carries
  <2>2. \A q \in Deliverers : Delivering(q) => Carries(d[q].seq, d[q].o)'
    <3> SUFFICES ASSUME NEW q \in Deliverers, Delivering(q) PROVE Carries(d[q].seq, d[q].o)'
      OBVIOUS
    <3>1. PICK t, u : t = d[q].seq /\ u = d[q].o
      OBVIOUS
    <3>2. Carries(t, u) /\ t # s
      BY <3>1, <1>0, <1>4 DEF CarryInv, Carries
    <3> QED BY <3>1, <3>2 DEF Carries
  <2>3. \A i \in 1..Len(chanEvent') : chanEvent'[i][1] # 0 =>
          chanEvent'[i][1] \in asyncs /\ Carries(chanEvent[i][1], chanEvent[i][2])'
    <3> SUFFICES ASSUME NEW i \in 1..Len(chanEvent'), chanEvent'[i][1] # 0
                 PROVE  chanEvent'[i][1] \in asyncs /\ Carries(chanEvent[i][1], chanEvent[i][2])'
      OBVIOUS
    <3>1. PICK t, u : t = chanEvent'[i][1] /\ u = chanEvent'[i][2]
      OBVIOUS
    <3>2. Carries(t, u) /\ t \in asyncs /\ t # s
      BY <3>1, <1>0, <1>2, <1>4 DEF CarryInv
    <3> QED BY <3>1, <3>2 DEF Carries
  <2>4. \A i \in 1..Len(chanEvent') : chanEvent'[i][1] = 0 => chanEvent'[i] = OtherEvent
    BY <1>0, <1>2 DEF CarryInv
  <2> QED BY <1>0, <1>3, <2>1, <2>2, <2>3, <2>4 DEF CarryInv
<1>7. \A t \in Seqs : NoToken(t) => NoToken(t)'
  BY <1>3 DEF NoToken, InDelivery
<1>8. s \in Seqs => NoToken(s)'
  BY <1>0, <1>3, <1>4 DEF NoToken, InDelivery, InEvents
<1> QED BY <1>5, <1>6, <1>7, <1>8

LEMMA HandleEventStep == ASSUME IInv, HandleEvent PROVE IInv'
<1>0. /\ UNCHANGED <<startSeq, pending, timers, lock, w, d, plan, conn, closed, requests, responses, drops>>
      /\ UNCHANGED <<node, asyncs, cancelled, others>>
      /\ w[Svc].pc = "idle" /\ ~Active(Svc) /\ chanEvent # <<>> /\ chanEvent' = Tail(chanEvent)
  BY Frames DEF HandleEvent, Active
<1> PICK s, o : s = chanEvent[1][1] /\ o = chanEvent[1][2]
  OBVIOUS
<1>1. /\ 1 \in 1..Len(chanEvent) /\ Head(chanEvent) = chanEvent[1]
      /\ ChannelOK'
  <2> DEFINE S == (0..MaxCalls) \X (Objs \cup {NoCall})
  <2>1. chanEvent \in Seq(S) /\ Len(chanEvent) <= plan.events /\ others \in 0..MaxOther
    BY DEF IInv, TypeOK, ChannelOK
  <2>2. plan.events \in Nat
    BY NodesAssumption DEF IInv, PlanInv
  <2> HIDE DEF S
  <2>3. /\ Tail(chanEvent) \in Seq(S) /\ Len(Tail(chanEvent)) = Len(chanEvent) - 1
        /\ Head(chanEvent) = chanEvent[1] /\ Len(chanEvent) \in Nat /\ Len(chanEvent) >= 1
    BY <1>0, <2>1
  <2> QED BY <1>0, <2>1, <2>2, <2>3 DEF ChannelOK, S
<1>2. /\ s = 0 => o = NoCall
      /\ s # 0 => Carries(s, o) /\ s \in asyncs /\ ~NoToken(s)
  BY <1>1 DEF IInv, CarryInv, OtherEvent, NoToken, InEvents
<1>3. \/ s = 0 /\ UNCHANGED <<ran, obj>>
      \/ /\ s # 0 /\ ran' = [ran EXCEPT ![s] = IF @ < 2 THEN @ + 1 ELSE @]
         /\ obj' = [obj EXCEPT ![o] = ReleaseCall(o)]
  <2>1. CASE s = 0
    BY <2>1, <1>1, <1>2 DEF HandleEvent
  <2>2. CASE s # 0
    <3>1. o # NoCall /\ obj[o].cb = s
      BY <2>2, <1>2, Fact DEF Carries
    <3> QED BY <2>2, <3>1, <1>1 DEF HandleEvent, RunOnce
  <2> QED BY <2>1, <2>2
<1>4. /\ obj' \in [Objs -> Fields]
      /\ \A u \in Objs : s = 0 \/ u # o => obj'[u] = obj[u]
  <2>1. CASE s = 0
    BY <2>1, <1>3 DEF IInv, TypeOK, ActorsOK
  <2>2. CASE s # 0
    BY <2>2, <1>2, <1>3, Released DEF Carries
  <2> QED BY <2>1, <2>2
<1>5. /\ ran' \in [Seqs -> 0..2]
      /\ \A t \in Seqs : t # s => ran'[t] = ran[t]
      /\ s # 0 => s \in Seqs /\ ran[s] = 0 /\ ran'[s] = 1 /\ s \notin cancelled
  <2>1. ran \in [Seqs -> 0..2] /\ RanInv /\ 0 \notin Seqs
    BY Fact DEF IInv, TypeOK, CallsOK
  <2>2. CASE s = 0
    BY <2>1, <2>2, <1>3
  <2>3. CASE s # 0
    <3>1. s \in Seqs /\ ran[s] = 0 /\ s \notin cancelled
      BY <2>1, <2>3, <1>2 DEF RanInv, Carries
    <3>2. ran' = [ran EXCEPT ![s] = 1]
      BY <2>3, <3>1, <1>3
    <3> QED BY <2>1, <3>1, <3>2
  <2> QED BY <2>2, <2>3
<1>6. TypeOK'
  BY <1>0, <1>1, <1>4, <1>5 DEF IInv, TypeOK, CallSetOK, ActorsOK, NetOK, CallsOK
<1>7. /\ CarryInv' /\ UniqueInv' /\ \A t \in Seqs : NoToken(t) => NoToken(t)'
      /\ s \in Seqs => NoToken(s)'
  <2>1. \A t, u : Carries(t, u) /\ t # s => Carries(t, u)'
    BY <1>0, <1>2, <1>4 DEF Carries
  <2> QED BY <1>0, <2>1, TakeEvent
<1>8. /\ IssuerInv /\ NumberInv /\ RanInv /\ AnsweredInv /\ WriteInv
      /\ \A i : Active(i)' <=> Active(i)
      /\ \A i \in Issuers : Active(i) => w[i].seq \in Seqs
  BY <1>0, Fact DEF IInv, Active
<1>9. \A c \in Callers : Active(c) => w[c].o \in Objs /\ obj'[w[c].o] = obj[w[c].o]
  BY <1>2, <1>4, <1>8 DEF IssuerInv, Carries
<1>10. IssuerInv'
  <2>1. \A i \in Issuers : w[i].pc = "add" => NoToken(w[i].seq)'
    <3> SUFFICES ASSUME NEW i \in Issuers, w[i].pc = "add" PROVE NoToken(w[i].seq)'
      OBVIOUS
    <3>1. ASSUME NEW t, t = w[i].seq PROVE NoToken(t)'
      BY <3>1, <1>7, <1>8 DEF IssuerInv, Active
    <3> QED BY <1>0, <3>1 DEF NoToken, InEvents, InDelivery
  <2>2. \A c \in Callers : Active(c) =>
          /\ w[c].seq \notin asyncs /\ w[c].o \in Objs
          /\ obj'[w[c].o].ref /\ obj'[w[c].o].cb = 0
          /\ obj'[w[c].o].seq \in {0, w[c].seq} /\ obj'[w[c].o].done \in {0, w[c].seq}
    BY <1>8, <1>9 DEF IssuerInv
  <2>3. \A c \in Callers : w[c].pc \in {"add", "write"} =>
          obj'[w[c].o].seq = w[c].seq /\ (w[c].pc = "add" => obj'[w[c].o].done = 0)
    BY <1>8, <1>9 DEF IssuerInv, Active
  <2> QED BY <1>0, <1>8, <2>1, <2>2, <2>3 DEF IssuerInv
<1>11. NumberInv'
  <2>1. s \in Seqs => ~(s > startSeq)
    BY <1>2, <1>5, <1>8, Fact DEF NumberInv
  <2> QED BY <1>0, <1>5, <1>7, <1>8, <2>1 DEF NumberInv
<1>12. RanInv'
  <2> SUFFICES ASSUME NEW t \in Seqs
               PROVE  /\ ran'[t] <= 1 /\ (t \in cancelled => ran'[t] = 0)
                      /\ ran'[t] # 0 \/ t \in cancelled => t \in asyncs /\ NoToken(t)'
    BY <1>0, <1>8 DEF RanInv
  <2>1. CASE t = s
    BY <2>1, <1>2, <1>5, <1>7, Fact
  <2>2. CASE t # s
    BY <2>2, <1>5, <1>7, <1>8 DEF RanInv
  <2> QED BY <2>1, <2>2
<1>13. AnsweredInv'
  <2>1. \A c \in Callers : Answered(c)' => Answered(c)
    BY <1>0, <1>8, <1>9 DEF Answered
  <2> QED BY <1>0, <1>8, <2>1 DEF AnsweredInv
<1>14. WriteInv' /\ PlanInv' /\ LockInv'
  BY <1>0, <1>8, PlanStays DEF WriteInv, IInv, LockInv, Delivering
<1> QED BY <1>6, <1>7, <1>10, <1>11, <1>12, <1>13, <1>14 DEF IInv

-----------------------------------------------------------------------------
(* The theorems.                                                           *)

\* Every step preserves the invariant.
LEMMA NextIInv == ASSUME IInv, SafePlans, [Next]_vars PROVE IInv'
<1>1. CASE UNCHANGED vars
  <2>1. /\ IssuersSame /\ NetShrinks /\ TokensSame /\ timers' \subseteq timers /\ responses' \subseteq responses
        /\ UNCHANGED <<asyncs, ran, cancelled, startSeq, lock, node, conn, closed, requests, drops, others>>
    BY <1>1 DEF vars, callSetVars, netVars, ghostVars, IssuersSame, NetShrinks, TokensSame
  <2> QED BY <2>1, ForgetStep
<1>2. ASSUME NEW c \in Callers, NEW n \in plan.sync, (\E o \in Objs : Go(c, n, o)) \/ GoRpc(c, n)
      PROVE  IInv'
  BY <1>2, GoStep, GoRpcStep
<1>3. ASSUME NEW c \in Callers, CallStep(c) PROVE IInv'
  BY <1>3, CallAddStep, CallWriteStep, CallWriteFailsStep, DoErrorStep, DoneStep, CallReturnStep DEF CallStep
<1>4. ASSUME NEW n \in plan.async, AsyncCall(n) PROVE IInv'
  BY <1>4, AsyncCallStep
<1>5. CASE SvcStep
  BY <1>5, AsyncAddStep, AsyncWriteStep, AsyncWriteFailsStep, HandleEventStep DEF SvcStep
<1>6. ASSUME NEW s \in Seqs, CancelRpc(s) \/ Reply(s) \/ Expire(s) PROVE IInv'
  BY <1>6, CancelRpcStep, ReplyStep, ExpireStep
<1>7. ASSUME NEW n \in Nodes, NEW s \in Seqs, Receive(n, s) PROVE IInv'
  BY <1>7, ReceiveStep
<1>8. ASSUME NEW p \in Deliverers, Deliver(p) PROVE IInv'
  BY <1>8, DeliverDoneStep, PushCheckStep, PushSendStep DEF Deliver
<1>9. ASSUME NEW n \in Nodes, Drop(n) \/ NoticeDrop(n) \/ Reconnect(n) \/ Close(n) PROVE IInv'
  BY <1>9, ConnStep, CloseStep
<1>10. CASE CleanStep
  BY <1>10, CleanLockStep, CleanNextStep, CleanEndStep DEF CleanStep
<1>11. CASE PushOther
  BY <1>11, PushOtherStep
<1> QED BY <1>1, <1>2, <1>3, <1>4, <1>5, <1>6, <1>7, <1>8, <1>9, <1>10, <1>11 DEF Next

\* The invariant holds throughout, in safe plans.
LEMMA Invariant == SafePlans => (Safety => []IInv)
<1> SUFFICES ASSUME SafePlans PROVE Safety => []IInv
  OBVIOUS
<1>1. IInv /\ [Next]_vars => IInv'
  BY NextIInv
<1> QED BY <1>1, InitIInv, PTL DEF Safety

\* What the invariant says of a state.
LEMMA Consequences ==
  ASSUME IInv
  PROVE  FreedUnreachable /\ CompletesItsOwnCall /\ CallbackAtMostOnce
<1>0. CarryInv /\ IssuerInv /\ RanInv /\ NoCall \notin Objs /\ Issuers = Callers \cup {Svc} /\ 0 \notin Seqs
  BY Fact DEF IInv
<1>1. FreedUnreachable
  <2> SUFFICES ASSUME NEW o \in Objs, Reachable(o) PROVE obj[o].ref
    BY DEF FreedUnreachable
  <2>1. CASE \E s \in Seqs : pending[s] = o
    BY <2>1, <1>0 DEF CarryInv, Carries
  <2>2. CASE \E i \in 1..Len(chanEvent) : chanEvent[i][2] = o
    BY <2>2, <1>0 DEF CarryInv, Carries, OtherEvent
  <2>3. CASE \E p \in Deliverers : d[p].o = o
    BY <2>3, TokenObject DEF Carries
  <2>4. CASE \E i \in Issuers : w[i].o = o
    <3>1. PICK i \in Issuers : w[i].o = o
      BY <2>4
    <3>2. Active(i)
      BY <3>1, <1>0 DEF IssuerInv
    <3>3. i = Svc => Carries(w[Svc].seq, o)
      BY <3>1, <3>2, <1>0 DEF IssuerInv
    <3> QED BY <3>1, <3>2, <3>3, <1>0 DEF IssuerInv, Carries
  <2> QED BY <2>1, <2>2, <2>3, <2>4 DEF Reachable
<1>2. CompletesItsOwnCall
  <2>1. \A s \in Seqs : pending[s] # NoCall => obj[pending[s]].seq = s
    BY <1>0 DEF CarryInv, Carries
  <2>2. \A c \in Callers : w[c].pc = "wait" => obj[w[c].o].done \in {0, w[c].seq}
    BY <1>0 DEF IssuerInv, Active
  <2>3. \A i \in 1..Len(chanEvent) : chanEvent[i] # OtherEvent => obj[chanEvent[i][2]].cb = chanEvent[i][1]
    BY <1>0 DEF CarryInv, Carries
  <2> QED BY <2>1, <2>2, <2>3 DEF CompletesItsOwnCall
<1>3. CallbackAtMostOnce
  BY <1>0 DEF RanInv, CallbackAtMostOnce
<1> QED BY <1>1, <1>2, <1>3

\* The state of package rpc keeps its types (TypeOK): no sequence number out
\* of range, at most one completion in a done channel, and never more events
\* in the event channel than it has room for.
THEOREM RpcTypeCorrect == SafePlans => (Safety => []TypeOK)
<1>1. IInv => TypeOK
  BY DEF IInv
<1> QED BY <1>1, Invariant, PTL

\* A Call object that is back in rpcCallPool is referenced by nobody
\* (FreedUnreachable), for any number of callers, nodes, calls and objects
\* and any interleaving of responses, timeouts, cancellations, broken
\* connections and closed clients, as long as no write fails after somebody
\* else took the call out of the CallSet (SafePlans).
THEOREM FreedObjectsAreUnreachable == SafePlans => (Safety => []FreedUnreachable)
<1>1. IInv => FreedUnreachable
  BY Consequences
<1> QED BY <1>1, Invariant, PTL

\* Responses, timeouts and errors complete the call they are meant for
\* (CompletesItsOwnCall): no completion reaches a caller or a callback
\* through an object that has become another call.
THEOREM CompletionsReachTheirCall == SafePlans => (Safety => []CompletesItsOwnCall)
<1>1. IInv => CompletesItsOwnCall
  BY Consequences
<1> QED BY <1>1, Invariant, PTL

\* A callback runs at most once, and not at all when CancelRpc removed its
\* call (CallbackAtMostOnce): response, timeout, write error, closing client
\* and cancellation all have to take the one token of the call.
THEOREM CallbacksRunAtMostOnce == SafePlans => (Safety => []CallbackAtMostOnce)
<1>1. IInv => CallbackAtMostOnce
  BY Consequences
<1> QED BY <1>1, Invariant, PTL
=============================================================================
