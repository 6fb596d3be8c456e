------------------------------ MODULE Network ------------------------------
(***************************************************************************)
(* Packages network and sysmodule/netmodule: the connection object with    *)
(* its writer goroutine (NetConn, and WSConn, which differs only in the    *)
(* buffers), the servers that accept and close connections (TCPServer,     *)
(* WSServer, KCPServer), the modules that turn connections into events of  *)
(* a service (TcpModule, WSModule, KcpModule), and the clients that dial   *)
(* and dial again (TCPClient, WSClient, KCPClient).                        *)
(*                                                                         *)
(* Each behaviour has one transport and one role.  A connection id is used *)
(* once; it stands for the socket, the NetConn and the agent.              *)
(***************************************************************************)
EXTENDS Integers, Sequences, FiniteSets

CONSTANTS
  Conns,            \* connection ids
  Setups,           \* what to look at: transport, role, connections and messages
  MaxConnNum,       \* MaxConnNum
  PendingWriteNum,  \* capacity of writeChan
  MaxEventNum       \* maxServiceEventChannelNum

\* sends and reads bound the messages written and read.
ASSUME NetAssumption ==
  /\ Setups \subseteq [transport : {"tcp", "ws", "kcp"}, role : {"server", "client"},
                       conns : SUBSET Conns, sends : Nat, reads : Nat]
  /\ {"none", "nil"} \cap Conns = {}
  /\ MaxConnNum \in Nat \ {0} /\ PendingWriteNum \in Nat \ {0} /\ MaxEventNum \in Nat \ {0}

VARIABLES
  setup,
  conns,      \* the set of the server or client; Nil once closed
  mapClient,  \* the clients of the module
  agent,      \* where the goroutine of each connection is
  nc,         \* the NetConn or WSConn of each connection
  events,     \* Sys_Event_Tcp etc. waiting for the service
  missed,     \* the clients whose disconnection met a full event channel
  told,       \* what the service was told of each client
  close,      \* where Close of the server or the client is
  loop,       \* where the connect goroutine of a client is
  sending,    \* the client a SendMsg has looked up, or None
  sent,       \* messages written so far, read so far
  nils        \* the connections whose Close put a nil slice into the byte pool, where it still is

netVars == <<setup, nils, conns, mapClient, agent, nc, events, missed, told, close, loop, sending, sent>>

transport == setup.transport
role == setup.role
None == "none"
Nil == {"nil"}
Fin == 0  \* the nil that Close writes; messages are 1, 2, ...

\* The defaults that Start and init fill in are the constants' values.
NetInit ==
  /\ setup \in Setups
  /\ conns = {} /\ mapClient = {}
  /\ agent = [c \in Conns |-> "none"]
  /\ nc = [c \in Conns |-> [sock |-> "open", closeFlag |-> FALSE, writeChan |-> <<>>, chanClosed |-> FALSE,
                            writer |-> "none", b |-> Fin, accepted |-> <<>>, written |-> <<>>,
                            released |-> [b \in 1..setup.sends |-> 0], fin |-> FALSE]]
  /\ events = <<>> /\ missed = {} /\ nils = {} /\ told = [c \in Conns |-> "unknown"]
  /\ close = "no" /\ loop = [pc |-> IF role = "client" THEN "dial" ELSE "none", conn |-> None]
  /\ sending = None /\ sent = [out |-> 0, in |-> 0]
-----------------------------------------------------------------------------
\* NetConn: what each method makes of the connection object.
newNetConn(n) == [n EXCEPT !.writer = "idle"]

\* The messages bs go back to the pool once more (for the nil of Close see
\* PutsNil); buffers of WSConn are not pooled.
Release(n, bs) ==
  IF transport = "ws" THEN n
  ELSE [n EXCEPT !.released = [b \in DOMAIN @ |-> @[b] + Cardinality({i \in DOMAIN bs : bs[i] = b})]]

doDestroy(n) ==
  IF n.closeFlag THEN [n EXCEPT !.sock = "shut"]
  ELSE [n EXCEPT !.sock = "shut", !.chanClosed = TRUE, !.closeFlag = TRUE]

doWrite(n, b) ==
  IF Len(n.writeChan) = PendingWriteNum THEN doDestroy(Release(n, <<b>>))
  ELSE [n EXCEPT !.writeChan = Append(@, b), !.accepted = IF b = Fin THEN @ ELSE Append(@, b)]

\* Close: what was written before it is still sent (the history variable fin:
\* the nil was queued for a writer still at work).  (Mutant: Destroy.)
\* (Mutant: the nil is dropped when the channel is full.)
FinDropped(n) ==
  IF n.closeFlag \/ Len(n.writeChan) = PendingWriteNum THEN [n EXCEPT !.closeFlag = TRUE]
  ELSE [doWrite(n, Fin) EXCEPT !.closeFlag = TRUE, !.fin = TRUE]
AtOnce(n) == IF n.closeFlag THEN n ELSE [doDestroy(n) EXCEPT !.fin = TRUE]
ConnClose(n) ==
  IF n.closeFlag THEN n
  ELSE [doWrite(n, Fin) EXCEPT !.closeFlag = TRUE, !.fin = Len(n.writeChan) # PendingWriteNum /\ n.writer \in {"idle", "write"}]

\* Close on a full channel releases its nil too: the byte pool takes the nil slice
\* in for one of the smallest size.
PutsNil(n) == transport # "ws" /\ ~n.closeFlag /\ Len(n.writeChan) = PendingWriteNum
CloseRelease(c) == nils' = IF PutsNil(nc[c]) THEN nils \cup {c} ELSE nils

\* MakeBytes slices what the pool hands out, and panics when that is a nil.
MakeBytesPanics == \E d \in nils : nils' = nils \ {d}

\* WriteMsg: the flag is looked at again under the lock; a buffer made for a
\* connection closed meanwhile is released.
ConnWrite(n, b) == IF n.closeFlag THEN Release(n, <<b>>) ELSE doWrite(n, b)

\* WSConn.WriteMsg does all of it under the lock.
WSWriteMsg(n, b) == IF n.closeFlag THEN n ELSE doWrite(n, b)

\* Either refuses a message that is too long or too short.
MsgParserWrite(n, b) == {n, IF transport = "ws" THEN WSWriteMsg(n, b) ELSE ConnWrite(n, b)}

WriterTakes(n) ==
  IF n.writeChan # <<>>
  THEN [n EXCEPT !.writeChan = Tail(@), !.b = Head(n.writeChan),
                 !.writer = IF Head(n.writeChan) = Fin THEN "stop" ELSE "write"]
  ELSE [n EXCEPT !.writer = "stop"]

\* The write of a NetConn ends in an error at the latest at the deadline; the one
\* of a WSConn has none, and lasts as long as the peer does not read.
Blocked(c) == transport = "ws" /\ nc[c].sock = "stalled"
WriterWrites(n, ok) ==
  Release([n EXCEPT !.written = IF ok THEN Append(@, n.b) ELSE @,
                    !.writer = IF ok THEN "idle" ELSE "stop", !.fin = @ /\ ok], <<n.b>>)

\* The socket is closed, then what is left is freed and the flag set.
\* (Mutant: the buffers that are left are forgotten.)
WriterEndsOnly(n) == [n EXCEPT !.writeChan = <<>>, !.closeFlag = TRUE, !.writer = "end"]
freeChannel(n) ==
  [Release(n, n.writeChan)
     EXCEPT !.writeChan = <<>>, !.closeFlag = TRUE, !.writer = "end"]

Writer(c) ==
  /\ \/ nc[c].writer = "idle" /\ (nc[c].writeChan # <<>> \/ nc[c].chanClosed)
        /\ nc' = [nc EXCEPT ![c] = WriterTakes(@)]
     \/ nc[c].writer = "write" /\ ~Blocked(c) /\ nc[c].sock # "shut" /\ nc' = [nc EXCEPT ![c] = WriterWrites(@, TRUE)]
     \/ nc[c].writer = "write" /\ ~Blocked(c) /\ nc[c].sock # "open" /\ nc' = [nc EXCEPT ![c] = WriterWrites(@, FALSE)]
     \/ nc[c].writer = "stop" /\ nc' = [nc EXCEPT ![c] = [@ EXCEPT !.sock = "shut", !.writer = "free"]]
     \/ nc[c].writer = "free" /\ nc' = [nc EXCEPT ![c] = freeChannel(@)]
  /\ UNCHANGED <<setup, nils, conns, mapClient, agent, events, missed, told, close, loop, sending, sent>>

\* The other end goes away, or reads no more (a peer that pauses only delays the
\* writer).
PeerGone(c) ==
  /\ nc[c].sock \in {"open", "stalled"} /\ nc[c].writer # "none"
  /\ \/ nc' = [nc EXCEPT ![c].sock = "reset"]
     \/ nc[c].sock = "open" /\ nc' = [nc EXCEPT ![c].sock = "stalled"]
  /\ UNCHANGED <<setup, nils, conns, mapClient, agent, events, missed, told, close, loop, sending, sent>>
-----------------------------------------------------------------------------
\* Servers.  TCPServer.run and KCPServer.run accept one connection after the
\* other; the HTTP server calls ServeHTTP in a goroutine of its own.
OneByOne == transport \in {"tcp", "kcp"}
Accepting(c) == agent[c] \in {"accepted", "registered"}

Accept(c) ==
  /\ role = "server" /\ close = "no" /\ c \in setup.conns /\ agent[c] = "none"
  /\ OneByOne => \A d \in Conns : ~Accepting(d)
  /\ agent' = [agent EXCEPT ![c] = "accepted"]
  /\ UNCHANGED <<setup, nils, conns, mapClient, nc, events, missed, told, close, loop, sending, sent>>

\* (Mutant of ServeHTTP's test of conns: a closed server is not noticed.)
\* TCPServer and KCPServer do not ask: Close has waited for the accepting
\* goroutine.
NotNoticed(c) == Cardinality(conns \ Nil) < MaxConnNum
MayRegister(c) == (transport = "ws" => conns # Nil) /\ Cardinality(conns \ Nil) < MaxConnNum

Register(c) ==
  /\ role = "server" /\ agent[c] = "accepted"
  /\ IF MayRegister(c)
     THEN agent' = [agent EXCEPT ![c] = "registered"] /\ conns' = conns \cup {c} /\ UNCHANGED nc
     ELSE agent' = [agent EXCEPT ![c] = "refused"] /\ nc' = [nc EXCEPT ![c].sock = "shut"] /\ UNCHANGED conns
  /\ UNCHANGED <<setup, nils, mapClient, events, missed, told, close, loop, sending, sent>>
TCPRegister(c) == transport = "tcp" /\ Register(c)
WSRegister(c) == transport = "ws" /\ Register(c)
KCPRegister(c) == transport = "kcp" /\ Register(c)

\* NewAgent: the connection object, then the client of the module.
NewAgent(c) ==
  /\ role = "server" /\ agent[c] = "registered"
  /\ agent' = [agent EXCEPT ![c] = "start"] /\ nc' = [nc EXCEPT ![c] = newNetConn(@)]
  /\ mapClient' = mapClient \cup {c}
  /\ UNCHANGED <<setup, nils, conns, events, missed, told, close, loop, sending, sent>>
TcpNewClient(c) == transport = "tcp" /\ NewAgent(c)
NewWSClient(c) == transport = "ws" /\ NewAgent(c)
KcpNewClient(c) == transport = "kcp" /\ NewAgent(c)

\* The loop of an agent: the first event, one event for every message read, and
\* the end with the first error (a read deadline, a message too long, a socket
\* that is closed).
MsgParserRead(c) == nc[c].sock \in {"open", "stalled"} /\ sent.in < setup.reads

\* NotifyEvent: an event that finds the channel of the service full is lost.
Post(c, what) ==
  LET full == Len(events) >= MaxEventNum IN
  IF role = "client" THEN UNCHANGED <<events, missed>>
  ELSE /\ events' = IF full THEN events ELSE Append(events, <<c, what>>)
       /\ missed' = IF full /\ what = "disconnected" THEN missed \cup {c} ELSE missed

\* A panic in Read, or in the processor's Unmarshal, ends the loop as an error does:
\* Client.Run recovers.
AgentRun(c) ==
  /\ \/ /\ agent[c] = "start" /\ agent' = [agent EXCEPT ![c] = "read"] /\ Post(c, "connected")
        /\ UNCHANGED <<sent, nils>>
     \/ /\ agent[c] = "read" /\ MsgParserRead(c)
        /\ sent' = [sent EXCEPT !.in = @ + 1] /\ Post(c, "pack") /\ UNCHANGED <<agent, nils>>
     \/ /\ agent[c] = "read" /\ agent' = [agent EXCEPT ![c] = "close"] /\ UNCHANGED <<events, missed, sent>>
        /\ UNCHANGED nils \/ (MsgParserRead(c) /\ MakeBytesPanics)
  /\ UNCHANGED <<setup, conns, mapClient, nc, told, close, loop, sending>>
TcpRun(c) == transport = "tcp" /\ AgentRun(c)

\* WSClient.Run does not recover: a panic in Unmarshal ends ServeHTTP, the HTTP
\* server catches it, and nothing is cleaned up.
WSRunPanics(c) ==
  /\ role = "server" /\ agent[c] = "read" /\ MsgParserRead(c)
  /\ agent' = [agent EXCEPT ![c] = "panicked"] /\ sent' = [sent EXCEPT !.in = @ + 1]
  /\ UNCHANGED <<setup, nils, conns, mapClient, nc, events, missed, told, close, loop, sending>>
WSRun(c) == transport = "ws" /\ (AgentRun(c) \/ WSRunPanics(c))
KcpRun(c) == transport = "kcp" /\ AgentRun(c)

\* The cleanup after Run.  KCPServer closes the socket and not the NetConn.
Cleaned(n) == IF transport = "kcp" /\ role = "server" THEN [n EXCEPT !.sock = "shut"] ELSE ConnClose(n)
Cleanup(c) ==
  /\ agent[c] = "close" /\ agent' = [agent EXCEPT ![c] = "delete"]
  /\ nc' = [nc EXCEPT ![c] = Cleaned(@)]
  /\ IF transport = "kcp" /\ role = "server" THEN UNCHANGED nils ELSE CloseRelease(c)
  /\ UNCHANGED <<setup, conns, mapClient, events, missed, told, close, loop, sending, sent>>
DeleteConn(c) ==
  /\ agent[c] = "delete" /\ agent' = [agent EXCEPT ![c] = "onclose"]
  /\ conns' = conns \ {c}
  /\ UNCHANGED <<setup, nils, mapClient, nc, events, missed, told, close, loop, sending, sent>>

\* OnClose: the event, then the client is taken from the map.
PostClose(c) == Post(c, "disconnected")
OnClose(c) ==
  /\ \/ agent[c] = "onclose" /\ PostClose(c) /\ agent' = [agent EXCEPT ![c] = "unmap"] /\ UNCHANGED mapClient
     \/ agent[c] = "unmap" /\ mapClient' = mapClient \ {c} /\ agent' = [agent EXCEPT ![c] = "done"]
        /\ UNCHANGED <<events, missed>>
  /\ UNCHANGED <<setup, nils, conns, nc, told, close, loop, sending, sent>>
TcpOnClose(c) == transport = "tcp" /\ OnClose(c)
WSOnClose(c) == transport = "ws" /\ OnClose(c)
KcpOnClose(c) == transport = "kcp" /\ OnClose(c)

\* Close of a server: no more connections; for TCP and KCP the accepting
\* goroutine has ended before the sockets are closed; then the agents are
\* awaited.
Ended(c) == agent[c] \in {"none", "refused", "done", "panicked"}
ServerClose ==
  /\ role = "server"
  /\ \/ close = "no" /\ close' = "listener" /\ UNCHANGED <<conns, nc>>
     \/ /\ close = "listener"
        /\ OneByOne => \A c \in Conns : ~Accepting(c)
        /\ close' = "wait" /\ conns' = Nil
        /\ nc' = [c \in Conns |-> IF c \in conns THEN [nc[c] EXCEPT !.sock = "shut"] ELSE nc[c]]
     \/ /\ close = "wait" /\ \A c \in Conns : Ended(c) \/ agent[c] = "accepted"
        /\ close' = "done" /\ UNCHANGED <<conns, nc>>
  /\ UNCHANGED <<setup, nils, mapClient, agent, events, missed, told, loop, sending, sent>>
TCPServerClose == transport = "tcp" /\ ServerClose
WSServerClose == transport = "ws" /\ ServerClose
KCPServerClose == transport = "kcp" /\ ServerClose
-----------------------------------------------------------------------------
\* The service: its event handler, and what it does with clients.
EventHandler ==
  /\ events # <<>> /\ events' = Tail(events)
  /\ LET c == Head(events)[1] what == Head(events)[2] IN
     told' = IF what = "pack" THEN told ELSE [told EXCEPT ![c] = what]
  /\ UNCHANGED <<setup, nils, missed, conns, mapClient, agent, nc, close, loop, sending, sent>>
tcpEventHandler == transport = "tcp" /\ EventHandler
wsEventHandler == transport = "ws" /\ EventHandler
kcpEventHandler == transport = "kcp" /\ EventHandler

\* SendMsg and SendRawMsg look the client up under the lock and write after it;
\* an agent of a client writes to its own connection.  A panic in MakeBytes ends
\* the handler that sends.
SendMsg(c) ==
  /\ \/ /\ sending = None /\ sent.out < setup.sends
        /\ c \in mapClient \/ (role = "client" /\ agent[c] = "read")
        /\ sending' = c /\ sent' = [sent EXCEPT !.out = @ + 1] /\ UNCHANGED <<nc, nils>>
     \/ /\ sending = c /\ sending' = None /\ UNCHANGED sent
        /\ \/ UNCHANGED nils /\ \E n \in MsgParserWrite(nc[c], sent.out) : nc' = [nc EXCEPT ![c] = n]
           \/ ~nc[c].closeFlag /\ MakeBytesPanics /\ UNCHANGED nc
  /\ UNCHANGED <<setup, conns, mapClient, agent, events, missed, told, close, loop>>
TcpSendMsg(c) == transport = "tcp" /\ SendMsg(c)
WSSendMsg(c) == transport = "ws" /\ SendMsg(c)
KcpSendMsg(c) == transport = "kcp" /\ SendMsg(c)

CloseClient(c) ==
  /\ c \in mapClient /\ ~nc[c].closeFlag /\ nc' = [nc EXCEPT ![c] = ConnClose(@)] /\ CloseRelease(c)
  /\ UNCHANGED <<setup, conns, mapClient, agent, events, missed, told, close, loop, sending, sent>>
TcpCloseClient(c) == transport = "tcp" /\ CloseClient(c)
WSCloseClient(c) == transport = "ws" /\ CloseClient(c)
KcpCloseClient(c) == transport = "kcp" /\ CloseClient(c)
-----------------------------------------------------------------------------
\* Clients: dial until it succeeds or the client is closed, register, run the
\* agent, clean up and, with AutoReconnect, dial again.
dial ==
  /\ loop.pc = "dial"
  /\ \/ \E c \in setup.conns : agent[c] = "none" /\ loop' = [pc |-> "dialled", conn |-> c]
                         /\ agent' = [agent EXCEPT ![c] = "accepted"]
     \/ close # "no" /\ loop' = [pc |-> "end", conn |-> None] /\ UNCHANGED agent
  /\ UNCHANGED <<setup, nils, conns, mapClient, nc, events, missed, told, close, sending, sent>>
IsClosed == close # "no"
connect ==
  LET c == loop.conn IN
  /\ loop.pc = "dialled"
  /\ IF IsClosed
     THEN /\ nc' = [nc EXCEPT ![c].sock = "shut"] /\ agent' = [agent EXCEPT ![c] = "refused"]
          /\ loop' = [pc |-> "end", conn |-> None] /\ UNCHANGED conns
     ELSE /\ conns' = (conns \ Nil) \cup {c} /\ agent' = [agent EXCEPT ![c] = "start"]
          /\ nc' = [nc EXCEPT ![c] = newNetConn(@)] /\ loop' = [loop EXCEPT !.pc = "run"]
  /\ UNCHANGED <<setup, nils, mapClient, events, missed, told, close, sending, sent>>
reconnect ==
  /\ loop.pc = "run" /\ agent[loop.conn] = "done"
  /\ \E again \in {"dial", "end"} : loop' = [pc |-> again, conn |-> None]
  /\ UNCHANGED <<setup, nils, conns, mapClient, agent, nc, events, missed, told, close, sending, sent>>
ClientClose ==
  /\ role = "client"
  /\ \/ /\ close = "no" /\ close' = "wait" /\ conns' = Nil
        /\ nc' = [c \in Conns |-> IF c \in conns THEN [nc[c] EXCEPT !.sock = "shut"] ELSE nc[c]]
     \/ close = "wait" /\ loop.pc = "end" /\ close' = "done" /\ UNCHANGED <<conns, nc>>
  /\ UNCHANGED <<setup, nils, mapClient, agent, events, missed, told, loop, sending, sent>>
TCPConnect == transport = "tcp" /\ (dial \/ connect \/ reconnect \/ ClientClose)
WSConnect == transport = "ws" /\ (dial \/ connect \/ reconnect \/ ClientClose)
KCPConnect == transport = "kcp" /\ (dial \/ connect \/ reconnect \/ ClientClose)
-----------------------------------------------------------------------------
AgentStep(c) ==
  \/ TCPRegister(c) \/ WSRegister(c) \/ KCPRegister(c)
  \/ TcpNewClient(c) \/ NewWSClient(c) \/ KcpNewClient(c)
  \/ TcpRun(c) \/ WSRun(c) \/ KcpRun(c)
  \/ Cleanup(c) \/ DeleteConn(c)
  \/ TcpOnClose(c) \/ WSOnClose(c) \/ KcpOnClose(c)
ServiceStep == tcpEventHandler \/ wsEventHandler \/ kcpEventHandler
UserStep(c) ==
  \/ TcpSendMsg(c) \/ WSSendMsg(c) \/ KcpSendMsg(c)
  \/ TcpCloseClient(c) \/ WSCloseClient(c) \/ KcpCloseClient(c)
CloseStep == TCPServerClose \/ WSServerClose \/ KCPServerClose

NetNext ==
  \/ \E c \in Conns : Accept(c) \/ AgentStep(c) \/ UserStep(c) \/ Writer(c) \/ PeerGone(c)
  \/ ServiceStep \/ CloseStep \/ TCPConnect \/ WSConnect \/ KCPConnect

\* Goroutines run, writes go through or fail unless they are blocked, reads fail
\* once the socket is reset or shut, and a service handles its events.
Runs(c) == agent[c] = "read" => nc[c].sock \in {"reset", "shut"}
NetSpec ==
  /\ NetInit /\ [][NetNext]_netVars
  /\ \A c \in Conns : WF_netVars(Runs(c) /\ AgentStep(c)) /\ WF_netVars(Writer(c))
  /\ WF_netVars(ServiceStep) /\ WF_netVars(close # "no" /\ CloseStep)
  /\ WF_netVars(dial) /\ WF_netVars(connect) /\ WF_netVars(reconnect)
  /\ WF_netVars(close # "no" /\ ClientClose)
-----------------------------------------------------------------------------
\* Close of a server (TCPServer, WSServer, KCPServer) or a client leaves no
\* connection behind: from the moment the sockets of conns are closed, no agent
\* runs on an open socket, so that Close's Wait returns, and no socket of a
\* WebSocket agent that panicked is left open; and once Close has returned, none
\* runs, none will, and the module has no client left but those of agents that
\* panicked, which nothing takes from the map.
CloseIsClean ==
  /\ close \in {"wait", "done"} =>
       \A c \in Conns : agent[c] \in {"registered", "start", "read", "panicked"} => nc[c].sock = "shut"
  /\ close = "done" =>
       /\ \A c \in Conns : Ended(c) \/ agent[c] = "accepted"
       /\ \A c \in mapClient : transport = "ws" /\ agent[c] = "panicked"

\* A pooled buffer goes back to the byte pool once: never twice (the pool would
\* hand it to two messages), and every buffer the channel accepted has gone back
\* when the writer goroutine has ended, whatever ended it and however Close,
\* Destroy and WriteMsg interleaved with it.  What the pool gets besides, the nil
\* slice that makes a later MakeBytes panic, comes from a Close that found the
\* channel full, and once from each.
BuffersOnce ==
  /\ \A c \in nils : transport # "ws" /\ nc[c].chanClosed /\ ~nc[c].fin
  /\ \A c \in Conns :
       LET back == nc[c].released  acc == nc[c].accepted IN
       /\ \A b \in DOMAIN back : back[b] <= 1
       /\ nc[c].writer = "end" /\ transport # "ws" => \A i \in DOMAIN acc : back[acc[i]] = 1

\* The messages reach the socket in the order WriteMsg accepted them, and all of
\* them do when the connection was closed with room for Close's nil and no write
\* failed: Close flushes, Destroy does not.
FlushedInOrder ==
  \A c \in Conns :
    LET out == nc[c].written  acc == nc[c].accepted IN
    /\ Len(out) <= Len(acc) /\ out = SubSeq(acc, 1, Len(out))
    /\ nc[c].fin /\ nc[c].writer = "end" => out = acc

\* A connection whose agent has ended is wound up: its writer goroutine ends
\* (but for KCPServer, which closes the socket and not the NetConn, and for a
\* WebSocket write to a peer that does not read) and the service hears of the
\* disconnection, unless its event channel was full just then.
WoundUp(c) ==
  /\ nc[c].writer = "end" \/ (nc[c].writer = "write" /\ Blocked(c)) \/ (transport = "kcp" /\ role = "server")
  /\ role = "server" => told[c] = "disconnected" \/ c \in missed
ConnectionEnds == \A c \in Conns : agent[c] = "done" ~> WoundUp(c)
=============================================================================
