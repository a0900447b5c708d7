----------------------------- MODULE DerpRelay -----------------------------
(***************************************************************************)
(* The relay of pkg/derp: clients connect over WebSockets, register under  *)
(* their public key and send each other packets through the router.  On    *)
(* the server one goroutine per connection registers the session, pumps    *)
(* frames and unregisters; the router's map is the state they share.       *)
(*                                                                         *)
(* A connection is a pair of bounded queues that keep order: a write waits *)
(* for the other side to read.  When the connection breaks, each side may  *)
(* still read a part of what was under way and learns of the break later,  *)
(* or never.  Frames the client cannot decode, and keepalives after the    *)
(* first (the client sends none), are left out.                            *)
(***************************************************************************)
EXTENDS Integers, Sequences, SequencesExt

CONSTANTS
    Keys,           \* public keys
    Conns,          \* bound: connections ever dialed
    KeyOf,          \* KeyOf[c]: the key c registers under
    Fragile,        \* bound: the connections that may end
    MaxPackets,     \* bound: packets ever sent
    Buffer,         \* frames a connection holds before a write to it blocks
    NoConn

ASSUME DerpAssumption ==
    /\ KeyOf \in [Conns -> Keys]
    /\ MaxPackets \in Nat
    /\ Buffer \in Nat \ {0}
    /\ NoConn \notin Conns

Packet == [from : Conns, dest : Keys, id : 1 .. MaxPackets]

\* FrameClientInfo, FrameSendPacket, FrameRecvPacket, FrameKeepAlive.
RelayFrame ==
    [type : {"info", "ack"}]
        \cup [type : {"send"}, payload : Packet]
        \cup [type : {"recv"}, src : Keys, payload : Packet]

VARIABLES
    link,           \* link[c]: state of the connection
    client,         \* client[c]: where Connect or readLoop is
    server,         \* server[c]: where handleWebSocket is
    sessionClosed,  \* sessionClosed[c]: the session's closed flag
    toServer,       \* toServer[c]: frames under way to the relay
    toClient,       \* toClient[c]: frames under way to the client
    sessions,       \* Router.sessions: sessions[k] is a connection or None
    routing,        \* routing[c]: what c's RouteForward has looked up
    sent,           \* number of packets sent so far
    delivered       \* delivered[c]: what c's packet handler was called with

relayVars == <<link, client, server, sessionClosed, toServer, toClient, sessions, routing,
             sent, delivered>>

NoRoute == [dest |-> NoConn, frame |-> NoConn]

RelayInit ==
    /\ link = [c \in Conns |-> "none"]
    /\ client = [c \in Conns |-> "idle"]
    /\ server = [c \in Conns |-> "idle"]
    /\ sessionClosed = [c \in Conns |-> FALSE]
    /\ toServer = [c \in Conns |-> <<>>]
    /\ toClient = [c \in Conns |-> <<>>]
    /\ sessions = [k \in Keys |-> NoConn]
    /\ routing = [c \in Conns |-> NoRoute]
    /\ sent = 0
    /\ delivered = [c \in Conns |-> <<>>]
-----------------------------------------------------------------------------
(* Client *)

\* Connect up to the registration frame.
Dial(c) ==
    /\ link[c] = "none"
    /\ link' = [link EXCEPT ![c] = "up"]
    /\ client' = [client EXCEPT ![c] = "awaitAck"]
    /\ server' = [server EXCEPT ![c] = "upgraded"]
    /\ toServer' = [toServer EXCEPT ![c] = <<[type |-> "info"]>>]
    /\ UNCHANGED <<sessionClosed, toClient, sessions, routing, sent, delivered>>

\* The first frame has to be the acknowledgement, or Connect gives up.
ReadAck(c) ==
    /\ client[c] = "awaitAck"
    /\ toClient[c] # <<>>
    /\ toClient' = [toClient EXCEPT ![c] = Tail(@)]
    /\ \/ /\ Head(toClient[c]).type = "ack"
          /\ client' = [client EXCEPT ![c] = "up"]
          /\ UNCHANGED link
       \/ /\ Head(toClient[c]).type # "ack"
          /\ client' = [client EXCEPT ![c] = "ended"]
          /\ link' = [link EXCEPT ![c] = "down"]
    /\ UNCHANGED <<server, sessionClosed, toServer, sessions, routing, sent, delivered>>

\* One round of readLoop.
Receive(c) ==
    /\ client[c] = "up"
    /\ toClient[c] # <<>>
    /\ toClient' = [toClient EXCEPT ![c] = Tail(@)]
    /\ delivered' = [delivered EXCEPT ![c] =
                        IF Head(toClient[c]).type = "recv"
                        THEN Append(@, Head(toClient[c])) ELSE @]
    /\ UNCHANGED <<link, client, server, sessionClosed, toServer, sessions, routing, sent>>

SendTo(c, k) ==
    LET p == [from |-> c, dest |-> k, id |-> sent + 1] IN
    /\ client[c] = "up"
    /\ link[c] = "up"
    /\ sent < MaxPackets
    /\ Len(toServer[c]) < Buffer
    /\ sent' = sent + 1
    /\ toServer' = [toServer EXCEPT ![c] =
                        Append(@, [type |-> "send", payload |-> p])]
    /\ UNCHANGED <<link, client, server, sessionClosed, toClient, sessions, routing,
                   delivered>>

CloseClient(c) ==
    /\ c \in Fragile
    /\ client[c] = "up"
    /\ client' = [client EXCEPT ![c] = "ended"]
    /\ link' = [link EXCEPT ![c] = "down"]
    /\ UNCHANGED <<server, sessionClosed, toServer, toClient, sessions, routing, sent,
                   delivered>>

\* ReadMessage fails on a broken connection.
ClientEnds(c) ==
    /\ client[c] \in {"awaitAck", "up"}
    /\ link[c] = "down"
    /\ toClient[c] = <<>>
    /\ client' = [client EXCEPT ![c] = "ended"]
    /\ UNCHANGED <<link, server, sessionClosed, toServer, toClient, sessions, routing,
                   sent, delivered>>
-----------------------------------------------------------------------------
(* Network *)

\* The connection breaks and loses the end of what is under way.
Break(c) ==
    /\ c \in Fragile
    /\ link[c] = "up"
    /\ link' = [link EXCEPT ![c] = "down"]
    /\ \E s \in Prefixes(toServer[c]) : toServer' = [toServer EXCEPT ![c] = s]
    /\ \E s \in Prefixes(toClient[c]) : toClient' = [toClient EXCEPT ![c] = s]
    /\ UNCHANGED <<client, server, sessionClosed, sessions, routing, sent, delivered>>

\* Variants: the last frame overtakes; only packets are flushed.
QueueFirst(q, frame) == <<frame>> \o q
QueuePackets(q, frame) == IF frame.type = "recv" THEN Append(q, frame) ELSE q

Queue(q, frame) == Append(q, frame)

\* Variant: a write that waits for a connection that is gone.
SendFrameBlocking(c, frame, ok) ==
    /\ ok
    /\ ~sessionClosed[c] /\ link[c] = "up"
    /\ Len(toClient[c]) < Buffer
    /\ toClient' = [toClient EXCEPT ![c] = Queue(@, frame)]

\* Session.SendFrame on c's session, with its outcome: a closed session and
\* a connection known to be broken are errors; a write waits for room, and
\* can succeed and never arrive.
SendFrame(c, frame, ok) ==
    \/ /\ ok
       /\ ~sessionClosed[c] /\ link[c] = "up"
       /\ Len(toClient[c]) < Buffer
       /\ toClient' = [toClient EXCEPT ![c] = Queue(@, frame)]
    \/ /\ ok
       /\ ~sessionClosed[c] /\ link[c] = "down"
       /\ UNCHANGED toClient
    \/ /\ ~ok
       /\ sessionClosed[c] \/ link[c] = "down"
       /\ UNCHANGED toClient
-----------------------------------------------------------------------------
(* Server: handleWebSocket *)

\* The registration frame is read; Router.Register replaces what was there.
Register(c) ==
    /\ server[c] = "upgraded"
    /\ toServer[c] # <<>>
    /\ toServer' = [toServer EXCEPT ![c] = Tail(@)]
    /\ sessions' = [sessions EXCEPT ![KeyOf[c]] = c]
    /\ server' = [server EXCEPT ![c] = "registered"]
    /\ UNCHANGED <<link, client, sessionClosed, toClient, routing, sent, delivered>>

\* ... or the connection broke before it came.
NeverRegisters(c) ==
    /\ server[c] = "upgraded"
    /\ link[c] = "down"
    /\ toServer[c] = <<>>
    /\ server' = [server EXCEPT ![c] = "gone"]
    /\ UNCHANGED <<link, client, sessionClosed, toServer, toClient, sessions, routing,
                   sent, delivered>>

SendAck(c) ==
    /\ server[c] = "registered"
    /\ \E ok \in BOOLEAN : SendFrame(c, [type |-> "ack"], ok)
    /\ server' = [server EXCEPT ![c] = "pumping"]
    /\ UNCHANGED <<link, client, sessionClosed, toServer, sessions, routing, sent,
                   delivered>>

\* Variant: the packet names the connection it came from.
RecvFrameOfConn(c, p) == [type |-> "recv", src |-> c, payload |-> p]

RecvFrame(c, p) == [type |-> "recv", src |-> KeyOf[c], payload |-> p]

\* RouteForward up to its RUnlock: the destination is looked up.
LookUp(c) ==
    LET p == Head(toServer[c]).payload
        dest == sessions[p.dest]
    IN
    /\ server[c] = "pumping"
    /\ routing[c] = NoRoute
    /\ toServer[c] # <<>>
    /\ toServer' = [toServer EXCEPT ![c] = Tail(@)]
    /\ routing' = IF dest = NoConn THEN routing
                  ELSE [routing EXCEPT ![c] = [dest |-> dest, frame |-> RecvFrame(c, p)]]
    /\ UNCHANGED <<link, client, server, sessionClosed, toClient, sessions, sent,
                   delivered>>

\* Variant: a forward that is tried again though its outcome is not known.
ForwardAgain(c) ==
    /\ routing[c] # NoRoute
    /\ \E ok \in BOOLEAN : SendFrame(routing[c].dest, routing[c].frame, ok)
    /\ routing' \in {routing, [routing EXCEPT ![c] = NoRoute]}
    /\ UNCHANGED <<link, client, server, sessionClosed, toServer, sessions, sent,
                   delivered>>

\* RouteForward from its RUnlock on: the session found may be gone by now.
Forward(c) ==
    /\ routing[c] # NoRoute
    /\ \E ok \in BOOLEAN : SendFrame(routing[c].dest, routing[c].frame, ok)
    /\ routing' = [routing EXCEPT ![c] = NoRoute]
    /\ UNCHANGED <<link, client, server, sessionClosed, toServer, sessions, sent,
                   delivered>>

PumpEnds(c) ==
    /\ server[c] = "pumping"
    /\ routing[c] = NoRoute
    /\ link[c] = "down"
    /\ toServer[c] = <<>>
    /\ server' = [server EXCEPT ![c] = "leaving"]
    /\ UNCHANGED <<link, client, sessionClosed, toServer, toClient, sessions, routing,
                   sent, delivered>>

\* Variant: a session that is not closed yet stays.
WithoutClosed(c) ==
    IF sessionClosed[c] THEN [sessions EXCEPT ![KeyOf[c]] = NoConn] ELSE sessions

Without(c) == [sessions EXCEPT ![KeyOf[c]] = NoConn]

\* The deferred Unregister removes whatever is registered under the key.
Unregister(c) ==
    /\ server[c] = "leaving"
    /\ sessions' = Without(c)
    /\ server' = [server EXCEPT ![c] = "closing"]
    /\ UNCHANGED <<link, client, sessionClosed, toServer, toClient, routing, sent,
                   delivered>>

CloseSession(c) ==
    /\ server[c] = "closing"
    /\ sessionClosed' = [sessionClosed EXCEPT ![c] = TRUE]
    /\ server' = [server EXCEPT ![c] = "gone"]
    /\ UNCHANGED <<link, client, toServer, toClient, sessions, routing, sent,
                   delivered>>
-----------------------------------------------------------------------------
Serve(c) ==
    \/ Register(c) \/ NeverRegisters(c) \/ SendAck(c)
    \/ LookUp(c) \/ Forward(c)
    \/ PumpEnds(c) \/ Unregister(c) \/ CloseSession(c)

RelayNext ==
    \E c \in Conns :
        \/ Dial(c) \/ ReadAck(c) \/ Receive(c) \/ CloseClient(c) \/ ClientEnds(c)
        \/ \E k \in Keys : SendTo(c, k)
        \/ Break(c)
        \/ Serve(c)

\* Goroutines run.  Nothing makes a broken connection be noticed: the relay
\* sets no read deadline.
Fairness ==
    \A c \in Conns :
        /\ WF_relayVars(Register(c)) /\ WF_relayVars(SendAck(c))
        /\ WF_relayVars(LookUp(c)) /\ WF_relayVars(Forward(c))
        /\ WF_relayVars(ReadAck(c)) /\ WF_relayVars(Receive(c))

RelaySpec == RelayInit /\ [][RelayNext]_relayVars
FairSpec == RelaySpec /\ Fairness
-----------------------------------------------------------------------------
RelayTypeOK ==
    /\ link \in [Conns -> {"none", "up", "down"}]
    /\ client \in [Conns -> {"idle", "awaitAck", "up", "ended"}]
    /\ server \in [Conns -> {"idle", "upgraded", "registered", "pumping",
                             "leaving", "closing", "gone"}]
    /\ sessionClosed \in [Conns -> BOOLEAN]
    /\ toServer \in [Conns -> Seq(RelayFrame)]
    /\ toClient \in [Conns -> Seq(RelayFrame)]
    /\ sessions \in [Keys -> Conns \cup {NoConn}]
    /\ routing \in [Conns -> [dest : Conns, frame : RelayFrame] \cup {NoRoute}]
    /\ sent \in 0 .. MaxPackets
    /\ delivered \in [Conns -> Seq(RelayFrame)]

\* The router holds no session whose handler is past its Unregister, whatever
\* connections of one key overlap: no packet is routed to a ghost for good.
NoGhostSessions ==
    \A k \in Keys : sessions[k] # NoConn =>
        /\ KeyOf[sessions[k]] = k
        /\ server[sessions[k]] \in {"registered", "pumping", "leaving"}

\* What a handler is called with was sent to its key by the peer it names,
\* never twice, and in the order of sending on each connection.
RelayKeepsOrder ==
    \A c \in Conns : \A i \in 1 .. Len(delivered[c]) :
        LET f == delivered[c][i] IN
        /\ f.payload.dest = KeyOf[c]
        /\ f.src = KeyOf[f.payload.from]
        /\ \A j \in 1 .. i - 1 :
            delivered[c][j].payload.from = f.payload.from
                => delivered[c][j].payload.id < f.payload.id

\* The packets on their way: on a connection, or in the hands of RouteForward.
PacketsIn(q, type) == {q[i].payload : i \in {j \in 1 .. Len(q) : q[j].type = type}}
UnderWay ==
    (UNION {PacketsIn(toServer[c], "send") \cup PacketsIn(toClient[c], "recv") : c \in Conns})
        \cup {routing[c].frame.payload : c \in {d \in Conns : routing[d] # NoRoute}}

\* Whatever connections of one key come, go and overlap, and wherever they break:
\* the relay may lose packets, but hands each to one connection at most, once, as
\* it was sent, and lets none overtake another of its sender (PacketService).
Service == INSTANCE PacketService WITH underWay <- UnderWay

ImplementsService == Service!Spec

\* Connect returns unless the connection is broken: the relay acknowledges
\* every registration, or something else comes first.
ConnectReturns ==
    \A c \in Conns : client[c] = "awaitAck" ~> (client[c] # "awaitAck" \/ link[c] = "down")

\* Whatever receivers come, go and vanish, and however writers wait for them:
\* every packet the relay was sent is forwarded or dropped in the end.
RelayDrains ==
    \A c \in Conns :
        (server[c] = "pumping" /\ toServer[c] # <<>>)
            ~> (toServer[c] = <<>> /\ routing[c] = NoRoute)
=============================================================================
