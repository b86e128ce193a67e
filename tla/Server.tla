------------------------------- MODULE Server -------------------------------
(***************************************************************************)
(* The godotnet server: the tick goroutine, the bounded event queue that   *)
(* feeds it, the TCP reader of every connection, the UDP reader, and the   *)
(* session registry that only the tick goroutine touches.                  *)
(*                                                                         *)
(* A TCP connection and the *Session that serveTCPConn allocates for it    *)
(* are the same thing here: an element of Conns, used once.  The secret    *)
(* token of a session is the session itself (128 random bits never         *)
(* collide); a client knows it once the accepting LoginResponse has been   *)
(* written to its socket.                                                  *)
(*                                                                         *)
(* Atomicity.  What two goroutines share is the events channel, the        *)
(* disconnectOnce flag, the socket and the outbound channel; every other   *)
(* field belongs to the tick goroutine.  A step does at most one push on   *)
(* events.  A reader swaps the once-flag in one step and pushes in the     *)
(* next.  The tick goroutine does both in one: of the steps in between     *)
(* only the session's own reader looks at that flag, it finds it taken and *)
(* pushes nothing, so its exit may as well come after the push.            *)
(*                                                                         *)
(* Fault variants.  OneTooMany, EveryTime, ForgetSocket, SilentExit,       *)
(* NeverStale, AlwaysFree, AnyToken, Forgotten, KeptRoute, AnyRoute and    *)
(* WrongPhase are not part of the specification: each is a faulty form of  *)
(* the operator defined after it, and some property fails with it.         *)
(***************************************************************************)
EXTENDS Integers, Sequences

CONSTANTS
    Conns,         \* TCP connections that may be accepted, one Session each
    Players,       \* PlayerIDs that Authenticate may return
    Addrs,         \* source addresses of UDP datagrams
    None,          \* a missing map entry or a nil pointer
    EventDepth,    \* Config.EventQueueDepth
    SendDepth,     \* Config.SendQueueDepth
    PingTimeout,   \* Config.PingTimeout, in whole tick periods (0: less than one)
    Elapsed,       \* tick periods that may pass between two ticks
    TcpFrames,     \* the kinds of TCP frame the clients send
    UdpFrames,     \* the kinds of datagram, beside handshakes
    Sockets,       \* the addresses each client may send datagrams from
    Pipelined,     \* whether clients send before their LoginResponse arrives
    MaxFrames,     \* bound: frames read from one connection
    MaxDatagrams   \* bound: datagrams read from the UDP socket

AllTcpFrames == {"login", "malformed", "pong", "game", "rpc", "other"}
AllUdpFrames == {"game", "pong"}

ASSUME ServerAssumption ==
    /\ Players \subseteq Nat
    /\ None \notin Conns \cup Addrs
    /\ EventDepth \in Nat \ {0}
    /\ SendDepth \in Nat \ {0}
    /\ PingTimeout \in Nat
    /\ Elapsed \subseteq Nat \ {0}
    /\ TcpFrames \subseteq AllTcpFrames
    /\ UdpFrames \subseteq AllUdpFrames
    /\ Sockets \in [Conns -> SUBSET Addrs]
    /\ Pipelined \in BOOLEAN
    /\ MaxFrames \in Nat
    /\ MaxDatagrams \in Nat

VARIABLES
    \* Session fields, one function per field.
    ID,            \* 0 until a login is accepted
    authState,
    udpAddr,
    silence,       \* tick periods since lastSeenUnixNano, up to PingTimeout+1
    fired,         \* disconnectOnce.fired
    tcp,           \* the server's end of the socket is open
    sendTCP,       \* the field: the open channel, or nil once it is closed
    outq,          \* the frames buffered in the sendTCP channel
    reader,        \* where serveTCPConn's reader is
    \* Server fields.
    sessions,      \* map[PlayerID]*Session
    udpSessions,   \* map[string]*Session
    events,        \* the drained batch followed by the channel's contents
    taken,         \* how many leading events the tick has drained
    snap,          \* drain's snapshot of the channel length
    \* The tick goroutine.
    pc,
    cur,           \* the session whose callback is running
    fan,           \* sessions a broadcast or the ping loop has yet to visit
    \* The clients and the bounds.
    client, sent, datagrams,
    \* History: what the callbacks have seen, and what nobody has.
    onDisconnect,  \* OnDisconnect calls per session
    lost           \* sessions whose eventDisconnect met a full queue

sessionVars  == <<ID, authState, udpAddr>>
registryVars == <<sessions, udpSessions>>
drainVars    == <<taken, snap>>
tickVars     == <<pc, cur, fan>>
discVars     == <<events, fired, lost, tcp>>
sendVars     == <<sendTCP, outq>>
clientVars   == <<client, sent, datagrams>>
vars == <<ID, authState, udpAddr, silence, fired, tcp, sendTCP, outq, reader,
          sessions, udpSessions, events, taken, snap, pc, cur, fan,
          client, sent, datagrams, onDisconnect, lost>>

AuthStates    == {"preLogin", "awaitingUDP", "ready"}
ReaderStates  == {"none", "reading", "overflow", "firing", "exited", "closed"}
ServerFrames  == {"loginOk", "loginFail", "data"}
ClientStates  == {"new", "waiting", "in", "out"}
CallbackPcs   == {"handler", "rpc", "onTick"}
TickPcs       == {"idle", "drain", "handle", "ping"} \cup CallbackPcs

TcpEvent(c, f)          == [kind |-> "tcp", sess |-> c, frame |-> f]
UdpEvent(a, f)          == [kind |-> "udp", addr |-> a, frame |-> f]
HandshakeEvent(a, p, t) == [kind |-> "handshake", addr |-> a, player |-> p, token |-> t]
DisconnectEvent(c)      == [kind |-> "disconnect", sess |-> c]

TcpEvents        == [kind : {"tcp"}, sess : Conns, frame : AllTcpFrames]
UdpEvents        == [kind : {"udp"}, addr : Addrs, frame : AllUdpFrames]
HandshakeEvents  == [kind : {"handshake"}, addr : Addrs, player : Players, token : Conns]
DisconnectEvents == [kind : {"disconnect"}, sess : Conns]
Events == TcpEvents \cup UdpEvents \cup HandshakeEvents \cup DisconnectEvents

Init ==
    /\ ID = [c \in Conns |-> 0]
    /\ authState = [c \in Conns |-> "preLogin"]
    /\ udpAddr = [c \in Conns |-> None]
    /\ silence = [c \in Conns |-> 0]
    /\ fired = [c \in Conns |-> FALSE]
    /\ tcp = [c \in Conns |-> FALSE]
    /\ sendTCP = [c \in Conns |-> "nil"]
    /\ outq = [c \in Conns |-> <<>>]
    /\ reader = [c \in Conns |-> "none"]
    /\ sessions = [p \in Players |-> None]
    /\ udpSessions = [a \in Addrs |-> None]
    /\ events = <<>>
    /\ taken = 0
    /\ snap = 0
    /\ pc = "idle"
    /\ cur = None
    /\ fan = {}
    /\ client = [c \in Conns |-> "new"]
    /\ sent = [c \in Conns |-> 0]
    /\ datagrams = 0
    /\ onDisconnect = [c \in Conns |-> 0]
    /\ lost = {}

-----------------------------------------------------------------------------
(***************************************************************************)
(* Pushing events and outbound frames.                                     *)
(***************************************************************************)

\* queue.push succeeds: the channel, the undrained part of events, has room.
OneTooMany == Len(events) - taken <= EventDepth
HasRoom == Len(events) - taken < EventDepth

Registered == {sessions[p] : p \in Players} \ {None}

\* disconnectOnce.Do runs its function: the CompareAndSwap succeeds.
EveryTime(s) == TRUE
FirstTime(s) == ~fired[s]

\* disconnectOnce.Do(push eventDisconnect), on the tick goroutine; q is events
\* without the event the tick is consuming in this step.
PushDisconnect(s, q) ==
    \/ /\ ~FirstTime(s)
       /\ events' = q
       /\ UNCHANGED <<fired, lost>>
    \/ /\ FirstTime(s)
       /\ HasRoom
       /\ events' = Append(q, DisconnectEvent(s))
       /\ fired' = [fired EXCEPT ![s] = TRUE]
       /\ UNCHANGED lost
    \/ /\ FirstTime(s)
       /\ ~HasRoom
       /\ events' = q
       /\ fired' = [fired EXCEPT ![s] = TRUE]
       /\ lost' = lost \cup {s}

\* scheduleDisconnect: a refused push also closes the socket.
ForgetSocket(s, q) == PushDisconnect(s, q) /\ UNCHANGED tcp
ScheduleDisconnect(s, q) ==
    /\ PushDisconnect(s, q)
    /\ tcp' = [tcp EXCEPT ![s] = @ /\ (~FirstTime(s) \/ HasRoom)]

\* pushTCP: a nil sendTCP is ignored, a full channel disconnects the player.
PushTCP(s, m, q) ==
    /\ UNCHANGED sendTCP
    /\ \/ /\ sendTCP[s] # "open"
          /\ events' = q
          /\ UNCHANGED <<outq, fired, lost, tcp>>
       \/ /\ sendTCP[s] = "open"
          /\ Len(outq[s]) < SendDepth
          /\ outq' = [outq EXCEPT ![s] = Append(@, m)]
          /\ events' = q
          /\ UNCHANGED <<fired, lost, tcp>>
       \/ /\ sendTCP[s] = "open"
          /\ Len(outq[s]) >= SendDepth
          /\ ScheduleDisconnect(s, q)
          /\ UNCHANGED outq

-----------------------------------------------------------------------------
(***************************************************************************)
(* The I/O goroutines.                                                     *)
(***************************************************************************)

\* runTCPAccept and the head of serveTCPConn.
Accept(c) ==
    /\ reader[c] = "none"
    /\ reader' = [reader EXCEPT ![c] = "reading"]
    /\ tcp' = [tcp EXCEPT ![c] = TRUE]
    /\ sendTCP' = [sendTCP EXCEPT ![c] = "open"]
    /\ UNCHANGED <<sessionVars, silence, fired, outq, registryVars, events, drainVars,
                   tickVars, clientVars, onDisconnect, lost>>

\* What a client sends next.  One that is not pipelining opens with a Login
\* and says nothing more until it is accepted.
MaySend(c, f) ==
    \/ Pipelined
    \/ client[c] = "new" /\ f = "login"
    \/ client[c] = "in"

\* runTCPReader: ReadFrame returns a frame, whose push succeeds or fails.
ReadMessage(c, f) ==
    /\ reader[c] = "reading"
    /\ tcp[c]
    /\ sent[c] < MaxFrames
    /\ MaySend(c, f)
    /\ sent' = [sent EXCEPT ![c] = @ + 1]
    /\ client' = [client EXCEPT ![c] = IF @ = "new" /\ f = "login" THEN "waiting" ELSE @]
    /\ \/ /\ HasRoom
          /\ events' = Append(events, TcpEvent(c, f))
          /\ UNCHANGED reader
       \/ /\ ~HasRoom
          /\ reader' = [reader EXCEPT ![c] = "overflow"]
          /\ UNCHANGED events
    /\ UNCHANGED <<sessionVars, silence, fired, tcp, sendVars, registryVars, drainVars,
                   tickVars, datagrams, onDisconnect, lost>>

\* The reader leaves its loop, after the failed push or on a read error (peer
\* close, oversized or truncated frame, socket closed by the server), and
\* calls disconnectOnce.Do: the first to ask goes on to push the event.
SilentExit(c) ==
    /\ reader[c] \in {"reading", "overflow"}
    /\ reader' = [reader EXCEPT ![c] = "exited"]
    /\ UNCHANGED <<sessionVars, silence, discVars, sendVars, registryVars, drainVars,
                   tickVars, clientVars, onDisconnect>>

ReaderExit(c) ==
    /\ reader[c] \in {"reading", "overflow"}
    /\ \/ /\ FirstTime(c)
          /\ fired' = [fired EXCEPT ![c] = TRUE]
          /\ reader' = [reader EXCEPT ![c] = "firing"]
       \/ /\ ~FirstTime(c)
          /\ reader' = [reader EXCEPT ![c] = "exited"]
          /\ UNCHANGED fired
    /\ UNCHANGED <<sessionVars, silence, events, lost, tcp, sendVars, registryVars, drainVars,
                   tickVars, clientVars, onDisconnect>>

\* The function it passed to Do, which ignores what push returns.
ReportExit(c) ==
    /\ reader[c] = "firing"
    /\ reader' = [reader EXCEPT ![c] = "exited"]
    /\ \/ /\ HasRoom
          /\ events' = Append(events, DisconnectEvent(c))
          /\ UNCHANGED lost
       \/ /\ ~HasRoom
          /\ lost' = lost \cup {c}
          /\ UNCHANGED events
    /\ UNCHANGED <<sessionVars, silence, fired, tcp, sendVars, registryVars, drainVars,
                   tickVars, clientVars, onDisconnect>>

\* The rest of serveTCPConn, once the reader has returned.
CloseConn(c) ==
    /\ reader[c] = "exited"
    /\ reader' = [reader EXCEPT ![c] = "closed"]
    /\ tcp' = [tcp EXCEPT ![c] = FALSE]
    /\ UNCHANGED <<sessionVars, silence, fired, sendVars, registryVars, events, drainVars,
                   tickVars, clientVars, onDisconnect, lost>>

\* runTCPWriter writes one frame to the socket.  A frame leaves outq when
\* the client has it; module TcpConn has the writer's own steps.  A client
\* that was given a token keeps it.
WriteNext(c) ==
    /\ tcp[c]
    /\ outq[c] # <<>>
    /\ outq' = [outq EXCEPT ![c] = Tail(@)]
    /\ client' = [client EXCEPT ![c] =
                    CASE Head(outq[c]) = "loginOk"              -> "in"
                      [] Head(outq[c]) = "loginFail" /\ @ # "in" -> "out"
                      [] OTHER                                  -> @]
    /\ UNCHANGED <<sessionVars, silence, discVars, sendTCP, reader, registryVars, drainVars,
                    tickVars, sent, datagrams, onDisconnect>>

\* runUDPReader: a datagram is queued; one that is oversized or meets a full
\* queue is dropped, which changes nothing.
ReadDatagram(e) ==
    /\ datagrams < MaxDatagrams
    /\ HasRoom
    /\ datagrams' = datagrams + 1
    /\ events' = Append(events, e)
    /\ UNCHANGED <<sessionVars, silence, fired, tcp, sendVars, reader, registryVars, drainVars,
                   tickVars, client, sent, onDisconnect, lost>>

\* A handshake carries a token its sender was given, possibly long ago, and
\* any player id; duplicates and delays are in the choice of the moment.
ReadHandshake ==
    \E t \in Conns, p \in Players :
        /\ client[t] = "in"
        /\ \E a \in Sockets[t] : ReadDatagram(HandshakeEvent(a, p, t))

ReadUDP == \E a \in Addrs, f \in UdpFrames : ReadDatagram(UdpEvent(a, f))

-----------------------------------------------------------------------------
(***************************************************************************)
(* The tick: drain, handle each event, ping, OnTick.                       *)
(***************************************************************************)

Expire(s, d) == IF silence[s] + d > PingTimeout THEN PingTimeout + 1 ELSE silence[s] + d

\* The ticker fires, d periods after the last tick, and drain reads the
\* length of the channel.
TickStart ==
    /\ pc = "idle"
    /\ pc' = "drain"
    /\ snap' = Len(events)
    /\ \E d \in Elapsed :
          silence' = [s \in Conns |->
              IF s \in Registered /\ authState[s] = "ready" THEN Expire(s, d) ELSE silence[s]]
    /\ UNCHANGED <<sessionVars, discVars, sendVars, reader, registryVars, taken, cur, fan,
                   clientVars, onDisconnect>>

\* drain receives the events of its snapshot one by one.
DrainOne ==
    /\ pc = "drain"
    /\ taken < snap
    /\ taken' = taken + 1
    /\ UNCHANGED <<sessionVars, silence, discVars, sendVars, reader, registryVars, snap,
                   tickVars, clientVars, onDisconnect>>

DrainDone ==
    /\ pc = "drain"
    /\ taken = snap
    /\ pc' = "handle"
    /\ UNCHANGED <<sessionVars, silence, discVars, sendVars, reader, registryVars, drainVars,
                   cur, fan, clientVars, onDisconnect>>

\* The tick consumes the event e at the head of the batch.
Consume(e) ==
    /\ pc = "handle"
    /\ taken > 0
    /\ e = Head(events)
    /\ taken' = taken - 1
    /\ UNCHANGED <<snap, reader, clientVars>>

\* dispatchMessage drops a TCP event of a session that has an ID nobody
\* holds any more.
NeverStale(s) == FALSE
Stale(s) == ID[s] # 0 /\ sessions[ID[s]] = None

\* A TCP frame that dispatchMessage does not act on.
DropFrame ==
    \E s \in Conns, f \in AllTcpFrames :
        /\ Consume(TcpEvent(s, f))
        /\ \/ Stale(s)
           \/ f = "login" /\ authState[s] # "preLogin"
           \/ f \in {"game", "rpc"} /\ authState[s] # "ready"
           \/ f = "other"
        /\ events' = Tail(events)
        /\ UNCHANGED <<sessionVars, silence, fired, lost, tcp, sendVars, registryVars, tickVars,
                       onDisconnect>>

\* A frame that is no ClientFrame.
Malformed ==
    \E s \in Conns :
        /\ Consume(TcpEvent(s, "malformed"))
        /\ ~Stale(s)
        /\ ScheduleDisconnect(s, Tail(events))
        /\ UNCHANGED <<sessionVars, silence, sendVars, registryVars, tickVars, onDisconnect>>

\* handlePong over TCP.
Pong ==
    \E s \in Conns :
        /\ Consume(TcpEvent(s, "pong"))
        /\ ~Stale(s)
        /\ silence' = [silence EXCEPT ![s] = 0]
        /\ events' = Tail(events)
        /\ UNCHANGED <<sessionVars, fired, lost, tcp, sendVars, registryVars, tickVars,
                       onDisconnect>>

\* What callAuthenticate may return: a player, or None for an error or a
\* recovered panic.
Authenticate == Players \cup {None}

\* The frame sendLoginResponse builds; the token is in the accepting one.
LoginResponse(ok) == IF ok THEN "loginOk" ELSE "loginFail"

\* handleLogin's duplicate check.
AlwaysFree(p) == TRUE
Free(p) == sessions[p] = None

\* The outbound frames of s after sendLoginResponse(false): one more, unless
\* there is no channel, no room in it, or a response that does not marshal.
LoginFailed(s) ==
    \/ UNCHANGED outq
    \/ /\ sendTCP[s] = "open"
       /\ Len(outq[s]) < SendDepth
       /\ outq' = [outq EXCEPT ![s] = Append(@, LoginResponse(FALSE))]

\* handleLogin, failing: misconfigured server, malformed credentials or a
\* failed Authenticate (all of them None), or a taken player.
LoginRejected ==
    \E s \in Conns, p \in Authenticate :
        /\ Consume(TcpEvent(s, "login"))
        /\ ~Stale(s)
        /\ authState[s] = "preLogin"
        /\ p \in Players => ~Free(p)
        /\ LoginFailed(s)
        /\ ScheduleDisconnect(s, Tail(events))
        /\ UNCHANGED <<sessionVars, silence, sendTCP, registryVars, tickVars, onDisconnect>>

\* handleLogin, succeeding; OnAuth runs between the two halves.
LoginAccepted ==
    \E s \in Conns, p \in Players :
        /\ Consume(TcpEvent(s, "login"))
        /\ ~Stale(s)
        /\ authState[s] = "preLogin"
        /\ Free(p)
        /\ ID' = [ID EXCEPT ![s] = p]
        /\ authState' = [authState EXCEPT ![s] = "awaitingUDP"]
        /\ sessions' = [sessions EXCEPT ![p] = s]
        /\ PushTCP(s, LoginResponse(TRUE), Tail(events))
        /\ UNCHANGED <<udpAddr, silence, udpSessions, tickVars, onDisconnect>>

\* Any datagram from a paired address shows that its session is alive.
Heard(a) == [s \in Conns |-> IF s = udpSessions[a] THEN 0 ELSE silence[s]]

\* handleUDPHandshake finds the player's session, the token is the one that
\* session was issued, and the session is waiting for it.
AnyToken(p, t) == sessions[p] # None /\ authState[sessions[p]] = "awaitingUDP"
MayPair(p, t) == sessions[p] = t /\ authState[t] = "awaitingUDP"

\* handleUDPHandshake pairing a session with its datagram's source.
HandshakePaired ==
    \E a \in Addrs, p \in Players, t \in Conns :
        /\ Consume(HandshakeEvent(a, p, t))
        /\ MayPair(p, t)
        /\ udpAddr' = [udpAddr EXCEPT ![sessions[p]] = a]
        /\ authState' = [authState EXCEPT ![sessions[p]] = "ready"]
        /\ silence' = [Heard(a) EXCEPT ![sessions[p]] = 0]
        /\ udpSessions' = [udpSessions EXCEPT ![a] = sessions[p]]
        /\ events' = Tail(events)
        /\ UNCHANGED <<ID, fired, lost, tcp, sendVars, sessions, tickVars, onDisconnect>>

\* handleUDPHandshake refusing (unknown player or wrong token) or ignoring
\* (already paired) a handshake.
HandshakeRefused ==
    \E a \in Addrs, p \in Players, t \in Conns :
        /\ Consume(HandshakeEvent(a, p, t))
        /\ ~MayPair(p, t)
        /\ silence' = Heard(a)
        /\ events' = Tail(events)
        /\ UNCHANGED <<sessionVars, fired, lost, tcp, sendVars, registryVars, tickVars,
                       onDisconnect>>

\* The datagrams of address a are attributed to a ready session.
Routed(a) == udpSessions[a] # None /\ authState[udpSessions[a]] = "ready"

\* A datagram that reaches no handler: a Pong (or a frame that only TCP may
\* carry, or none at all), or one from an address that is not paired.
UdpQuiet ==
    \E a \in Addrs, f \in AllUdpFrames :
        /\ Consume(UdpEvent(a, f))
        /\ ~(f = "game" /\ Routed(a))
        /\ silence' = Heard(a)
        /\ events' = Tail(events)
        /\ UNCHANGED <<sessionVars, fired, lost, tcp, sendVars, registryVars, tickVars,
                       onDisconnect>>

\* dispatchUserMessage calls the client handler, for a frame of either plane;
\* a payload nobody handles is a handler that returns at once.
GameOverTCP ==
    \E s \in Conns :
        /\ Consume(TcpEvent(s, "game"))
        /\ ~Stale(s)
        /\ authState[s] = "ready"
        /\ pc' = "handler"
        /\ cur' = s
        /\ events' = Tail(events)
        /\ UNCHANGED <<sessionVars, silence, fired, lost, tcp, sendVars, registryVars, fan,
                       onDisconnect>>

GameOverUDP ==
    \E a \in Addrs :
        /\ Consume(UdpEvent(a, "game"))
        /\ Routed(a)
        /\ pc' = "handler"
        /\ cur' = udpSessions[a]
        /\ silence' = Heard(a)
        /\ events' = Tail(events)
        /\ UNCHANGED <<sessionVars, fired, lost, tcp, sendVars, registryVars, fan, onDisconnect>>

\* dispatchRPC finds no handler (not configured, malformed, empty, unknown
\* type) and answers with an error at once.
RpcRefused ==
    \E s \in Conns :
        /\ Consume(TcpEvent(s, "rpc"))
        /\ ~Stale(s)
        /\ authState[s] = "ready"
        /\ PushTCP(s, "data", Tail(events))
        /\ UNCHANGED <<sessionVars, silence, registryVars, tickVars, onDisconnect>>

\* dispatchRPC calls the RPC handler.
RpcCalled ==
    \E s \in Conns :
        /\ Consume(TcpEvent(s, "rpc"))
        /\ ~Stale(s)
        /\ authState[s] = "ready"
        /\ pc' = "rpc"
        /\ cur' = s
        /\ events' = Tail(events)
        /\ UNCHANGED <<sessionVars, silence, fired, lost, tcp, sendVars, registryVars, fan,
                       onDisconnect>>

\* The maps after cleanupSession has deleted s from them.
Forgotten(s) == sessions
Unregister(s) == [p \in Players |-> IF ID[s] # 0 /\ p = ID[s] THEN None ELSE sessions[p]]
KeptRoute(s) == udpSessions
AnyRoute(s) == [a \in Addrs |-> None]
Unroute(s) == [a \in Addrs |-> IF a = udpAddr[s] THEN None ELSE udpSessions[a]]

\* cleanupSession.  The frames left in the channel go nowhere: the socket is
\* closed before the channel is.
Cleanup ==
    \E s \in Conns :
        /\ Consume(DisconnectEvent(s))
        /\ sessions' = Unregister(s)
        /\ udpSessions' = Unroute(s)
        /\ tcp' = [tcp EXCEPT ![s] = FALSE]
        /\ sendTCP' = [sendTCP EXCEPT ![s] = "nil"]
        /\ outq' = [outq EXCEPT ![s] = <<>>]
        /\ onDisconnect' = [onDisconnect EXCEPT ![s] = @ + 1]
        /\ events' = Tail(events)
        /\ UNCHANGED <<sessionVars, silence, fired, lost, tickVars>>

\* runPingTick: the sessions whose last datagram is too old; the pings to
\* the others change no state of the server.
WrongPhase == {s \in Registered : authState[s] = "awaitingUDP" /\ silence[s] > PingTimeout}
Expired == {s \in Registered : authState[s] = "ready" /\ udpAddr[s] # None
                                /\ silence[s] > PingTimeout}

PingStart ==
    /\ pc = "handle"
    /\ taken = 0
    /\ pc' = "ping"
    /\ fan' = Expired
    /\ UNCHANGED <<sessionVars, silence, discVars, sendVars, reader, registryVars, drainVars,
                   cur, clientVars, onDisconnect>>

PingTimedOut ==
    \E s \in fan :
        /\ pc = "ping"
        /\ fan' = fan \ {s}
        /\ ScheduleDisconnect(s, events)
        /\ UNCHANGED <<sessionVars, silence, sendVars, reader, registryVars, drainVars, pc, cur,
                       clientVars, onDisconnect>>

PingDone ==
    /\ pc = "ping"
    /\ fan = {}
    /\ pc' = "onTick"
    /\ UNCHANGED <<sessionVars, silence, discVars, sendVars, reader, registryVars, drainVars,
                   cur, fan, clientVars, onDisconnect>>

-----------------------------------------------------------------------------
(***************************************************************************)
(* User callbacks: handlers and OnTick may call TickCtx as often as they   *)
(* like before they return.  SendUDP, BroadcastUDP and the read-only       *)
(* methods change no state of the server.                                  *)
(***************************************************************************)

InCallback == pc \in CallbackPcs /\ fan = {}

SendTCPTo ==
    \E p \in Players :
        /\ InCallback
        /\ sessions[p] # None
        /\ PushTCP(sessions[p], "data", events)
        /\ UNCHANGED <<sessionVars, silence, reader, registryVars, drainVars, tickVars,
                       clientVars, onDisconnect>>

BroadcastTCP ==
    /\ InCallback
    /\ fan' = Registered
    /\ UNCHANGED <<sessionVars, silence, discVars, sendVars, reader, registryVars, drainVars,
                   pc, cur, clientVars, onDisconnect>>

BroadcastOne ==
    \E s \in fan :
        /\ pc \in CallbackPcs
        /\ fan' = fan \ {s}
        /\ PushTCP(s, "data", events)
        /\ UNCHANGED <<sessionVars, silence, reader, registryVars, drainVars, pc, cur,
                       clientVars, onDisconnect>>

Disconnect ==
    \E p \in Players :
        /\ InCallback
        /\ sessions[p] # None
        /\ ScheduleDisconnect(sessions[p], events)
        /\ UNCHANGED <<sessionVars, silence, sendVars, reader, registryVars, drainVars, tickVars,
                       clientVars, onDisconnect>>

\* A client handler returns, or panics and has its session disconnected.
HandlerReturn ==
    /\ pc = "handler"
    /\ fan = {}
    /\ pc' = "handle"
    /\ cur' = None
    /\ UNCHANGED <<sessionVars, silence, discVars, sendVars, reader, registryVars, drainVars,
                   fan, clientVars, onDisconnect>>

HandlerPanic ==
    /\ pc = "handler"
    /\ fan = {}
    /\ pc' = "handle"
    /\ cur' = None
    /\ ScheduleDisconnect(cur, events)
    /\ UNCHANGED <<sessionVars, silence, sendVars, reader, registryVars, drainVars, fan,
                   clientVars, onDisconnect>>

\* An RPC handler returns, fails or panics: one response in every case, or
\* none if it does not marshal.
RpcReturn ==
    /\ pc = "rpc"
    /\ fan = {}
    /\ pc' = "handle"
    /\ cur' = None
    /\ PushTCP(cur, "data", events) \/ UNCHANGED <<discVars, sendVars>>
    /\ UNCHANGED <<sessionVars, silence, reader, registryVars, drainVars, fan, clientVars,
                   onDisconnect>>

\* OnTick returns or panics; the tick is over.
OnTickReturn ==
    /\ pc = "onTick"
    /\ fan = {}
    /\ pc' = "idle"
    /\ UNCHANGED <<sessionVars, silence, discVars, sendVars, reader, registryVars, drainVars,
                   cur, fan, clientVars, onDisconnect>>

-----------------------------------------------------------------------------

HandleEvent ==
    \/ DropFrame \/ Malformed \/ Pong
    \/ LoginRejected \/ LoginAccepted
    \/ HandshakePaired \/ HandshakeRefused
    \/ UdpQuiet \/ GameOverTCP \/ GameOverUDP
    \/ RpcRefused \/ RpcCalled
    \/ Cleanup

CallbackCall == SendTCPTo \/ BroadcastTCP \/ BroadcastOne \/ Disconnect

CallbackReturn == HandlerReturn \/ HandlerPanic \/ RpcReturn \/ OnTickReturn

\* The steps the tick goroutine takes by itself.
TickStep ==
    \/ TickStart \/ DrainOne \/ DrainDone
    \/ HandleEvent
    \/ PingStart \/ PingTimedOut \/ PingDone
    \/ BroadcastOne
    \/ CallbackReturn

Reading ==
    \/ \E c \in Conns : Accept(c) \/ ReaderExit(c) \/ ReportExit(c) \/ CloseConn(c) \/ WriteNext(c)
    \/ \E c \in Conns, f \in TcpFrames : ReadMessage(c, f)
    \/ ReadHandshake
    \/ ReadUDP

Next == TickStep \/ CallbackCall \/ Reading

Spec == Init /\ [][Next]_vars

\* The tick goroutine keeps running and user callbacks return; a reader that
\* has left its loop, or whose socket is closed under it, finishes.
Fairness ==
    /\ WF_vars(TickStep)
    /\ SF_vars(CallbackReturn)
    /\ \A c \in Conns : /\ WF_vars(CloseConn(c))
                        /\ WF_vars(ReportExit(c))
                        /\ WF_vars(reader[c] = "overflow" /\ ReaderExit(c))
                        /\ WF_vars(~tcp[c] /\ ReaderExit(c))

FairSpec == Spec /\ Fairness
=============================================================================
