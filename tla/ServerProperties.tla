-------------------------- MODULE ServerProperties --------------------------
(***************************************************************************)
(* What the server of module Server is expected to guarantee.              *)
(***************************************************************************)
EXTENDS Server

\* Every variable has its type; drain never holds more than it was promised
\* and the channel never holds more than EventDepth events.
TypeOK ==
    /\ ID \in [Conns -> Players \cup {0}]
    /\ authState \in [Conns -> AuthStates]
    /\ udpAddr \in [Conns -> Addrs \cup {None}]
    /\ silence \in [Conns -> 0 .. PingTimeout + 1]
    /\ fired \in [Conns -> BOOLEAN]
    /\ tcp \in [Conns -> BOOLEAN]
    /\ sendTCP \in [Conns -> {"open", "nil"}]
    /\ outq \in [Conns -> Seq(ServerFrames)]
    /\ reader \in [Conns -> ReaderStates]
    /\ sessions \in [Players -> Conns \cup {None}]
    /\ udpSessions \in [Addrs -> Conns \cup {None}]
    /\ events \in Seq(Events)
    /\ taken \in 0 .. Len(events)
    /\ snap \in 0 .. EventDepth
    /\ Len(events) - taken <= EventDepth
    /\ pc \in TickPcs
    /\ cur \in Conns \cup {None}
    /\ fan \in SUBSET Conns
    /\ client \in [Conns -> ClientStates]
    /\ sent \in [Conns -> 0 .. MaxFrames]
    /\ datagrams \in 0 .. MaxDatagrams
    /\ onDisconnect \in [Conns -> Nat]
    /\ lost \in SUBSET Conns

-----------------------------------------------------------------------------
(* The registry *)

\* s.sessions and the sessions' own fields agree: an entry belongs to an
\* authenticated session with that ID, and every authenticated session whose
\* OnDisconnect has not run is the entry of its ID.  So no login, handshake
\* or cleanup of one connection ever displaces another player's session.
RegistryConsistent ==
    /\ \A p \in Players : sessions[p] # None =>
          ID[sessions[p]] = p /\ authState[sessions[p]] # "preLogin"
    /\ \A s \in Conns : authState[s] # "preLogin" /\ onDisconnect[s] = 0 =>
          ID[s] \in Players /\ sessions[ID[s]] = s

\* A datagram is only ever attributed to a ready session that paired from its
\* address and still holds its player: udpSessions keeps no dead session,
\* whatever the order of handshakes and cleanups on shared addresses.
UdpRouteSound ==
    \A a \in Addrs : udpSessions[a] # None =>
        /\ udpAddr[udpSessions[a]] = a
        /\ authState[udpSessions[a]] = "ready"
        /\ onDisconnect[udpSessions[a]] = 0
        /\ udpSessions[a] \in Registered

\* A session that is ready and not torn down is reachable over UDP: its
\* address leads back to it.  Only another session that has paired from the
\* same address can take that away, by pairing or by being cleaned up.
ReadyReachable ==
    \A s \in Conns : authState[s] = "ready" /\ onDisconnect[s] = 0 =>
        /\ udpAddr[s] \in Addrs
        /\ udpSessions[udpAddr[s]] = s \/ \E t \in Conns \ {s} : udpAddr[t] = udpAddr[s]

\* A session whose OnDisconnect has run is in neither lookup table, so the
\* player it held may log in again: no event of it has any effect.
CleanedStaysOut ==
    \A s \in Conns : onDisconnect[s] > 0 =>
        s \notin Registered /\ \A a \in Addrs : udpSessions[a] # s

\* A session is only ever paired by a client that was given its own token:
\* neither another player's token nor that of an earlier session of the same
\* player makes it ready.
PairedByTokenHolder == \A s \in Conns : authState[s] = "ready" => client[s] = "in"

\* A player's entry is only removed, never replaced, and only by the step
\* that runs OnDisconnect for the session it holds.
ReleasedByCleanup ==
    [][\A p \in Players : sessions[p] # None /\ sessions'[p] # sessions[p] =>
          /\ sessions'[p] = None
          /\ onDisconnect'[sessions[p]] = onDisconnect[sessions[p]] + 1]_vars

-----------------------------------------------------------------------------
(* Disconnects *)

PendingAt(s, i) == events[i] = DisconnectEvent(s)
Pending(s) == \E i \in 1 .. Len(events) : PendingAt(s, i)

\* Every session whose disconnectOnce has fired is in exactly one of four
\* places: its reader is about to push the eventDisconnect, its single event
\* is in flight, its OnDisconnect has run exactly once, or the event met a
\* full queue.  No other session is in any.
DisconnectAccounted ==
    \A s \in Conns :
        /\ \A i, j \in 1 .. Len(events) : PendingAt(s, i) /\ PendingAt(s, j) => i = j
        /\ onDisconnect[s] \in {0, 1}
        /\ fired[s] <=> reader[s] = "firing" \/ Pending(s) \/ onDisconnect[s] = 1 \/ s \in lost
        /\ reader[s] = "firing" => ~Pending(s) /\ onDisconnect[s] = 0 /\ s \notin lost
        /\ ~(Pending(s) /\ onDisconnect[s] = 1)
        /\ s \in lost => ~Pending(s) /\ onDisconnect[s] = 0

\* OnConnect never follows OnDisconnect of the same session: the token of a
\* session that was torn down first can no longer reach its client.
NoConnectAfterDisconnect ==
    [][\A s \in Conns : authState[s] # "ready" /\ authState'[s] = "ready" =>
          onDisconnect[s] = 0]_vars

\* A client handler or RPC handler only runs for a session whose
\* OnDisconnect has not run.
HandlersSeeLiveSessions ==
    pc \in {"handler", "rpc"} => onDisconnect[cur] = 0

\* A handler that runs for a torn-down session, as HandlersSeeLiveSessions
\* says none does, finds its player registered on another connection: a frame
\* queued behind the teardown reaches a handler in no other way.
HandlerLiveOrReplaced ==
    pc \in {"handler", "rpc"} =>
        \/ onDisconnect[cur] = 0
        \/ sessions[ID[cur]] \in Conns \ {cur}

\* Once a connection's reader is gone its session is torn down, unless its
\* eventDisconnect was refused by a full queue.
ReaderExitCleansUp ==
    \A c \in Conns : reader[c] = "closed" ~> onDisconnect[c] = 1 \/ c \in lost

\* A player whose frame overflows the event queue is disconnected: s.sessions
\* no longer has it and OnDisconnect has run for it.
OverflowDisconnects ==
    \A c \in Conns : (c \in Registered /\ reader[c] = "overflow")
                        ~> (c \notin Registered /\ onDisconnect[c] = 1)

\* A session whose eventDisconnect was refused is at least hung up on: its
\* socket is closed and its reader ends, though nothing cleans it up.
RefusedIsHungUp ==
    \A c \in Conns : c \in lost ~> ~tcp[c] /\ reader[c] = "closed"

Zombie(c) == c \in Registered /\ authState[c] = "ready" /\ silence[c] > PingTimeout

\* A ready session that has been silent for longer than PingTimeout is heard
\* again or torn down, unless its eventDisconnect was refused.
SilenceEndsSession ==
    \A c \in Conns : Zombie(c) ~> ~Zombie(c) \/ c \in lost

-----------------------------------------------------------------------------
(* The session layer's promise *)

Phase(c) ==
    IF reader[c] = "none" THEN "none"
    ELSE CASE authState[c] = "preLogin"    -> "connected"
           [] authState[c] = "awaitingUDP" -> "authenticated"
           [] authState[c] = "ready"       -> "ready"

PS == INSTANCE PlayerSessions WITH
        phase <- [c \in Conns |-> Phase(c)],
        left  <- {c \in Conns : onDisconnect[c] > 0},
        owner <- sessions

\* The server implements PlayerSessions, whatever its clients send and
\* whatever ids Authenticate returns.
ImplementsPlayerSessions == PS!ASpec
=============================================================================
