--------------------------- MODULE SessionProofs ----------------------------
(***************************************************************************)
(* Theorems about the life of a session in module Server, for every value  *)
(* of its constants: who may still hold a token, where datagrams go, which *)
(* sessions handlers run for, and what a torn-down session can no longer   *)
(* do.  They lead to the refinement of PlayerSessions, and to that of      *)
(* SubManager by a game that subscribes the players of its handlers and    *)
(* calls UnsubscribeAll in OnDisconnect (module GameServer).               *)
(***************************************************************************)
EXTENDS ServerProofs, GameServer

\* An event is a frame of session s, or a handshake with its token.
IsFrame(e, s) == \E f \in AllTcpFrames : e = TcpEvent(s, f)
IsHandshake(e, s) == \E a \in Addrs, p \in Players : e = HandshakeEvent(a, p, s)

FrameIn(q, s) == \E i \in 1 .. Len(q) : IsFrame(q[i], s)
HandshakeIn(q, s) == \E i \in 1 .. Len(q) : IsHandshake(q[i], s)

\* A LoginResponse with the session's token is in its outbound channel.
OkIn(o) == \E i \in 1 .. Len(o) : o[i] = "loginOk"

-----------------------------------------------------------------------------
(* Sequences *)

\* The elements of a sequence with one more at its end.
LEMMA AppendAt ==
    ASSUME NEW S, NEW q \in Seq(S), NEW e \in S
    PROVE  /\ Append(q, e) \in Seq(S)
           /\ Len(q) \in Nat
           /\ Len(Append(q, e)) = Len(q) + 1
           /\ \A i \in 1 .. Len(q) : Append(q, e)[i] = q[i]
           /\ Append(q, e)[Len(q) + 1] = e
OBVIOUS

\* The elements of a sequence without its head.
LEMMA TailAt ==
    ASSUME NEW S, NEW q \in Seq(S), q # <<>>
    PROVE  /\ Tail(q) \in Seq(S)
           /\ Len(q) \in Nat \ {0}
           /\ Len(Tail(q)) = Len(q) - 1
           /\ \A i \in 1 .. Len(Tail(q)) : Tail(q)[i] = q[i + 1]
           /\ Head(q) = q[1]
OBVIOUS

\* What is in the queue once e is pushed.
LEMMA PushedIn ==
    ASSUME NEW q \in Seq(Events), NEW e \in Events, NEW s \in Conns
    PROVE  /\ FrameIn(Append(q, e), s) => FrameIn(q, s) \/ IsFrame(e, s)
           /\ HandshakeIn(Append(q, e), s) => HandshakeIn(q, s) \/ IsHandshake(e, s)
<1> DEFINE r == Append(q, e)
<1>1. /\ Len(q) \in Nat /\ Len(r) = Len(q) + 1
      /\ \A i \in 1 .. Len(q) : r[i] = q[i]
      /\ r[Len(q) + 1] = e
  BY AppendAt
<1> HIDE DEF r
<1>2. \A i \in 1 .. Len(r) : (i \in 1 .. Len(q) /\ r[i] = q[i]) \/ r[i] = e
  BY <1>1
<1> QED
  BY <1>2 DEF FrameIn, HandshakeIn, r

\* What is in the queue once its head is consumed, and where the head was.
LEMMA ConsumedIn ==
    ASSUME NEW q \in Seq(Events), q # <<>>, NEW s \in Conns
    PROVE  /\ FrameIn(Tail(q), s) => FrameIn(q, s)
           /\ HandshakeIn(Tail(q), s) => HandshakeIn(q, s)
           /\ IsFrame(Head(q), s) => FrameIn(q, s)
           /\ IsHandshake(Head(q), s) => HandshakeIn(q, s)
<1> DEFINE r == Tail(q)
<1>1. /\ Len(q) \in Nat \ {0} /\ Len(r) = Len(q) - 1
      /\ \A i \in 1 .. Len(r) : r[i] = q[i + 1]
      /\ Head(q) = q[1]
  BY TailAt
<1> HIDE DEF r
<1>2. /\ \A i \in 1 .. Len(r) : i + 1 \in 1 .. Len(q) /\ r[i] = q[i + 1]
      /\ 1 \in 1 .. Len(q) /\ Head(q) = q[1]
  BY <1>1
<1> QED
  BY <1>2 DEF FrameIn, HandshakeIn, r

\* The kinds of event exclude each other and tell their session.
LEMMA KindsDiffer ==
    ASSUME NEW s \in Conns, NEW t \in Conns
    PROVE  /\ ~IsFrame(DisconnectEvent(t), s)
           /\ ~IsHandshake(DisconnectEvent(t), s)
           /\ \A f \in AllTcpFrames : /\ IsFrame(TcpEvent(t, f), s) <=> s = t
                                      /\ ~IsHandshake(TcpEvent(t, f), s)
           /\ \A a \in Addrs, f \in AllUdpFrames : /\ ~IsFrame(UdpEvent(a, f), s)
                                                  /\ ~IsHandshake(UdpEvent(a, f), s)
           /\ \A a \in Addrs, p \in Players :
                  /\ ~IsFrame(HandshakeEvent(a, p, t), s)
                  /\ IsHandshake(HandshakeEvent(a, p, t), s) <=> s = t
BY DEF IsFrame, IsHandshake, TcpEvent, UdpEvent, HandshakeEvent, DisconnectEvent

-----------------------------------------------------------------------------
(* The steps that leave the sessions alone *)

\* Session s may be disconnected by the step: its frame is the one that is
\* consumed, a fan-out is to visit it, it is registered, or its handler runs.
Pusher(s, q) ==
    \/ q = Tail(events) /\ events # <<>> /\ IsFrame(Head(events), s)
    \/ s \in fan \cup Registered
    \/ pc \in {"handler", "rpc"} /\ s = cur

\* What a scheduled disconnect of s does to the queue q and the once-flag.
Scheduled(s, q) ==
    \/ events' = q /\ fired' = fired
    \/ /\ events' = q \/ events' = Append(q, DisconnectEvent(s))
       /\ fired' = [fired EXCEPT ![s] = TRUE]

\* A step that neither reads from the network nor moves a session on: it
\* consumes an event or none, and may send a frame to s or schedule its
\* disconnect, but it sends no token.
QuietStep ==
    /\ UNCHANGED <<ID, authState, udpAddr, sessions, udpSessions, sendTCP, reader, client,
                   sent, onDisconnect>>
    /\ \E q \in Seq(Events) :
          /\ q = events \/ (q = Tail(events) /\ events # <<>>)
          /\ \/ events' = q /\ UNCHANGED <<fired, outq>>
             \/ \E s \in Conns :
                   /\ Pusher(s, q)
                   /\ Scheduled(s, q)
                   /\ \/ outq' = outq
                      \/ \E m \in {"loginFail", "data"} :
                            outq' = [outq EXCEPT ![s] = Append(@, m)]

\* PushDisconnect, scheduleDisconnect and pushTCP all do to the queue what
\* Scheduled says, and pushTCP queues its frame or leaves the channel.
LEMMA PushesSchedule ==
    ASSUME NEW s \in Conns, NEW q
    PROVE  /\ PushDisconnect(s, q) => Scheduled(s, q)
           /\ ScheduleDisconnect(s, q) => Scheduled(s, q)
           /\ \A m : PushTCP(s, m, q) =>
                 /\ Scheduled(s, q)
                 /\ \/ outq' = outq
                    \/ outq' = [outq EXCEPT ![s] = Append(@, m)] /\ sendTCP[s] = "open"
<1>1. PushDisconnect(s, q) => Scheduled(s, q)
  BY Zenon DEF PushDisconnect, Scheduled
<1>2. ScheduleDisconnect(s, q) => Scheduled(s, q)
  BY <1>1 DEF ScheduleDisconnect
<1>3. ASSUME NEW m, PushTCP(s, m, q)
      PROVE  /\ Scheduled(s, q)
             /\ \/ outq' = outq
                \/ outq' = [outq EXCEPT ![s] = Append(@, m)] /\ sendTCP[s] = "open"
  <2>1. CASE events' = q /\ UNCHANGED <<outq, fired, lost, tcp>>
    BY <2>1 DEF Scheduled
  <2>2. CASE /\ outq' = [outq EXCEPT ![s] = Append(@, m)] /\ sendTCP[s] = "open"
             /\ events' = q /\ UNCHANGED <<fired, lost, tcp>>
    BY <2>2 DEF Scheduled
  <2>3. CASE ScheduleDisconnect(s, q) /\ UNCHANGED outq
    BY <1>2, <2>3
  <2> QED
    BY <1>3, <2>1, <2>2, <2>3 DEF PushTCP
<1> QED
  BY <1>1, <1>2, <1>3

\* Every step is one that this module looks at, or a quiet one.
LEMMA StepKinds ==
    ASSUME TypeInv, [Next]_vars
    PROVE  \/ \E c \in Conns : Accept(c) \/ CloseConn(c) \/ WriteNext(c)
           \/ \E c \in Conns : ReaderExit(c) \/ ReportExit(c)
           \/ \E c \in Conns, f \in TcpFrames : ReadMessage(c, f)
           \/ ReadHandshake \/ ReadUDP
           \/ LoginAccepted \/ HandshakePaired \/ Cleanup
           \/ QuietStep
<1> USE DEF sessionVars, registryVars, drainVars, tickVars, discVars, sendVars, clientVars
<1> DEFINE Same == UNCHANGED <<ID, authState, udpAddr, sessions, udpSessions, sendTCP, reader,
                               client, sent, onDisconnect>>
<1>a. events \in Seq(Events)
  BY DEF TypeInv, TypeOK
<1>b. ASSUME NEW e, Consume(e)
      PROVE  /\ Tail(events) \in Seq(Events) /\ events # <<>> /\ e = Head(events)
             /\ reader' = reader /\ client' = client /\ sent' = sent
  BY <1>b, ConsumeOK
<1>1. ASSUME Same, UNCHANGED <<events, fired, outq>> PROVE QuietStep
  BY <1>1, <1>a DEF QuietStep
<1>2. ASSUME NEW e, Consume(e), Same, events' = Tail(events), UNCHANGED <<fired, outq>>
      PROVE  QuietStep
  BY <1>2, <1>b DEF QuietStep
<1>3. ASSUME NEW s \in Conns, NEW f \in AllTcpFrames, Consume(TcpEvent(s, f)), Same,
             Scheduled(s, Tail(events)),
             outq' = outq \/ \E m \in {"loginFail", "data"} :
                                 outq' = [outq EXCEPT ![s] = Append(@, m)]
      PROVE  QuietStep
  <2>1. Pusher(s, Tail(events))
    BY <1>3, <1>b DEF Pusher, IsFrame
  <2> HIDE DEF Same
  <2> QED
    BY <1>3, <1>b, <2>1 DEF QuietStep, Same
<1>4. ASSUME NEW s \in Conns, Same, Pusher(s, events), Scheduled(s, events),
             outq' = outq \/ \E m \in {"loginFail", "data"} :
                                 outq' = [outq EXCEPT ![s] = Append(@, m)]
      PROVE  QuietStep
  BY <1>4, <1>a DEF QuietStep
<1>5. CASE DropFrame \/ Pong \/ HandshakeRefused \/ UdpQuiet \/ GameOverTCP \/ GameOverUDP
           \/ RpcCalled
  <2>1. PICK e : Consume(e) /\ events' = Tail(events) /\ UNCHANGED <<fired, outq>>
                 /\ UNCHANGED <<ID, authState, udpAddr, sessions, udpSessions, sendTCP,
                                onDisconnect>>
    BY <1>5 DEF DropFrame, Pong, HandshakeRefused, UdpQuiet, GameOverTCP, GameOverUDP, RpcCalled
  <2> QED
    BY <1>2, <1>b, <2>1
<1>6. CASE Malformed
  <2>1. PICK s \in Conns : Consume(TcpEvent(s, "malformed"))
                           /\ ScheduleDisconnect(s, Tail(events))
                           /\ UNCHANGED <<ID, authState, udpAddr, sessions, udpSessions,
                                          sendTCP, outq, onDisconnect>>
    BY <1>6 DEF Malformed
  <2> QED
    BY <1>3, <1>b, <2>1, PushesSchedule DEF AllTcpFrames
<1>7. CASE LoginRejected
  <2>1. PICK s \in Conns : Consume(TcpEvent(s, "login"))
                           /\ ScheduleDisconnect(s, Tail(events))
                           /\ LoginFailed(s)
                           /\ UNCHANGED <<ID, authState, udpAddr, sessions, udpSessions,
                                          sendTCP, onDisconnect>>
    BY <1>7 DEF LoginRejected
  <2>2. \/ outq' = outq
        \/ outq' = [outq EXCEPT ![s] = Append(@, "loginFail")]
    BY <2>1 DEF LoginFailed, LoginResponse
  <2> QED
    BY <1>3, <1>b, <2>1, <2>2, PushesSchedule DEF AllTcpFrames
<1>8. CASE RpcRefused
  <2>1. PICK s \in Conns : Consume(TcpEvent(s, "rpc"))
                           /\ PushTCP(s, "data", Tail(events))
                           /\ UNCHANGED <<ID, authState, udpAddr, sessions, udpSessions,
                                          onDisconnect>>
    BY <1>8 DEF RpcRefused
  <2>2. sendTCP' = sendTCP
    BY <2>1 DEF PushTCP
  <2> QED
    BY <1>3, <1>b, <2>1, <2>2, PushesSchedule DEF AllTcpFrames
<1>9. CASE TickStart \/ DrainOne \/ DrainDone \/ PingStart \/ PingDone \/ BroadcastTCP
           \/ HandlerReturn \/ OnTickReturn \/ UNCHANGED vars
  BY <1>1, <1>9 DEF TickStart, DrainOne, DrainDone, PingStart, PingDone, BroadcastTCP,
                    HandlerReturn, OnTickReturn, vars
<1>10. CASE PingTimedOut \/ Disconnect \/ HandlerPanic
  <2>1. PICK s \in Conns : Pusher(s, events) /\ ScheduleDisconnect(s, events) /\ Same
                           /\ UNCHANGED outq
    <3>1. CASE PingTimedOut
      BY <3>1 DEF PingTimedOut, Pusher, TypeInv, TypeOK
    <3>2. CASE Disconnect
      BY <3>2 DEF Disconnect, Pusher, Registered, TypeInv, TypeOK
    <3>3. CASE HandlerPanic
      BY <3>3 DEF HandlerPanic, Pusher, TypeInv, TickOK
    <3> QED
      BY <1>10, <3>1, <3>2, <3>3
  <2> QED
    BY <1>4, <2>1, PushesSchedule
<1>11. ASSUME NEW s \in Conns, Pusher(s, events), PushTCP(s, "data", events),
              UNCHANGED <<ID, authState, udpAddr, sessions, udpSessions, reader, client, sent,
                          onDisconnect>>
       PROVE  QuietStep
  <2>1. sendTCP' = sendTCP
    BY <1>11 DEF PushTCP
  <2> QED
    BY <1>4, <1>11, <2>1, PushesSchedule
<1>12. CASE SendTCPTo \/ BroadcastOne
  <2>1. PICK s \in Conns : Pusher(s, events) /\ PushTCP(s, "data", events)
                           /\ UNCHANGED <<ID, authState, udpAddr, sessions, udpSessions, reader,
                                          client, sent, onDisconnect>>
    <3>1. CASE SendTCPTo
      BY <3>1 DEF SendTCPTo, Pusher, Registered, TypeInv, TypeOK
    <3>2. CASE BroadcastOne
      BY <3>2 DEF BroadcastOne, Pusher, TypeInv, TypeOK
    <3> QED
      BY <1>12, <3>1, <3>2
  <2> QED
    BY <1>11, <2>1
<1>13. CASE RpcReturn
  <2>1. /\ cur \in Conns /\ Pusher(cur, events)
        /\ UNCHANGED <<ID, authState, udpAddr, sessions, udpSessions, reader, client, sent,
                       onDisconnect>>
    BY <1>13 DEF RpcReturn, Pusher, TypeInv, TickOK
  <2>2. CASE PushTCP(cur, "data", events)
    BY <1>11, <2>1, <2>2
  <2>3. CASE UNCHANGED <<discVars, sendVars>>
    BY <1>1, <2>1, <2>3
  <2> QED
    BY <1>13, <2>2, <2>3 DEF RpcReturn
<1> HIDE DEF Same
<1> QED
  BY <1>5, <1>6, <1>7, <1>8, <1>9, <1>10, <1>12, <1>13
     DEF Next, TickStep, HandleEvent, CallbackCall, CallbackReturn, Reading

\* A scheduled disconnect brings no frame and no handshake into the queue,
\* and sets no flag but the session's own.
LEMMA ScheduledFacts ==
    ASSUME TypeInv, NEW q \in Seq(Events), NEW t \in Conns, Scheduled(t, q),
           q = events \/ (q = Tail(events) /\ events # <<>>),
           NEW s \in Conns
    PROVE  /\ FrameIn(events', s) => FrameIn(events, s)
           /\ HandshakeIn(events', s) => HandshakeIn(events, s)
           /\ fired'[s] => fired[s] \/ s = t
<1>1. events \in Seq(Events) /\ fired \in [Conns -> BOOLEAN]
  BY DEF TypeInv, TypeOK
<1>2. /\ FrameIn(q, s) => FrameIn(events, s)
      /\ HandshakeIn(q, s) => HandshakeIn(events, s)
  BY <1>1, ConsumedIn
<1>3. /\ FrameIn(events', s) => FrameIn(q, s)
      /\ HandshakeIn(events', s) => HandshakeIn(q, s)
  <2>1. CASE events' = q
    BY <2>1
  <2>2. CASE events' = Append(q, DisconnectEvent(t))
    <3>1. DisconnectEvent(t) \in Events
      BY EventsTyped
    <3> QED
      BY <2>2, <3>1, PushedIn, KindsDiffer
  <2> QED
    BY <2>1, <2>2 DEF Scheduled
<1>4. fired'[s] => fired[s] \/ s = t
  <2>1. CASE fired' = fired
    BY <2>1
  <2>2. CASE fired' = [fired EXCEPT ![t] = TRUE]
    BY <1>1, <2>2, Zenon
  <2> QED
    BY <2>1, <2>2 DEF Scheduled
<1> QED
  BY <1>2, <1>3, <1>4

\* A frame that is no token keeps the channel free of tokens.
LEMMA NoTokenPushed ==
    ASSUME NEW o \in Seq(ServerFrames), NEW m \in ServerFrames, OkIn(Append(o, m))
    PROVE  OkIn(o) \/ m = "loginOk"
<1> DEFINE r == Append(o, m)
<1>1. /\ Len(o) \in Nat /\ Len(r) = Len(o) + 1
      /\ \A i \in 1 .. Len(o) : r[i] = o[i]
      /\ r[Len(o) + 1] = m
  BY AppendAt
<1> HIDE DEF r
<1>2. PICK i \in 1 .. Len(r) : r[i] = "loginOk"
  BY DEF OkIn, r
<1>3. (i \in 1 .. Len(o) /\ r[i] = o[i]) \/ r[i] = m
  BY <1>1
<1> QED
  BY <1>2, <1>3 DEF OkIn

\* What a quiet step leaves in the queue, the channels and the flags.
LEMMA QuietFacts ==
    ASSUME TypeInv, QuietStep, NEW s \in Conns
    PROVE  /\ FrameIn(events', s) => FrameIn(events, s)
           /\ HandshakeIn(events', s) => HandshakeIn(events, s)
           /\ OkIn(outq'[s]) => OkIn(outq[s])
           /\ fired'[s] => fired[s] \/ \E q : Pusher(s, q)
<1>1. PICK q \in Seq(Events) :
          /\ q = events \/ (q = Tail(events) /\ events # <<>>)
          /\ \/ events' = q /\ UNCHANGED <<fired, outq>>
             \/ \E t \in Conns :
                   /\ Pusher(t, q)
                   /\ Scheduled(t, q)
                   /\ \/ outq' = outq
                      \/ \E m \in {"loginFail", "data"} :
                            outq' = [outq EXCEPT ![t] = Append(@, m)]
  BY DEF QuietStep
<1>2. CASE events' = q /\ UNCHANGED <<fired, outq>>
  <2>1. events \in Seq(Events)
    BY DEF TypeInv, TypeOK
  <2> QED
    BY <1>1, <1>2, <2>1, ConsumedIn
<1>3. CASE \E t \in Conns :
              /\ Pusher(t, q)
              /\ Scheduled(t, q)
              /\ \/ outq' = outq
                 \/ \E m \in {"loginFail", "data"} :
                       outq' = [outq EXCEPT ![t] = Append(@, m)]
  <2>1. PICK t \in Conns :
              /\ Pusher(t, q)
              /\ Scheduled(t, q)
              /\ \/ outq' = outq
                 \/ \E m \in {"loginFail", "data"} :
                       outq' = [outq EXCEPT ![t] = Append(@, m)]
    BY <1>3
  <2>2. /\ FrameIn(events', s) => FrameIn(events, s)
        /\ HandshakeIn(events', s) => HandshakeIn(events, s)
        /\ fired'[s] => fired[s] \/ s = t
    BY <1>1, <2>1, ScheduledFacts
  <2>3. OkIn(outq'[s]) => OkIn(outq[s])
    <3>1. CASE outq' = outq
      BY <3>1
    <3>2. CASE \E m \in {"loginFail", "data"} : outq' = [outq EXCEPT ![t] = Append(@, m)]
      <4>1. PICK m \in {"loginFail", "data"} : outq' = [outq EXCEPT ![t] = Append(@, m)]
        BY <3>2
      <4>2. outq \in [Conns -> Seq(ServerFrames)] /\ m \in ServerFrames /\ m # "loginOk"
        BY DEF TypeInv, TypeOK, ServerFrames
      <4>3. outq'[s] = outq[s] \/ outq'[s] = Append(outq[s], m)
        BY <4>1, <4>2
      <4> QED
        BY <4>2, <4>3, NoTokenPushed
    <3> QED
      BY <2>1, <3>1, <3>2
  <2> QED
    BY <2>1, <2>2, <2>3
<1> QED
  BY <1>1, <1>2, <1>3

\* A reader that leaves its loop sets its own session's flag and brings no
\* frame and no handshake into the queue.
LEMMA ExitFacts ==
    ASSUME TypeInv, NEW c \in Conns, ReaderExit(c) \/ ReportExit(c), NEW s \in Conns
    PROVE  /\ FrameIn(events', s) => FrameIn(events, s)
           /\ HandshakeIn(events', s) => HandshakeIn(events, s)
           /\ s # c => fired'[s] = fired[s]
           /\ UNCHANGED <<ID, authState, udpAddr, sessions, udpSessions, sendTCP, outq, client,
                          onDisconnect>>
<1> USE DEF sessionVars, registryVars, drainVars, tickVars, discVars, sendVars, clientVars
<1>1. fired \in [Conns -> BOOLEAN] /\ events \in Seq(Events) /\ DisconnectEvent(c) \in Events
  BY EventsTyped DEF TypeInv, TypeOK
<1>2. CASE ReaderExit(c)
  <2>1. s # c => fired'[s] = fired[s]
    BY <1>1, <1>2, Zenon DEF ReaderExit
  <2>2. events' = events
    BY <1>2 DEF ReaderExit
  <2> QED
    BY <1>2, <2>1, <2>2 DEF ReaderExit
<1>3. CASE ReportExit(c)
  <2>1. events' = events \/ events' = Append(events, DisconnectEvent(c))
    BY <1>3 DEF ReportExit
  <2>2. /\ FrameIn(events', s) => FrameIn(events, s)
        /\ HandshakeIn(events', s) => HandshakeIn(events, s)
    <3>1. CASE events' = events
      BY <3>1
    <3>2. CASE events' = Append(events, DisconnectEvent(c))
      BY <1>1, <3>2, PushedIn, KindsDiffer
    <3> QED
      BY <2>1, <3>1, <3>2
  <2>3. fired' = fired
    BY <1>3 DEF ReportExit
  <2> QED
    BY <1>3, <2>2, <2>3 DEF ReportExit
<1> QED
  BY <1>2, <1>3

-----------------------------------------------------------------------------
(* Sessions that have not been accepted, and callbacks *)

\* A session that is not accepted yet has no trace anywhere, and one that is
\* torn down has no outbound channel.
StartInv ==
    \A s \in Conns :
        /\ reader[s] = "none" => /\ ~fired[s]
                                 /\ authState[s] = "preLogin"
                                 /\ sendTCP[s] = "nil"
                                 /\ ~FrameIn(events, s)
        /\ onDisconnect[s] > 0 => sendTCP[s] # "open"

\* Fan-outs visit sessions that have logged in, and handlers run for sessions
\* that are ready.
CallInv ==
    /\ \A s \in fan : authState[s] # "preLogin"
    /\ pc \in {"handler", "rpc"} => authState[cur] = "ready"

\* The once-flag of a session that was never fired has no OnDisconnect.
LEMMA FiredBeforeCleanup ==
    ASSUME TypeInv, DisconnectAccounted, NEW s \in Conns, onDisconnect[s] > 0
    PROVE  fired[s]
BY DEF DisconnectAccounted, TypeInv, TypeOK

\* A session that a quiet step disconnects has been accepted.
LEMMA PusherAccepted ==
    ASSUME TypeInv, RegistryInv, StartInv, CallInv, NEW s \in Conns, NEW q, Pusher(s, q)
    PROVE  reader[s] # "none"
<1>1. CASE events # <<>> /\ IsFrame(Head(events), s)
  <2>1. FrameIn(events, s)
    BY <1>1, ConsumedIn DEF TypeInv, TypeOK
  <2> QED
    BY <2>1 DEF StartInv
<1>2. CASE s \in fan
  BY <1>2 DEF CallInv, StartInv
<1>3. CASE s \in Registered
  <2>1. authState[s] # "preLogin"
    BY <1>3 DEF Registered, RegistryInv, RegistryConsistent
  <2> QED
    BY <2>1 DEF StartInv
<1>4. CASE pc \in {"handler", "rpc"} /\ s = cur
  BY <1>4 DEF CallInv, StartInv
<1> QED
  BY <1>1, <1>2, <1>3, <1>4 DEF Pusher

\* The event that LoginAccepted, HandshakePaired and Cleanup take is the head
\* of the queue, so its session is known to the server.
LEMMA ConsumedKnown ==
    ASSUME TypeInv, NEW s \in Conns
    PROVE  /\ \A f \in AllTcpFrames : Consume(TcpEvent(s, f)) => FrameIn(events, s)
           /\ \A a \in Addrs, p \in Players :
                  Consume(HandshakeEvent(a, p, s)) => HandshakeIn(events, s)
           /\ DisconnectAccounted /\ Consume(DisconnectEvent(s)) =>
                  fired[s] /\ onDisconnect[s] = 0 /\ Pending(s)
<1>1. events \in Seq(Events)
  BY DEF TypeInv, TypeOK
<1>2. ASSUME NEW f \in AllTcpFrames, Consume(TcpEvent(s, f)) PROVE FrameIn(events, s)
  <2>1. events # <<>> /\ IsFrame(Head(events), s)
    BY <1>2, ConsumeOK DEF IsFrame
  <2> QED
    BY <1>1, <2>1, ConsumedIn
<1>3. ASSUME NEW a \in Addrs, NEW p \in Players, Consume(HandshakeEvent(a, p, s))
      PROVE  HandshakeIn(events, s)
  <2>1. events # <<>> /\ IsHandshake(Head(events), s)
    BY <1>3, ConsumeOK DEF IsHandshake
  <2> QED
    BY <1>1, <2>1, ConsumedIn
<1>4. ASSUME DisconnectAccounted, Consume(DisconnectEvent(s))
      PROVE  fired[s] /\ onDisconnect[s] = 0 /\ Pending(s)
  <2>1. events # <<>> /\ Head(events) = DisconnectEvent(s)
    BY <1>4, ConsumeOK
  <2>2. 1 \in 1 .. Len(events) /\ events[1] = DisconnectEvent(s)
    BY <1>1, <2>1
  <2>3. Pending(s)
    BY <2>2 DEF Pending, PendingAt
  <2> QED
    BY <1>4, <2>3 DEF DisconnectAccounted
<1> QED
  BY <1>2, <1>3, <1>4

\* Every step keeps sessions that are not accepted yet without a trace.
LEMMA NextStart ==
    ASSUME TypeInv, DisconnectAccounted, RegistryInv, StartInv, CallInv, [Next]_vars
    PROVE  StartInv'
<1> USE DEF sessionVars, registryVars, drainVars, tickVars, discVars, sendVars, clientVars
<1> SUFFICES ASSUME NEW s \in Conns
             PROVE  /\ reader'[s] = "none" => /\ ~fired'[s]
                                              /\ authState'[s] = "preLogin"
                                              /\ sendTCP'[s] = "nil"
                                              /\ ~FrameIn(events', s)
                    /\ onDisconnect'[s] > 0 => sendTCP'[s] # "open"
  BY DEF StartInv, FrameIn
<1>a. /\ events \in Seq(Events)
      /\ reader \in [Conns -> ReaderStates]
      /\ authState \in [Conns -> AuthStates]
      /\ sendTCP \in [Conns -> {"open", "nil"}]
      /\ onDisconnect \in [Conns -> Nat]
  BY DEF TypeInv, TypeOK
<1>b. /\ reader[s] = "none" => /\ ~fired[s]
                               /\ authState[s] = "preLogin"
                               /\ sendTCP[s] = "nil"
                               /\ ~FrameIn(events, s)
      /\ onDisconnect[s] > 0 => sendTCP[s] # "open"
  BY DEF StartInv
<1>1. ASSUME NEW c \in Conns, Accept(c) \/ CloseConn(c)
      PROVE  /\ reader'[s] = "none" => /\ ~fired'[s]
                                       /\ authState'[s] = "preLogin"
                                       /\ sendTCP'[s] = "nil"
                                       /\ ~FrameIn(events', s)
             /\ onDisconnect'[s] > 0 => sendTCP'[s] # "open"
  <2>1. /\ UNCHANGED <<events, fired, authState, onDisconnect>>
        /\ reader'[c] # "none"
        /\ s # c => reader'[s] = reader[s] /\ sendTCP'[s] = sendTCP[s]
        /\ sendTCP'[c] # sendTCP[c] => reader[c] = "none"
    BY <1>a, <1>1 DEF Accept, CloseConn
  <2>2. reader[s] = "none" => onDisconnect[s] = 0
    BY <1>a, <1>b, FiredBeforeCleanup
  <2> QED
    BY <1>b, <2>1, <2>2
<1>2. ASSUME NEW c \in Conns, ReaderExit(c) \/ ReportExit(c)
      PROVE  /\ reader'[s] = "none" => /\ ~fired'[s]
                                       /\ authState'[s] = "preLogin"
                                       /\ sendTCP'[s] = "nil"
                                       /\ ~FrameIn(events', s)
             /\ onDisconnect'[s] > 0 => sendTCP'[s] # "open"
  <2>1. /\ UNCHANGED <<authState, sendTCP, onDisconnect>>
        /\ reader'[c] # "none"
        /\ s # c => reader'[s] = reader[s]
    BY <1>a, <1>2 DEF ReaderExit, ReportExit
  <2>2. FrameIn(events', s) => FrameIn(events, s)
    BY <1>2, ExitFacts
  <2>3. s # c => fired'[s] = fired[s]
    BY <1>2, ExitFacts
  <2> QED
    BY <1>b, <2>1, <2>2, <2>3
<1>3. ASSUME NEW c \in Conns, WriteNext(c)
      PROVE  UNCHANGED <<events, fired, authState, sendTCP, onDisconnect, reader>>
  BY <1>3 DEF WriteNext
<1>4. ASSUME NEW c \in Conns, NEW f \in TcpFrames, ReadMessage(c, f)
      PROVE  /\ reader'[s] = "none" => /\ ~fired'[s]
                                       /\ authState'[s] = "preLogin"
                                       /\ sendTCP'[s] = "nil"
                                       /\ ~FrameIn(events', s)
             /\ onDisconnect'[s] > 0 => sendTCP'[s] # "open"
  <2>1. /\ UNCHANGED <<fired, authState, sendTCP, onDisconnect>>
        /\ reader'[c] # "none"
        /\ s # c => reader'[s] = reader[s]
        /\ events' = events \/ events' = Append(events, TcpEvent(c, f))
    BY <1>a, <1>4 DEF ReadMessage
  <2>2. TcpEvent(c, f) \in Events /\ (IsFrame(TcpEvent(c, f), s) <=> s = c)
    BY EventsTyped, KindsDiffer, ServerAssumption
  <2>3. FrameIn(events', s) => FrameIn(events, s) \/ s = c
    BY <1>a, <2>1, <2>2, PushedIn
  <2> QED
    BY <1>b, <2>1, <2>3
<1>5. CASE ReadHandshake \/ ReadUDP
  <2>1. PICK e \in Events : ~IsFrame(e, s) /\ ReadDatagram(e)
    BY <1>5, EventsTyped, KindsDiffer, ServerAssumption DEF ReadHandshake, ReadUDP
  <2>2. /\ UNCHANGED <<fired, authState, sendTCP, onDisconnect, reader>>
        /\ events' = Append(events, e)
    BY <2>1 DEF ReadDatagram
  <2>3. FrameIn(events', s) => FrameIn(events, s)
    BY <1>a, <2>1, <2>2, PushedIn
  <2> QED
    BY <1>b, <2>2, <2>3
<1>6. CASE LoginAccepted
  <2>1. PICK c \in Conns : /\ Consume(TcpEvent(c, "login"))
                           /\ authState' = [authState EXCEPT ![c] = "awaitingUDP"]
                           /\ PushTCP(c, LoginResponse(TRUE), Tail(events))
                           /\ UNCHANGED onDisconnect
    BY <1>6 DEF LoginAccepted
  <2>2. /\ reader' = reader /\ sendTCP' = sendTCP
        /\ Tail(events) \in Seq(Events) /\ events # <<>>
    BY <2>1, ConsumeOK DEF PushTCP
  <2>3. FrameIn(events, c)
    BY <2>1, ConsumedKnown DEF AllTcpFrames
  <2>4. reader[c] # "none"
    BY <2>3 DEF StartInv
  <2>5. /\ FrameIn(events', s) => FrameIn(events, s)
        /\ fired'[s] => fired[s] \/ s = c
    BY <2>1, <2>2, PushesSchedule, ScheduledFacts
  <2>6. s # c => authState'[s] = authState[s]
    BY <1>a, <2>1
  <2> QED
    BY <1>b, <2>1, <2>2, <2>4, <2>5, <2>6
<1>7. CASE HandshakePaired
  <2>1. PICK a \in Addrs, p \in Players, c \in Conns :
            /\ Consume(HandshakeEvent(a, p, c))
            /\ authState[c] = "awaitingUDP"
            /\ authState' = [authState EXCEPT ![c] = "ready"]
            /\ events' = Tail(events)
            /\ UNCHANGED <<fired, sendTCP, onDisconnect>>
    BY <1>7 DEF HandshakePaired, MayPair
  <2>2. reader' = reader /\ events # <<>>
    BY <2>1, ConsumeOK
  <2>3. reader[c] # "none" /\ (s # c => authState'[s] = authState[s])
    BY <1>a, <2>1 DEF StartInv
  <2>4. FrameIn(events', s) => FrameIn(events, s)
    BY <1>a, <2>1, <2>2, ConsumedIn
  <2> QED
    BY <1>b, <2>1, <2>2, <2>3, <2>4
<1>8. CASE Cleanup
  <2>1. PICK c \in Conns : /\ Consume(DisconnectEvent(c))
                           /\ sendTCP' = [sendTCP EXCEPT ![c] = "nil"]
                           /\ onDisconnect' = [onDisconnect EXCEPT ![c] = @ + 1]
                           /\ events' = Tail(events)
                           /\ UNCHANGED <<fired, authState>>
    BY <1>8 DEF Cleanup
  <2>2. reader' = reader /\ events # <<>>
    BY <2>1, ConsumeOK
  <2>3. FrameIn(events', s) => FrameIn(events, s)
    BY <1>a, <2>1, <2>2, ConsumedIn
  <2>4. /\ sendTCP'[s] = IF s = c THEN "nil" ELSE sendTCP[s]
        /\ s # c => onDisconnect'[s] = onDisconnect[s]
    BY <1>a, <2>1
  <2> QED
    BY <1>b, <2>1, <2>2, <2>3, <2>4
<1>9. CASE QuietStep
  <2>1. UNCHANGED <<authState, sendTCP, onDisconnect, reader>>
    BY <1>9 DEF QuietStep
  <2>2. /\ FrameIn(events', s) => FrameIn(events, s)
        /\ fired'[s] => fired[s] \/ \E q : Pusher(s, q)
    BY <1>9, QuietFacts
  <2>3. reader[s] = "none" => ~\E q : Pusher(s, q)
    BY PusherAccepted
  <2> QED
    BY <1>b, <2>1, <2>2, <2>3
<1> QED
  BY <1>b, <1>1, <1>2, <1>3, <1>4, <1>5, <1>6, <1>7, <1>8, <1>9, StepKinds

\* Every step keeps fan-outs to logged-in sessions and handlers to ready ones.
LEMMA NextCall ==
    ASSUME TypeInv, RegistryInv, CallInv, [Next]_vars
    PROVE  CallInv'
<1> USE DEF sessionVars, registryVars, drainVars, tickVars, discVars, sendVars, clientVars
<1>a. authState \in [Conns -> AuthStates] /\ fan \in SUBSET Conns
      /\ (pc \in {"handler", "rpc"} => cur \in Conns)
  BY DEF TypeInv, TypeOK, TickOK
<1>b. \A s \in Registered : authState[s] # "preLogin"
  BY DEF Registered, RegistryInv, RegistryConsistent
<1>1. ASSUME UNCHANGED authState, fan' \subseteq fan \cup Registered,
             (pc' = pc /\ cur' = cur) \/ pc' \notin {"handler", "rpc"} \/ authState[cur'] = "ready"
      PROVE  CallInv'
  BY <1>1, <1>b DEF CallInv
<1>2. CASE LoginAccepted \/ HandshakePaired
  <2>1. PICK c \in Conns, a \in {"awaitingUDP", "ready"} :
            /\ authState[c] # "ready"
            /\ authState' = [authState EXCEPT ![c] = a]
            /\ UNCHANGED <<pc, cur, fan>>
    BY <1>2 DEF LoginAccepted, HandshakePaired, MayPair
  <2> QED
    BY <1>a, <2>1 DEF CallInv
<1>3. CASE Reading
  BY <1>1, <1>3 DEF Reading, Accept, ReaderExit, ReportExit, CloseConn, WriteNext, ReadMessage,
                    ReadHandshake, ReadUDP, ReadDatagram
<1>4. CASE DropFrame \/ Malformed \/ Pong \/ LoginRejected \/ HandshakeRefused \/ UdpQuiet
           \/ RpcRefused \/ Cleanup
  BY <1>1, <1>4 DEF DropFrame, Malformed, Pong, LoginRejected, HandshakeRefused, UdpQuiet,
                    RpcRefused, Cleanup
<1>5. CASE GameOverTCP \/ GameOverUDP \/ RpcCalled
  BY <1>1, <1>5 DEF GameOverTCP, GameOverUDP, RpcCalled, Routed
<1>6. CASE TickStart \/ DrainOne \/ DrainDone \/ PingTimedOut \/ PingDone \/ SendTCPTo
           \/ BroadcastOne \/ Disconnect \/ CallbackReturn \/ UNCHANGED vars
  BY <1>1, <1>6 DEF TickStart, DrainOne, DrainDone, PingTimedOut, PingDone, SendTCPTo,
                    BroadcastOne, Disconnect, CallbackReturn, HandlerReturn, HandlerPanic,
                    RpcReturn, OnTickReturn, vars
<1>7. CASE PingStart \/ BroadcastTCP
  BY <1>1, <1>7 DEF PingStart, BroadcastTCP, Expired
<1> QED
  BY <1>2, <1>3, <1>4, <1>5, <1>6, <1>7 DEF Next, TickStep, HandleEvent, CallbackCall

-----------------------------------------------------------------------------
(* UDP routes *)

\* A session has a UDP address exactly when it is ready.
PairInv ==
    \A s \in Conns : IF authState[s] = "ready" THEN udpAddr[s] \in Addrs ELSE udpAddr[s] = None

\* A session that has logged in has an ID, and the player of a session with
\* the ID 0, which no cleanup deletes, keeps its entry.
IDInv ==
    \A s \in Conns : authState[s] # "preLogin" =>
        ID[s] \in Players /\ (ID[s] = 0 => sessions[0] # None)

\* A route leads to the ready session that paired from its address, which is
\* the entry of its player.
RouteInv ==
    \A a \in Addrs : udpSessions[a] # None =>
        /\ udpAddr[udpSessions[a]] = a
        /\ authState[udpSessions[a]] = "ready"
        /\ sessions[ID[udpSessions[a]]] = udpSessions[a]

\* The steps that change none of the sessions' own fields and no lookup table.
LEMMA TablesChange ==
    ASSUME TypeInv, [Next]_vars
    PROVE  \/ UNCHANGED <<ID, authState, udpAddr, sessions, udpSessions, onDisconnect>>
           \/ LoginAccepted \/ HandshakePaired \/ Cleanup
<1> USE DEF sessionVars, registryVars, drainVars, tickVars, discVars, sendVars, clientVars
<1>1. ASSUME NEW c \in Conns,
             Accept(c) \/ ReaderExit(c) \/ ReportExit(c) \/ CloseConn(c) \/ WriteNext(c)
      PROVE  UNCHANGED <<ID, authState, udpAddr, sessions, udpSessions, onDisconnect>>
  BY <1>1 DEF Accept, ReaderExit, ReportExit, CloseConn, WriteNext
<1>2. ASSUME NEW c \in Conns, NEW f \in TcpFrames, ReadMessage(c, f)
      PROVE  UNCHANGED <<ID, authState, udpAddr, sessions, udpSessions, onDisconnect>>
  BY <1>2 DEF ReadMessage
<1>3. CASE ReadHandshake \/ ReadUDP
  BY <1>3 DEF ReadHandshake, ReadUDP, ReadDatagram
<1>4. CASE QuietStep
  BY <1>4 DEF QuietStep
<1> QED
  BY <1>1, <1>2, <1>3, <1>4, StepKinds

\* What an accepted login changes, and for which session.
LEMMA LoginChanges ==
    ASSUME TypeInv, LoginAccepted
    PROVE  \E s \in Conns, p \in Players :
              /\ Consume(TcpEvent(s, "login"))
              /\ FrameIn(events, s)
              /\ authState[s] = "preLogin"
              /\ sessions[p] = None
              /\ ID' = [ID EXCEPT ![s] = p]
              /\ authState' = [authState EXCEPT ![s] = "awaitingUDP"]
              /\ sessions' = [sessions EXCEPT ![p] = s]
              /\ PushTCP(s, "loginOk", Tail(events))
              /\ UNCHANGED <<udpAddr, udpSessions, onDisconnect, reader, client, sent, sendTCP>>
<1>1. PICK s \in Conns, p \in Players :
          /\ Consume(TcpEvent(s, "login"))
          /\ authState[s] = "preLogin"
          /\ sessions[p] = None
          /\ ID' = [ID EXCEPT ![s] = p]
          /\ authState' = [authState EXCEPT ![s] = "awaitingUDP"]
          /\ sessions' = [sessions EXCEPT ![p] = s]
          /\ PushTCP(s, "loginOk", Tail(events))
          /\ UNCHANGED <<udpAddr, udpSessions, onDisconnect>>
  BY DEF LoginAccepted, Free, LoginResponse
<1>2. UNCHANGED <<reader, client, sent, sendTCP>>
  BY <1>1, ConsumeOK DEF PushTCP, clientVars
<1>3. FrameIn(events, s)
  BY <1>1, ConsumedKnown DEF AllTcpFrames
<1> QED
  BY <1>1, <1>2, <1>3

\* What handleUDPHandshake changes when it pairs a session.
LEMMA PairingChanges ==
    ASSUME TypeInv, HandshakePaired
    PROVE  \E t \in Conns, p \in Players, a \in Addrs :
              /\ HandshakeIn(events, t)
              /\ sessions[p] = t
              /\ authState[t] = "awaitingUDP"
              /\ authState' = [authState EXCEPT ![t] = "ready"]
              /\ udpAddr' = [udpAddr EXCEPT ![t] = a]
              /\ udpSessions' = [udpSessions EXCEPT ![a] = t]
              /\ events # <<>> /\ events' = Tail(events)
              /\ UNCHANGED <<ID, sessions, onDisconnect, reader, client, sent, sendTCP, outq,
                             fired>>
<1>1. PICK a \in Addrs, p \in Players, t \in Conns :
          /\ Consume(HandshakeEvent(a, p, t))
          /\ sessions[p] = t
          /\ authState[t] = "awaitingUDP"
          /\ authState' = [authState EXCEPT ![t] = "ready"]
          /\ udpAddr' = [udpAddr EXCEPT ![t] = a]
          /\ udpSessions' = [udpSessions EXCEPT ![a] = t]
          /\ events' = Tail(events)
          /\ UNCHANGED <<ID, sessions, onDisconnect, sendTCP, outq, fired>>
  BY DEF HandshakePaired, MayPair, sendVars
<1>2. events # <<>> /\ UNCHANGED <<reader, client, sent>>
  BY <1>1, ConsumeOK DEF clientVars
<1>3. HandshakeIn(events, t)
  BY <1>1, ConsumedKnown
<1> QED
  BY <1>1, <1>2, <1>3

\* What cleanupSession changes: the session is torn down once, and the entry
\* it deletes is its own.
LEMMA CleanupChanges ==
    ASSUME TypeInv, DisconnectAccounted, RegistryInv, Cleanup
    PROVE  \E s \in Conns :
              /\ Consume(DisconnectEvent(s))
              /\ events # <<>> /\ Head(events) = DisconnectEvent(s) /\ events' = Tail(events)
              /\ fired[s] /\ onDisconnect[s] = 0
              /\ ID[s] # 0 => ID[s] \in Players /\ sessions[ID[s]] = s
              /\ \A p \in Players :
                    sessions'[p] = IF ID[s] # 0 /\ p = ID[s] THEN None ELSE sessions[p]
              /\ \A p \in Players : sessions'[p] = s => p = 0
              /\ \A a \in Addrs : udpSessions'[a] = IF a = udpAddr[s] THEN None ELSE udpSessions[a]
              /\ sendTCP' = [sendTCP EXCEPT ![s] = "nil"]
              /\ outq' = [outq EXCEPT ![s] = <<>>]
              /\ onDisconnect' = [onDisconnect EXCEPT ![s] = @ + 1]
              /\ UNCHANGED <<ID, authState, udpAddr, reader, client, sent, fired>>
<1>1. PICK s \in Conns :
          /\ Consume(DisconnectEvent(s))
          /\ sessions' = Unregister(s)
          /\ udpSessions' = Unroute(s)
          /\ sendTCP' = [sendTCP EXCEPT ![s] = "nil"]
          /\ outq' = [outq EXCEPT ![s] = <<>>]
          /\ onDisconnect' = [onDisconnect EXCEPT ![s] = @ + 1]
          /\ events' = Tail(events)
          /\ UNCHANGED <<ID, authState, udpAddr, fired>>
  BY DEF Cleanup, sessionVars
<1>2. /\ events # <<>> /\ Head(events) = DisconnectEvent(s)
      /\ UNCHANGED <<reader, client, sent>>
  BY <1>1, ConsumeOK DEF clientVars
<1>3. fired[s] /\ onDisconnect[s] = 0
  BY <1>1, ConsumedKnown
<1>4. ID[s] # 0 => ID[s] \in Players /\ sessions[ID[s]] = s
  BY <1>1, CleanupOwnsEntry
<1>5. /\ \A p \in Players : sessions'[p] = IF ID[s] # 0 /\ p = ID[s] THEN None ELSE sessions[p]
      /\ \A a \in Addrs : udpSessions'[a] = IF a = udpAddr[s] THEN None ELSE udpSessions[a]
  BY <1>1 DEF Unregister, Unroute
<1>6. \A p \in Players : sessions'[p] = s => p = 0
  <2> SUFFICES ASSUME NEW p \in Players, sessions'[p] = s PROVE p = 0
    OBVIOUS
  <2>1. sessions[p] = s /\ ~(ID[s] # 0 /\ p = ID[s])
    BY <1>5, ServerAssumption
  <2>2. ID[s] = p
    BY <2>1, ServerAssumption DEF RegistryInv, RegistryConsistent
  <2> QED
    BY <2>1, <2>2
<1> QED
  BY <1>1, <1>2, <1>3, <1>4, <1>5, <1>6

\* Every step keeps addresses and readiness together.
LEMMA NextPair ==
    ASSUME TypeInv, DisconnectAccounted, RegistryInv, PairInv, [Next]_vars
    PROVE  PairInv'
<1>a. authState \in [Conns -> AuthStates] /\ udpAddr \in [Conns -> Addrs \cup {None}]
  BY DEF TypeInv, TypeOK
<1>1. CASE UNCHANGED <<ID, authState, udpAddr, sessions, udpSessions, onDisconnect>>
  BY <1>1 DEF PairInv
<1>2. CASE LoginAccepted
  <2>1. PICK s \in Conns : /\ authState[s] = "preLogin"
                           /\ authState' = [authState EXCEPT ![s] = "awaitingUDP"]
                           /\ udpAddr' = udpAddr
    BY <1>2, LoginChanges
  <2> QED
    BY <1>a, <2>1 DEF PairInv
<1>3. CASE HandshakePaired
  <2>1. PICK t \in Conns, a \in Addrs : /\ authState' = [authState EXCEPT ![t] = "ready"]
                                        /\ udpAddr' = [udpAddr EXCEPT ![t] = a]
    BY <1>3, PairingChanges
  <2> QED
    BY <1>a, <2>1 DEF PairInv
<1>4. CASE Cleanup
  <2>1. UNCHANGED <<authState, udpAddr>>
    BY <1>4, CleanupChanges
  <2> QED
    BY <2>1 DEF PairInv
<1> QED
  BY <1>1, <1>2, <1>3, <1>4, TablesChange

\* Every step keeps ready sessions reachable, or leaves the other session that
\* paired from the same address as the reason.
LEMMA NextReachable ==
    ASSUME TypeInv, DisconnectAccounted, RegistryInv, PairInv, ReadyReachable, [Next]_vars
    PROVE  ReadyReachable'
<1>a. /\ authState \in [Conns -> AuthStates]
      /\ udpAddr \in [Conns -> Addrs \cup {None}]
      /\ udpSessions \in [Addrs -> Conns \cup {None}]
      /\ onDisconnect \in [Conns -> Nat]
      /\ None \notin Addrs
  BY ServerAssumption DEF TypeInv, TypeOK
<1>1. CASE UNCHANGED <<ID, authState, udpAddr, sessions, udpSessions, onDisconnect>>
  BY <1>1 DEF ReadyReachable
<1>2. CASE LoginAccepted
  <2>1. PICK s \in Conns : /\ authState' = [authState EXCEPT ![s] = "awaitingUDP"]
                           /\ UNCHANGED <<udpAddr, udpSessions, onDisconnect>>
    BY <1>2, LoginChanges
  <2>2. \A u \in Conns : authState'[u] = "ready" => authState[u] = "ready"
    BY <1>a, <2>1
  <2> QED
    BY <2>1, <2>2 DEF ReadyReachable
<1>3. CASE HandshakePaired
  <2>1. PICK t \in Conns, a \in Addrs : /\ authState[t] = "awaitingUDP"
                                        /\ authState' = [authState EXCEPT ![t] = "ready"]
                                        /\ udpAddr' = [udpAddr EXCEPT ![t] = a]
                                        /\ udpSessions' = [udpSessions EXCEPT ![a] = t]
                                        /\ onDisconnect' = onDisconnect
    BY <1>3, PairingChanges
  <2>2. udpAddr[t] = None
    BY <2>1 DEF PairInv
  <2> SUFFICES ASSUME NEW s \in Conns, authState'[s] = "ready", onDisconnect'[s] = 0
               PROVE  /\ udpAddr'[s] \in Addrs
                      /\ \/ udpSessions'[udpAddr'[s]] = s
                         \/ \E u \in Conns \ {s} : udpAddr'[u] = udpAddr'[s]
    BY DEF ReadyReachable
  <2>3. CASE s = t
    BY <1>a, <2>1, <2>3
  <2>4. CASE s # t
    <3>1. /\ udpAddr'[s] = udpAddr[s] /\ udpAddr[s] \in Addrs
          /\ \/ udpSessions[udpAddr[s]] = s
             \/ \E u \in Conns \ {s} : udpAddr[u] = udpAddr[s]
      BY <1>a, <2>1, <2>4 DEF ReadyReachable
    <3>2. CASE udpAddr[s] = a
      BY <1>a, <2>1, <2>4, <3>1, <3>2
    <3>3. CASE udpAddr[s] # a
      <4>1. udpSessions'[udpAddr[s]] = udpSessions[udpAddr[s]]
        BY <1>a, <2>1, <3>1, <3>3
      <4>2. \A u \in Conns : udpAddr[u] = udpAddr[s] => udpAddr'[u] = udpAddr[u]
        BY <1>a, <2>1, <2>2, <3>1
      <4> QED
        BY <3>1, <4>1, <4>2
    <3> QED
      BY <3>2, <3>3
  <2> QED
    BY <2>3, <2>4
<1>4. CASE Cleanup
  <2>1. PICK c \in Conns :
            /\ \A a \in Addrs : udpSessions'[a] = IF a = udpAddr[c] THEN None ELSE udpSessions[a]
            /\ onDisconnect' = [onDisconnect EXCEPT ![c] = @ + 1]
            /\ UNCHANGED <<authState, udpAddr>>
    BY <1>4, CleanupChanges
  <2> SUFFICES ASSUME NEW s \in Conns, authState'[s] = "ready", onDisconnect'[s] = 0
               PROVE  /\ udpAddr'[s] \in Addrs
                      /\ \/ udpSessions'[udpAddr'[s]] = s
                         \/ \E u \in Conns \ {s} : udpAddr'[u] = udpAddr'[s]
    BY DEF ReadyReachable
  <2>2. s # c /\ onDisconnect[s] = 0
    BY <1>a, <2>1
  <2>3. /\ udpAddr[s] \in Addrs
        /\ udpSessions[udpAddr[s]] = s \/ \E u \in Conns \ {s} : udpAddr[u] = udpAddr[s]
    BY <2>1, <2>2 DEF ReadyReachable
  <2> QED
    BY <2>1, <2>2, <2>3
<1> QED
  BY <1>1, <1>2, <1>3, <1>4, TablesChange

\* Every step keeps the IDs of logged-in sessions.
LEMMA NextID ==
    ASSUME TypeInv, DisconnectAccounted, RegistryInv, IDInv, [Next]_vars
    PROVE  IDInv'
<1>a. /\ ID \in [Conns -> Players \cup {0}]
      /\ authState \in [Conns -> AuthStates]
      /\ sessions \in [Players -> Conns \cup {None}]
      /\ None \notin Conns
  BY ServerAssumption DEF TypeInv, TypeOK
<1>1. CASE UNCHANGED <<ID, authState, udpAddr, sessions, udpSessions, onDisconnect>>
  BY <1>1 DEF IDInv
<1>2. CASE LoginAccepted
  <2>1. PICK s \in Conns, p \in Players :
            /\ ID' = [ID EXCEPT ![s] = p]
            /\ authState' = [authState EXCEPT ![s] = "awaitingUDP"]
            /\ sessions' = [sessions EXCEPT ![p] = s]
    BY <1>2, LoginChanges
  <2> SUFFICES ASSUME NEW u \in Conns, authState'[u] # "preLogin"
               PROVE  ID'[u] \in Players /\ (ID'[u] = 0 => sessions'[0] # None)
    BY DEF IDInv
  <2>2. CASE u = s
    BY <1>a, <2>1, <2>2
  <2>3. CASE u # s
    BY <1>a, <2>1, <2>3 DEF IDInv
  <2> QED
    BY <2>2, <2>3
<1>3. CASE HandshakePaired
  <2>1. PICK t \in Conns : /\ authState[t] = "awaitingUDP"
                           /\ authState' = [authState EXCEPT ![t] = "ready"]
                           /\ UNCHANGED <<ID, sessions>>
    BY <1>3, PairingChanges
  <2>2. \A s \in Conns : authState'[s] # "preLogin" => authState[s] # "preLogin"
    BY <1>a, <2>1
  <2> QED
    BY <2>1, <2>2 DEF IDInv
<1>4. CASE Cleanup
  <2>1. PICK s \in Conns :
            /\ \A p \in Players :
                  sessions'[p] = IF ID[s] # 0 /\ p = ID[s] THEN None ELSE sessions[p]
            /\ UNCHANGED <<ID, authState>>
    BY <1>4, CleanupChanges
  <2> QED
    BY <2>1 DEF IDInv
<1> QED
  BY <1>1, <1>2, <1>3, <1>4, TablesChange

\* Every step keeps the routes sound.
LEMMA NextRoute ==
    ASSUME TypeInv, DisconnectAccounted, RegistryInv, PairInv, IDInv, RouteInv, [Next]_vars
    PROVE  RouteInv'
<1>a. /\ ID \in [Conns -> Players \cup {0}]
      /\ authState \in [Conns -> AuthStates]
      /\ udpAddr \in [Conns -> Addrs \cup {None}]
      /\ sessions \in [Players -> Conns \cup {None}]
      /\ udpSessions \in [Addrs -> Conns \cup {None}]
      /\ None \notin Conns
  BY ServerAssumption DEF TypeInv, TypeOK
<1>1. CASE UNCHANGED <<ID, authState, udpAddr, sessions, udpSessions, onDisconnect>>
  BY <1>1 DEF RouteInv
<1>b. ASSUME NEW a \in Addrs, udpSessions[a] # None
      PROVE  /\ udpSessions[a] \in Conns
             /\ udpAddr[udpSessions[a]] = a
             /\ authState[udpSessions[a]] = "ready"
             /\ ID[udpSessions[a]] \in Players
             /\ sessions[ID[udpSessions[a]]] = udpSessions[a]
  BY <1>a, <1>b DEF RouteInv, IDInv
<1>2. CASE LoginAccepted
  <2>1. PICK s \in Conns, p \in Players :
            /\ authState[s] = "preLogin"
            /\ sessions[p] = None
            /\ ID' = [ID EXCEPT ![s] = p]
            /\ authState' = [authState EXCEPT ![s] = "awaitingUDP"]
            /\ sessions' = [sessions EXCEPT ![p] = s]
            /\ UNCHANGED <<udpAddr, udpSessions>>
    BY <1>2, LoginChanges
  <2> SUFFICES ASSUME NEW a \in Addrs, udpSessions[a] # None
               PROVE  /\ udpAddr'[udpSessions[a]] = a
                      /\ authState'[udpSessions[a]] = "ready"
                      /\ sessions'[ID'[udpSessions[a]]] = udpSessions[a]
    BY <2>1 DEF RouteInv
  <2>2. udpSessions[a] # s
    BY <1>b, <2>1
  <2>3. ID[udpSessions[a]] # p
    BY <1>a, <1>b, <2>1
  <2> QED
    BY <1>a, <1>b, <2>1, <2>2, <2>3
<1>3. CASE HandshakePaired
  <2>1. PICK t \in Conns, p \in Players, a \in Addrs :
            /\ sessions[p] = t
            /\ authState[t] = "awaitingUDP"
            /\ authState' = [authState EXCEPT ![t] = "ready"]
            /\ udpAddr' = [udpAddr EXCEPT ![t] = a]
            /\ udpSessions' = [udpSessions EXCEPT ![a] = t]
            /\ UNCHANGED <<ID, sessions>>
    BY <1>3, PairingChanges
  <2>2. ID[t] = p
    BY <1>a, <2>1 DEF RegistryInv, RegistryConsistent
  <2> SUFFICES ASSUME NEW b \in Addrs, udpSessions'[b] # None
               PROVE  /\ udpAddr'[udpSessions'[b]] = b
                      /\ authState'[udpSessions'[b]] = "ready"
                      /\ sessions'[ID'[udpSessions'[b]]] = udpSessions'[b]
    BY DEF RouteInv
  <2>3. CASE b = a
    BY <1>a, <2>1, <2>2, <2>3
  <2>4. CASE b # a
    <3>1. udpSessions'[b] = udpSessions[b]
      BY <1>a, <2>1, <2>4
    <3>2. udpSessions[b] # t
      BY <1>b, <2>1, <3>1
    <3> QED
      BY <1>a, <1>b, <2>1, <3>1, <3>2
  <2> QED
    BY <2>3, <2>4
<1>4. CASE Cleanup
  <2>1. PICK s \in Conns :
            /\ ID[s] # 0 => ID[s] \in Players /\ sessions[ID[s]] = s
            /\ \A p \in Players :
                  sessions'[p] = IF ID[s] # 0 /\ p = ID[s] THEN None ELSE sessions[p]
            /\ \A a \in Addrs : udpSessions'[a] = IF a = udpAddr[s] THEN None ELSE udpSessions[a]
            /\ UNCHANGED <<ID, authState, udpAddr>>
    BY <1>4, CleanupChanges
  <2> SUFFICES ASSUME NEW a \in Addrs, udpSessions'[a] # None
               PROVE  /\ udpAddr'[udpSessions'[a]] = a
                      /\ authState'[udpSessions'[a]] = "ready"
                      /\ sessions'[ID'[udpSessions'[a]]] = udpSessions'[a]
    BY DEF RouteInv
  <2>2. udpSessions'[a] = udpSessions[a] /\ udpAddr[s] # a
    BY <2>1
  <2>3. udpSessions[a] # s
    BY <1>b, <2>2
  <2>4. ~(ID[s] # 0 /\ ID[udpSessions[a]] = ID[s])
    BY <1>b, <2>1, <2>2, <2>3
  <2> QED
    BY <1>b, <2>1, <2>2, <2>4
<1> QED
  BY <1>1, <1>2, <1>3, <1>4, TablesChange

\* While a handler runs, its player is in s.sessions.
HandlerInv == pc \in {"handler", "rpc"} => sessions[ID[cur]] # None

\* Every step keeps the player of the running handler in s.sessions: nothing
\* is cleaned up under it, and dispatchMessage lets no other frame through.
LEMMA NextHandler ==
    ASSUME TypeInv, IDInv, RouteInv, HandlerInv, [Next]_vars
    PROVE  HandlerInv'
<1> USE DEF sessionVars, registryVars, drainVars, tickVars, discVars, sendVars, clientVars
<1>1. CASE UNCHANGED <<ID, sessions, cur>> /\ (pc' = pc \/ pc' \notin {"handler", "rpc"})
  BY <1>1 DEF HandlerInv
<1>2. CASE LoginAccepted \/ HandshakePaired \/ Cleanup
  <2>1. pc = "handle" /\ pc' = pc
    BY <1>2 DEF LoginAccepted, HandshakePaired, Cleanup, Consume
  <2> QED
    BY <2>1 DEF HandlerInv
<1>3. CASE GameOverTCP \/ RpcCalled
  <2>1. PICK s \in Conns : /\ ~Stale(s) /\ authState[s] = "ready" /\ cur' = s
                           /\ UNCHANGED <<ID, sessions>>
    BY <1>3 DEF GameOverTCP, RpcCalled
  <2> QED
    BY <2>1 DEF Stale, IDInv, HandlerInv
<1>4. CASE GameOverUDP
  <2>1. PICK a \in Addrs : /\ udpSessions[a] # None /\ cur' = udpSessions[a]
                           /\ UNCHANGED <<ID, sessions>>
    BY <1>4 DEF GameOverUDP, Routed
  <2> QED
    BY <2>1 DEF RouteInv, HandlerInv
<1>5. CASE Reading
  BY <1>1, <1>5 DEF Reading, Accept, ReaderExit, ReportExit, CloseConn, WriteNext, ReadMessage,
                    ReadHandshake, ReadUDP, ReadDatagram
<1>6. CASE DropFrame \/ Malformed \/ Pong \/ LoginRejected \/ HandshakeRefused \/ UdpQuiet
           \/ RpcRefused
  BY <1>1, <1>6 DEF DropFrame, Malformed, Pong, LoginRejected, HandshakeRefused, UdpQuiet,
                    RpcRefused
<1>7. CASE TickStart \/ DrainOne \/ DrainDone \/ PingStart \/ PingTimedOut \/ PingDone
           \/ CallbackCall \/ UNCHANGED vars
  BY <1>1, <1>7 DEF TickStart, DrainOne, DrainDone, PingStart, PingTimedOut, PingDone,
                    CallbackCall, SendTCPTo, BroadcastTCP, BroadcastOne, Disconnect, vars
<1>8. CASE CallbackReturn
  <2>1. pc' \in {"handle", "idle"}
    BY <1>8 DEF CallbackReturn, HandlerReturn, HandlerPanic, RpcReturn, OnTickReturn
  <2> QED
    BY <2>1 DEF HandlerInv
<1> QED
  BY <1>2, <1>3, <1>4, <1>5, <1>6, <1>7, <1>8 DEF Next, TickStep, HandleEvent, CallbackCall

\* What holds of the sessions for every value of the constants.
SessionInv ==
    /\ TypeInv /\ DisconnectAccounted /\ RegistryInv
    /\ StartInv /\ CallInv
    /\ PairInv /\ ReadyReachable /\ IDInv /\ RouteInv /\ HandlerInv

\* At the start there are no sessions.
LEMMA InitSession == Init => SessionInv
<1> SUFFICES ASSUME Init PROVE SessionInv
  OBVIOUS
<1>1. TypeInv /\ DisconnectAccounted /\ RegistryInv
  BY InitTypeInv, InitAccounted, InitRegistry
<1>2. StartInv
  <2>1. \A s \in Conns : ~FrameIn(events, s)
    BY DEF Init, FrameIn
  <2>2. \A s \in Conns : ~fired[s]
    BY Zenon DEF Init
  <2>3. \A s \in Conns : authState[s] = "preLogin" /\ sendTCP[s] = "nil"
    BY DEF Init
  <2> QED
    BY <2>1, <2>2, <2>3 DEF StartInv
<1>3. CallInv /\ PairInv /\ ReadyReachable /\ IDInv /\ RouteInv /\ HandlerInv
  BY DEF Init, CallInv, PairInv, ReadyReachable, IDInv, RouteInv, HandlerInv
<1> QED
  BY <1>1, <1>2, <1>3 DEF SessionInv

\* Every step keeps what holds of the sessions.
LEMMA NextSession == SessionInv /\ [Next]_vars => SessionInv'
<1> SUFFICES ASSUME SessionInv, [Next]_vars PROVE SessionInv'
  OBVIOUS
<1>1. (TypeInv /\ DisconnectAccounted /\ RegistryInv)'
  BY NextTypeInv, NextAccounted, NextRegistry DEF SessionInv
<1>2. (StartInv /\ CallInv)'
  BY NextStart, NextCall DEF SessionInv
<1>3. (PairInv /\ ReadyReachable /\ IDInv /\ RouteInv /\ HandlerInv)'
  BY NextPair, NextReachable, NextID, NextRoute, NextHandler DEF SessionInv
<1> QED
  BY <1>1, <1>2, <1>3 DEF SessionInv

\* The session invariant holds in every reachable state.
LEMMA SessionInvHolds == Spec => []SessionInv
BY InitSession, NextSession, PTL DEF Spec

\* A ready session that is not torn down is reachable over UDP at the address
\* it paired from, unless another session has paired from the same address.
THEOREM ReadySessionsReachable == Spec => []ReadyReachable
<1>1. SessionInv => ReadyReachable
  BY DEF SessionInv
<1> QED
  BY <1>1, SessionInvHolds, PTL

-----------------------------------------------------------------------------
(* Tokens *)

\* A session's token has left the server or is about to: it is in the
\* outbound channel, with the client, in a handshake, or has been used.
TokenOut(s) ==
    \/ client[s] = "in"
    \/ OkIn(outq[s])
    \/ HandshakeIn(events, s)
    \/ authState[s] = "ready"

\* A token is only out for a session that has logged in, and one that has been
\* torn down since is no player's entry, but for the player with the ID 0,
\* whose entry the server does not delete.
TokenInv ==
    \A s \in Conns : TokenOut(s) =>
        /\ authState[s] # "preLogin"
        /\ onDisconnect[s] > 0 => \A p \in Players : sessions[p] = s => p = 0

\* A written frame was in the channel, and what is left was too.
LEMMA WrittenWasQueued ==
    ASSUME NEW o \in Seq(ServerFrames), o # <<>>
    PROVE  (Head(o) = "loginOk" \/ OkIn(Tail(o))) => OkIn(o)
<1> DEFINE r == Tail(o)
<1>1. /\ Len(o) \in Nat \ {0} /\ Len(r) = Len(o) - 1
      /\ \A i \in 1 .. Len(r) : r[i] = o[i + 1]
      /\ Head(o) = o[1]
  BY TailAt
<1> HIDE DEF r
<1>2. /\ \A i \in 1 .. Len(r) : i + 1 \in 1 .. Len(o) /\ r[i] = o[i + 1]
      /\ 1 \in 1 .. Len(o) /\ Head(o) = o[1]
  BY <1>1
<1> QED
  BY <1>2 DEF OkIn, r

\* Every step keeps tokens with their sessions.
LEMMA NextToken ==
    ASSUME SessionInv, TokenInv, [Next]_vars
    PROVE  TokenInv'
<1> USE DEF sessionVars, registryVars, drainVars, tickVars, discVars, sendVars, clientVars
<1>a. /\ TypeInv /\ DisconnectAccounted /\ RegistryInv /\ StartInv
  BY DEF SessionInv
<1>b. /\ events \in Seq(Events)
      /\ outq \in [Conns -> Seq(ServerFrames)]
      /\ client \in [Conns -> ClientStates]
      /\ authState \in [Conns -> AuthStates]
      /\ ID \in [Conns -> Players \cup {0}]
      /\ sessions \in [Players -> Conns \cup {None}]
      /\ onDisconnect \in [Conns -> Nat]
      /\ None \notin Conns
  BY <1>a, ServerAssumption DEF TypeInv, TypeOK
<1>1. ASSUME UNCHANGED <<authState, sessions, onDisconnect>>,
             \A s \in Conns : client'[s] = "in" \/ OkIn(outq'[s]) \/ HandshakeIn(events', s) =>
                                  TokenOut(s)
      PROVE  TokenInv'
  <2>1. \A s \in Conns : TokenOut(s)' => TokenOut(s)
    BY <1>1 DEF TokenOut, HandshakeIn, OkIn
  <2> QED
    BY <1>1, <2>1 DEF TokenInv
<1>2. ASSUME NEW c \in Conns, Accept(c) \/ CloseConn(c) PROVE TokenInv'
  <2>1. UNCHANGED <<authState, sessions, onDisconnect, client, outq, events>>
    BY <1>2 DEF Accept, CloseConn
  <2> QED
    BY <1>1, <2>1 DEF TokenOut
<1>3. ASSUME NEW c \in Conns, ReaderExit(c) \/ ReportExit(c) PROVE TokenInv'
  <2>1. UNCHANGED <<authState, sessions, onDisconnect, client, outq>>
    BY <1>a, <1>3, ExitFacts
  <2>2. \A s \in Conns : HandshakeIn(events', s) => HandshakeIn(events, s)
    BY <1>a, <1>3, ExitFacts
  <2> QED
    BY <1>1, <2>1, <2>2 DEF TokenOut
<1>4. ASSUME NEW c \in Conns, WriteNext(c) PROVE TokenInv'
  <2>1. /\ UNCHANGED <<authState, sessions, onDisconnect, events>>
        /\ outq[c] # <<>>
        /\ outq' = [outq EXCEPT ![c] = Tail(@)]
        /\ \A s \in Conns : client'[s] = "in" =>
              client[s] = "in" \/ (s = c /\ Head(outq[c]) = "loginOk")
    BY <1>b, <1>4 DEF WriteNext
  <2>2. \A s \in Conns : outq'[s] = IF s = c THEN Tail(outq[c]) ELSE outq[s]
    BY <1>b, <2>1
  <2>3. Head(outq[c]) = "loginOk" \/ OkIn(Tail(outq[c])) => OkIn(outq[c])
    BY <1>b, <2>1, WrittenWasQueued
  <2>4. ASSUME NEW s \in Conns,
               client'[s] = "in" \/ OkIn(outq'[s]) \/ HandshakeIn(events', s)
        PROVE  TokenOut(s)
    BY <2>1, <2>2, <2>3, <2>4 DEF TokenOut
  <2> QED
    BY <1>1, <2>1, <2>4
<1>5. ASSUME NEW c \in Conns, NEW f \in TcpFrames, ReadMessage(c, f) PROVE TokenInv'
  <2>1. /\ UNCHANGED <<authState, sessions, onDisconnect, outq>>
        /\ events' = events \/ events' = Append(events, TcpEvent(c, f))
        /\ \A s \in Conns : client'[s] = "in" => client[s] = "in"
    BY <1>b, <1>5 DEF ReadMessage
  <2>2. TcpEvent(c, f) \in Events /\ \A s \in Conns : ~IsHandshake(TcpEvent(c, f), s)
    BY EventsTyped, KindsDiffer, ServerAssumption
  <2>3. ASSUME NEW s \in Conns, HandshakeIn(events', s) PROVE HandshakeIn(events, s)
    <3>1. CASE events' = events
      BY <2>3, <3>1
    <3>2. CASE events' = Append(events, TcpEvent(c, f))
      BY <1>b, <2>2, <2>3, <3>2, PushedIn
    <3> QED
      BY <2>1, <3>1, <3>2
  <2> QED
    BY <1>1, <2>1, <2>3 DEF TokenOut
<1>6. ASSUME NEW e \in Events, ReadDatagram(e),
             \A s \in Conns : IsHandshake(e, s) => client[s] = "in"
      PROVE  TokenInv'
  <2>1. /\ UNCHANGED <<authState, sessions, onDisconnect, outq, client>>
        /\ events' = Append(events, e)
    BY <1>6 DEF ReadDatagram
  <2>2. \A s \in Conns : HandshakeIn(events', s) => HandshakeIn(events, s) \/ client[s] = "in"
    BY <1>b, <1>6, <2>1, PushedIn
  <2> QED
    BY <1>1, <2>1, <2>2 DEF TokenOut
<1>7. CASE ReadHandshake
  <2>1. PICK t \in Conns, p \in Players, a \in Addrs :
            client[t] = "in" /\ ReadDatagram(HandshakeEvent(a, p, t))
    BY <1>7, ServerAssumption DEF ReadHandshake
  <2>2. /\ HandshakeEvent(a, p, t) \in Events
        /\ \A s \in Conns : IsHandshake(HandshakeEvent(a, p, t), s) => client[s] = "in"
    BY <2>1, EventsTyped, KindsDiffer
  <2> QED
    BY <1>6, <2>1, <2>2
<1>8. CASE ReadUDP
  <2>1. PICK a \in Addrs, f \in AllUdpFrames : ReadDatagram(UdpEvent(a, f))
    BY <1>8, ServerAssumption DEF ReadUDP
  <2>2. /\ UdpEvent(a, f) \in Events
        /\ \A s \in Conns : ~IsHandshake(UdpEvent(a, f), s)
    BY EventsTyped, KindsDiffer
  <2> QED
    BY <1>6, <2>1, <2>2
<1>9. CASE QuietStep
  <2>1. UNCHANGED <<authState, sessions, onDisconnect, client>>
    BY <1>9 DEF QuietStep
  <2>2. \A s \in Conns : /\ OkIn(outq'[s]) => OkIn(outq[s])
                         /\ HandshakeIn(events', s) => HandshakeIn(events, s)
    BY <1>a, <1>9, QuietFacts
  <2> QED
    BY <1>1, <2>1, <2>2 DEF TokenOut
<1>10. CASE LoginAccepted
  <2>1. PICK c \in Conns, p \in Players :
            /\ Consume(TcpEvent(c, "login"))
            /\ authState[c] = "preLogin"
            /\ sessions[p] = None
            /\ authState' = [authState EXCEPT ![c] = "awaitingUDP"]
            /\ sessions' = [sessions EXCEPT ![p] = c]
            /\ PushTCP(c, "loginOk", Tail(events))
            /\ UNCHANGED <<onDisconnect, client>>
    BY <1>a, <1>10, LoginChanges
  <2>2. Tail(events) \in Seq(Events) /\ events # <<>>
    BY <1>a, <2>1, ConsumeOK
  <2>3. /\ Scheduled(c, Tail(events))
        /\ \/ outq' = outq
           \/ outq' = [outq EXCEPT ![c] = Append(@, "loginOk")] /\ sendTCP[c] = "open"
    BY <2>1, PushesSchedule
  <2>4. \A s \in Conns : HandshakeIn(events', s) => HandshakeIn(events, s)
    BY <1>a, <2>2, <2>3, ScheduledFacts
  <2>5. \A r \in Players : sessions'[r] = sessions[r] \/ sessions'[r] = c
    BY <1>b, <2>1
  <2> SUFFICES ASSUME NEW s \in Conns, TokenOut(s)'
               PROVE  /\ authState'[s] # "preLogin"
                      /\ onDisconnect'[s] > 0 => \A r \in Players : sessions'[r] = s => r = 0
    BY DEF TokenInv
  <2>6. client'[s] = "in" \/ OkIn(outq'[s]) \/ HandshakeIn(events', s) \/ authState'[s] = "ready"
    BY DEF TokenOut, OkIn, HandshakeIn
  <2>7. CASE s = c
    <3>1. ~TokenOut(s)
      BY <2>1, <2>7 DEF TokenInv
    <3>2. outq' # outq
      BY <1>b, <2>1, <2>4, <2>6, <2>7, <3>1 DEF TokenOut
    <3>3. onDisconnect[s] = 0
      BY <1>a, <1>b, <2>3, <2>7, <3>2 DEF StartInv
    <3> QED
      BY <1>b, <2>1, <2>7, <3>3
  <2>8. CASE s # c
    <3>1. outq'[s] = outq[s] /\ authState'[s] = authState[s]
      BY <1>b, <2>1, <2>3, <2>8
    <3>2. TokenOut(s)
      BY <2>1, <2>4, <2>6, <3>1 DEF TokenOut
    <3> QED
      BY <2>1, <2>5, <2>8, <3>1, <3>2 DEF TokenInv
  <2> QED
    BY <2>7, <2>8
<1>11. CASE HandshakePaired
  <2>1. PICK t \in Conns : /\ HandshakeIn(events, t)
                           /\ authState' = [authState EXCEPT ![t] = "ready"]
                           /\ events # <<>> /\ events' = Tail(events)
                           /\ UNCHANGED <<sessions, onDisconnect, client, outq>>
    BY <1>a, <1>11, PairingChanges
  <2>2. \A s \in Conns : HandshakeIn(events', s) => HandshakeIn(events, s)
    BY <1>b, <2>1, ConsumedIn
  <2> SUFFICES ASSUME NEW s \in Conns, TokenOut(s)'
               PROVE  /\ authState'[s] # "preLogin"
                      /\ onDisconnect'[s] > 0 => \A p \in Players : sessions'[p] = s => p = 0
    BY DEF TokenInv
  <2>4. client'[s] = "in" \/ OkIn(outq'[s]) \/ HandshakeIn(events', s) \/ authState'[s] = "ready"
    BY DEF TokenOut, OkIn, HandshakeIn
  <2>5. /\ s # t => authState'[s] = authState[s]
        /\ s = t => authState'[s] = "ready"
    BY <1>b, <2>1
  <2>6. TokenOut(s)
    BY <2>1, <2>2, <2>4, <2>5 DEF TokenOut
  <2> QED
    BY <2>1, <2>5, <2>6 DEF TokenInv
<1>12. CASE Cleanup
  <2>1. PICK c \in Conns :
            /\ events # <<>> /\ events' = Tail(events)
            /\ onDisconnect[c] = 0
            /\ ID[c] # 0 => ID[c] \in Players /\ sessions[ID[c]] = c
            /\ \A p \in Players :
                  sessions'[p] = IF ID[c] # 0 /\ p = ID[c] THEN None ELSE sessions[p]
            /\ \A p \in Players : sessions'[p] = c => p = 0
            /\ outq' = [outq EXCEPT ![c] = <<>>]
            /\ onDisconnect' = [onDisconnect EXCEPT ![c] = @ + 1]
            /\ UNCHANGED <<authState, client>>
    BY <1>a, <1>12, CleanupChanges
  <2>2. \A s \in Conns : HandshakeIn(events', s) => HandshakeIn(events, s)
    BY <1>b, <2>1, ConsumedIn
  <2>3. \A p \in Players : sessions'[p] \in {sessions[p], None}
    BY <2>1
  <2> SUFFICES ASSUME NEW s \in Conns, TokenOut(s)'
               PROVE  /\ authState'[s] # "preLogin"
                      /\ onDisconnect'[s] > 0 => \A p \in Players : sessions'[p] = s => p = 0
    BY DEF TokenInv
  <2>5. client'[s] = "in" \/ OkIn(outq'[s]) \/ HandshakeIn(events', s) \/ authState'[s] = "ready"
    BY DEF TokenOut, OkIn, HandshakeIn
  <2>6. OkIn(outq'[s]) => OkIn(outq[s])
    <3>1. ~OkIn(<<>>)
      BY DEF OkIn
    <3> QED
      BY <1>b, <2>1, <3>1
  <2>7. TokenOut(s)
    BY <2>1, <2>2, <2>5, <2>6 DEF TokenOut
  <2>8. s # c => onDisconnect'[s] = onDisconnect[s]
    BY <1>b, <2>1
  <2> QED
    BY <1>b, <2>1, <2>3, <2>7, <2>8 DEF TokenInv
<1> QED
  BY <1>a, <1>2, <1>3, <1>4, <1>5, <1>7, <1>8, <1>9, <1>10, <1>11, <1>12, StepKinds

\* Tokens stay with their sessions in every reachable state.
LEMMA TokenInvHolds == Spec => [](SessionInv /\ TokenInv)
<1>1. Init => TokenInv
  BY DEF Init, TokenInv, TokenOut, OkIn, HandshakeIn
<1>2. SessionInv /\ TokenInv /\ [Next]_vars => TokenInv'
  BY NextToken
<1> QED
  BY <1>1, <1>2, SessionInvHolds, PTL DEF Spec

\* A session whose token is out and that is the entry of a player whose ID is
\* not 0 is not torn down.
LEMMA TokenOfEntryLives ==
    ASSUME SessionInv, TokenInv, NEW s \in Conns, TokenOut(s),
           NEW p \in Players, sessions[p] = s, p # 0
    PROVE  onDisconnect[s] = 0
<1>1. onDisconnect[s] \in Nat
  BY DEF SessionInv, TypeInv, TypeOK
<1> QED
  BY <1>1 DEF TokenInv

\* A datagram is only ever attributed to a ready session that paired from its
\* address, holds its player and has not been torn down: however handshakes and
\* cleanups on shared addresses follow each other, udpSessions keeps no dead
\* session.
THEOREM RoutesAreSound ==
    ASSUME 0 \notin Players
    PROVE  Spec => []UdpRouteSound
<1>1. SessionInv /\ TokenInv => UdpRouteSound
  <2> SUFFICES ASSUME SessionInv, TokenInv, NEW a \in Addrs, udpSessions[a] # None
               PROVE  /\ udpAddr[udpSessions[a]] = a
                      /\ authState[udpSessions[a]] = "ready"
                      /\ onDisconnect[udpSessions[a]] = 0
                      /\ udpSessions[a] \in Registered
    BY DEF UdpRouteSound
  <2>1. /\ udpSessions[a] \in Conns
        /\ udpAddr[udpSessions[a]] = a
        /\ authState[udpSessions[a]] = "ready"
        /\ ID[udpSessions[a]] \in Players
        /\ sessions[ID[udpSessions[a]]] = udpSessions[a]
    BY DEF SessionInv, RouteInv, IDInv, TypeInv, TypeOK
  <2>2. onDisconnect[udpSessions[a]] = 0
    BY <2>1, TokenOfEntryLives DEF TokenOut
  <2> QED
    BY <2>1, <2>2 DEF Registered
<1> QED
  BY <1>1, TokenInvHolds, PTL

\* OnConnect never follows OnDisconnect of the same session: no handshake that
\* is still queued or sent again pairs a session that was torn down.
THEOREM ConnectsBeforeDisconnects ==
    ASSUME 0 \notin Players
    PROVE  Spec => NoConnectAfterDisconnect
<1> DEFINE Fresh == \A s \in Conns :
                        authState[s] # "ready" /\ authState'[s] = "ready" => onDisconnect[s] = 0
<1>1. SessionInv /\ TokenInv /\ [Next]_vars => [Fresh]_vars
  <2> SUFFICES ASSUME SessionInv, TokenInv, [Next]_vars,
                      NEW s \in Conns, authState[s] # "ready", authState'[s] = "ready"
               PROVE  onDisconnect[s] = 0
    OBVIOUS
  <2>a. TypeInv /\ DisconnectAccounted /\ RegistryInv /\ authState \in [Conns -> AuthStates]
    BY DEF SessionInv, TypeInv, TypeOK
  <2>1. CASE HandshakePaired
    <3>1. PICK t \in Conns, p \in Players :
              /\ HandshakeIn(events, t)
              /\ sessions[p] = t
              /\ authState' = [authState EXCEPT ![t] = "ready"]
      BY <2>a, <2>1, PairingChanges
    <3>2. s = t
      BY <2>a, <3>1
    <3> QED
      BY <3>1, <3>2, TokenOfEntryLives DEF TokenOut
  <2>2. CASE LoginAccepted
    <3>1. PICK c \in Conns : authState' = [authState EXCEPT ![c] = "awaitingUDP"]
      BY <2>a, <2>2, LoginChanges
    <3> QED
      BY <2>a, <3>1
  <2>3. CASE Cleanup
    <3>1. authState' = authState
      BY <2>a, <2>3, CleanupChanges
    <3> QED
      BY <3>1
  <2> QED
    BY <2>a, <2>1, <2>2, <2>3, TablesChange
<1> QED
  BY <1>1, TokenInvHolds, PTL DEF Spec, NoConnectAfterDisconnect

\* Handlers run for live sessions, or for one whose player is back elsewhere.
THEOREM HandlersLiveOrReplaced ==
    ASSUME 0 \notin Players
    PROVE  Spec => []HandlerLiveOrReplaced
<1>1. SessionInv /\ TokenInv => HandlerLiveOrReplaced
  <2> SUFFICES ASSUME SessionInv, TokenInv, pc \in {"handler", "rpc"}, onDisconnect[cur] # 0
               PROVE  sessions[ID[cur]] \in Conns \ {cur}
    BY DEF HandlerLiveOrReplaced
  <2>1. /\ cur \in Conns
        /\ authState[cur] = "ready"
        /\ ID[cur] \in Players
        /\ sessions[ID[cur]] \in Conns
    BY DEF SessionInv, TypeInv, TypeOK, TickOK, CallInv, IDInv, HandlerInv
  <2>2. sessions[ID[cur]] # cur
    BY <2>1, TokenOfEntryLives DEF TokenOut
  <2> QED
    BY <2>1, <2>2
<1> QED
  BY <1>1, TokenInvHolds, PTL

\* A handshake carries, and a ready session was paired with, a token that a
\* client was given.
HolderInv ==
    \A s \in Conns : HandshakeIn(events, s) \/ authState[s] = "ready" => client[s] = "in"

\* Every step keeps the tokens in use with clients that were given them.
LEMMA NextHolder ==
    ASSUME SessionInv, HolderInv, [Next]_vars
    PROVE  HolderInv'
<1> USE DEF sessionVars, registryVars, drainVars, tickVars, discVars, sendVars, clientVars
<1>a. TypeInv /\ DisconnectAccounted /\ RegistryInv
  BY DEF SessionInv
<1>b. /\ events \in Seq(Events)
      /\ client \in [Conns -> ClientStates]
      /\ authState \in [Conns -> AuthStates]
  BY <1>a DEF TypeInv, TypeOK
<1>1. ASSUME \A s \in Conns :
                /\ client[s] = "in" => client'[s] = "in"
                /\ HandshakeIn(events', s) => HandshakeIn(events, s) \/ client[s] = "in"
                /\ authState'[s] = "ready" => authState[s] = "ready" \/ HandshakeIn(events, s)
      PROVE  HolderInv'
  <2> SUFFICES ASSUME NEW s \in Conns, HandshakeIn(events', s) \/ authState'[s] = "ready"
               PROVE  client'[s] = "in"
    BY DEF HolderInv, HandshakeIn
  <2> QED
    BY <1>1 DEF HolderInv
<1>2. ASSUME NEW c \in Conns, Accept(c) \/ CloseConn(c) PROVE HolderInv'
  <2>1. UNCHANGED <<authState, client, events>>
    BY <1>2 DEF Accept, CloseConn
  <2> QED
    BY <1>1, <2>1
<1>3. ASSUME NEW c \in Conns, ReaderExit(c) \/ ReportExit(c) PROVE HolderInv'
  <2>1. \A s \in Conns : /\ HandshakeIn(events', s) => HandshakeIn(events, s)
                         /\ UNCHANGED <<authState, client>>
    BY <1>a, <1>3, ExitFacts
  <2> QED
    BY <1>1, <2>1
<1>4. ASSUME NEW c \in Conns, WriteNext(c) PROVE HolderInv'
  <2>1. UNCHANGED <<authState, events>>
    BY <1>4 DEF WriteNext
  <2>2. \A s \in Conns : client[s] = "in" => client'[s] = "in"
    BY <1>b, <1>4 DEF WriteNext
  <2> QED
    BY <1>1, <2>1, <2>2
<1>5. ASSUME NEW c \in Conns, NEW f \in TcpFrames, ReadMessage(c, f) PROVE HolderInv'
  <2>1. /\ UNCHANGED authState
        /\ events' = events \/ events' = Append(events, TcpEvent(c, f))
        /\ \A s \in Conns : client[s] = "in" => client'[s] = "in"
    BY <1>b, <1>5 DEF ReadMessage
  <2>2. TcpEvent(c, f) \in Events /\ \A s \in Conns : ~IsHandshake(TcpEvent(c, f), s)
    BY EventsTyped, KindsDiffer, ServerAssumption
  <2>3. ASSUME NEW s \in Conns, HandshakeIn(events', s) PROVE HandshakeIn(events, s)
    BY <1>b, <2>1, <2>2, <2>3, PushedIn
  <2> QED
    BY <1>1, <2>1, <2>3
<1>6. ASSUME NEW e \in Events, ReadDatagram(e),
             \A s \in Conns : IsHandshake(e, s) => client[s] = "in"
      PROVE  HolderInv'
  <2>1. UNCHANGED <<authState, client>> /\ events' = Append(events, e)
    BY <1>6 DEF ReadDatagram
  <2>2. \A s \in Conns : HandshakeIn(events', s) => HandshakeIn(events, s) \/ client[s] = "in"
    BY <1>b, <1>6, <2>1, PushedIn
  <2> QED
    BY <1>1, <2>1, <2>2
<1>7. CASE ReadHandshake
  <2>1. PICK t \in Conns, p \in Players, a \in Addrs :
            client[t] = "in" /\ ReadDatagram(HandshakeEvent(a, p, t))
    BY <1>7, ServerAssumption DEF ReadHandshake
  <2>2. /\ HandshakeEvent(a, p, t) \in Events
        /\ \A s \in Conns : IsHandshake(HandshakeEvent(a, p, t), s) => client[s] = "in"
    BY <2>1, EventsTyped, KindsDiffer
  <2> QED
    BY <1>6, <2>1, <2>2
<1>8. CASE ReadUDP
  <2>1. PICK a \in Addrs, f \in AllUdpFrames : ReadDatagram(UdpEvent(a, f))
    BY <1>8, ServerAssumption DEF ReadUDP
  <2>2. /\ UdpEvent(a, f) \in Events
        /\ \A s \in Conns : ~IsHandshake(UdpEvent(a, f), s)
    BY EventsTyped, KindsDiffer
  <2> QED
    BY <1>6, <2>1, <2>2
<1>9. CASE QuietStep
  <2>1. UNCHANGED <<authState, client>>
    BY <1>9 DEF QuietStep
  <2>2. \A s \in Conns : HandshakeIn(events', s) => HandshakeIn(events, s)
    BY <1>a, <1>9, QuietFacts
  <2> QED
    BY <1>1, <2>1, <2>2
<1>10. CASE LoginAccepted
  <2>1. PICK c \in Conns : /\ Consume(TcpEvent(c, "login"))
                           /\ authState' = [authState EXCEPT ![c] = "awaitingUDP"]
                           /\ PushTCP(c, "loginOk", Tail(events))
                           /\ client' = client
    BY <1>a, <1>10, LoginChanges
  <2>2. Tail(events) \in Seq(Events) /\ events # <<>>
    BY <1>a, <2>1, ConsumeOK
  <2>3. Scheduled(c, Tail(events))
    BY <2>1, PushesSchedule
  <2>4. \A s \in Conns : HandshakeIn(events', s) => HandshakeIn(events, s)
    BY <1>a, <2>2, <2>3, ScheduledFacts
  <2>5. \A s \in Conns : authState'[s] = "ready" => authState[s] = "ready"
    BY <1>b, <2>1
  <2> QED
    BY <1>1, <2>1, <2>4, <2>5
<1>11. CASE HandshakePaired
  <2>1. PICK t \in Conns : /\ HandshakeIn(events, t)
                           /\ authState' = [authState EXCEPT ![t] = "ready"]
                           /\ events # <<>> /\ events' = Tail(events)
                           /\ client' = client
    BY <1>a, <1>11, PairingChanges
  <2>2. \A s \in Conns : HandshakeIn(events', s) => HandshakeIn(events, s)
    BY <1>b, <2>1, ConsumedIn
  <2>3. \A s \in Conns : authState'[s] = "ready" => authState[s] = "ready" \/ s = t
    BY <1>b, <2>1
  <2> QED
    BY <1>1, <2>1, <2>2, <2>3
<1>12. CASE Cleanup
  <2>1. events # <<>> /\ events' = Tail(events) /\ UNCHANGED <<authState, client>>
    BY <1>a, <1>12, CleanupChanges
  <2>2. \A s \in Conns : HandshakeIn(events', s) => HandshakeIn(events, s)
    BY <1>b, <2>1, ConsumedIn
  <2> QED
    BY <1>1, <2>1, <2>2
<1> QED
  BY <1>a, <1>2, <1>3, <1>4, <1>5, <1>7, <1>8, <1>9, <1>10, <1>11, <1>12, StepKinds

\* A session only becomes ready through a client that was given its own token:
\* handleUDPHandshake accepts no other player's, and none of an earlier
\* session of the same player.
THEOREM PairingNeedsToken == Spec => []PairedByTokenHolder
<1>1. Init => HolderInv
  BY DEF Init, HolderInv, HandshakeIn
<1>2. SessionInv /\ HolderInv /\ [Next]_vars => HolderInv'
  BY NextHolder
<1>3. HolderInv => PairedByTokenHolder
  BY DEF HolderInv, PairedByTokenHolder
<1> QED
  BY <1>1, <1>2, <1>3, SessionInvHolds, PTL DEF Spec

-----------------------------------------------------------------------------
(* The refinement of PlayerSessions *)

\* A session's phase follows from its acceptance and its authentication state.
LEMMA PhaseSame ==
    ASSUME NEW s \in Conns, authState[s] \in AuthStates, authState'[s] = authState[s],
           reader'[s] = "none" <=> reader[s] = "none"
    PROVE  Phase(s)' = Phase(s)
<1>1. CASE reader[s] = "none"
  BY <1>1 DEF Phase
<1>2. CASE reader[s] # "none"
  BY <1>2 DEF Phase, AuthStates
<1> QED
  BY <1>1, <1>2

\* The sessions whose OnDisconnect has run.
Left == {c \in Conns : onDisconnect[c] > 0}

\* A step that keeps the phase of every session and the registry.
LEMMA StutterSession ==
    ASSUME TypeInv, UNCHANGED <<onDisconnect, authState, sessions>>,
           \A s \in Conns : reader'[s] = "none" <=> reader[s] = "none"
    PROVE  UNCHANGED PS!avars
<1>1. \A s \in Conns : Phase(s)' = Phase(s)
  BY PhaseSame DEF TypeInv, TypeOK
<1>2. [c \in Conns |-> Phase(c)]' = [c \in Conns |-> Phase(c)]
  BY <1>1
<1>3. Left' = Left
  BY DEF Left
<1> QED
  BY <1>2, <1>3 DEF PS!avars, Left

\* A step that changes the phase of one session.
LEMMA PhaseMoves ==
    ASSUME NEW s \in Conns,
           \A t \in Conns \ {s} : Phase(t)' = Phase(t)
    PROVE  [c \in Conns |-> Phase(c)]' = [[c \in Conns |-> Phase(c)] EXCEPT ![s] = Phase(s)']
<1> DEFINE f == [c \in Conns |-> Phase(c)]
           g == [c \in Conns |-> Phase(c)']
<1>1. \A t \in Conns : g[t] = [f EXCEPT ![s] = Phase(s)'][t]
  BY DEF f, g
<1>2. g = [f EXCEPT ![s] = Phase(s)']
  BY <1>1
<1> QED
  BY <1>2

\* Initially no session is there and nobody holds a player.
LEMMA InitPlayerSessions == Init => PS!AInit
<1> SUFFICES ASSUME Init PROVE PS!AInit
  OBVIOUS
<1>1. ASSUME NEW s \in Conns PROVE Phase(s) = "none"
  <2>1. reader[s] = "none"
    BY DEF Init
  <2> QED
    BY <2>1 DEF Phase
<1>2. [c \in Conns |-> Phase(c)] = [c \in Conns |-> "none"]
  BY <1>1
<1>3. sessions = [p \in Players |-> None] /\ Left = {}
  BY DEF Init, Left
<1> QED
  BY <1>2, <1>3 DEF PS!AInit, Left

\* Every step of the server is a step of PlayerSessions or none: accepting a
\* connection, an accepted login, a handshake that pairs and a cleanup are its
\* four operations, each allowed when it happens.
LEMMA NextPlayerSessions ==
    ASSUME SessionInv, TokenInv, [Next]_vars
    PROVE  [PS!ANext]_PS!avars
<1> USE DEF sessionVars, registryVars, drainVars, tickVars, discVars, sendVars, clientVars
<1> DEFINE ph == [c \in Conns |-> Phase(c)]
<1>a. TypeInv /\ DisconnectAccounted /\ RegistryInv /\ StartInv
  BY DEF SessionInv
<1>b. /\ reader \in [Conns -> ReaderStates]
      /\ authState \in [Conns -> AuthStates]
      /\ sessions \in [Players -> Conns \cup {None}]
      /\ sessions' \in [Players -> Conns \cup {None}]
      /\ onDisconnect \in [Conns -> Nat]
      /\ None \notin Conns
  <2>1. TypeInv'
    BY <1>a, NextTypeInv
  <2> QED
    BY <1>a, <2>1, ServerAssumption DEF TypeInv, TypeOK
<1>1. ASSUME NEW c \in Conns, Accept(c) PROVE [PS!ANext]_PS!avars
  <2>1. /\ UNCHANGED <<onDisconnect, authState, sessions>>
        /\ reader[c] = "none" /\ reader'[c] = "reading"
        /\ \A t \in Conns \ {c} : reader'[t] = reader[t]
    BY <1>b, <1>1 DEF Accept
  <2>2. authState[c] = "preLogin" /\ Left' = Left
    BY <1>a, <2>1 DEF StartInv, Left
  <2>3. Phase(c) = "none" /\ Phase(c)' = "connected"
    BY <2>1, <2>2 DEF Phase
  <2>4. \A t \in Conns \ {c} : Phase(t)' = Phase(t)
    BY <1>b, <2>1, PhaseSame
  <2>5. ph' = [ph EXCEPT ![c] = "connected"]
    BY <2>3, <2>4, PhaseMoves
  <2>6. PS!Connect(c)
    BY <2>1, <2>2, <2>3, <2>5 DEF PS!Connect, Left
  <2> QED
    BY <2>6 DEF PS!ANext
<1>2. ASSUME NEW c \in Conns, ReaderExit(c) \/ ReportExit(c) \/ CloseConn(c) \/ WriteNext(c)
      PROVE  [PS!ANext]_PS!avars
  <2>1. /\ UNCHANGED <<onDisconnect, authState, sessions>>
        /\ \A t \in Conns : reader'[t] = "none" <=> reader[t] = "none"
    BY <1>b, <1>2 DEF ReaderExit, ReportExit, CloseConn, WriteNext
  <2> QED
    BY <1>a, <2>1, StutterSession
<1>3. ASSUME NEW c \in Conns, NEW f \in TcpFrames, ReadMessage(c, f)
      PROVE  [PS!ANext]_PS!avars
  <2>1. /\ UNCHANGED <<onDisconnect, authState, sessions>>
        /\ \A t \in Conns : reader'[t] = "none" <=> reader[t] = "none"
    BY <1>b, <1>3 DEF ReadMessage
  <2> QED
    BY <1>a, <2>1, StutterSession
<1>4. CASE ReadHandshake \/ ReadUDP \/ QuietStep
  <2>1. UNCHANGED <<onDisconnect, authState, sessions, reader>>
    BY <1>4 DEF ReadHandshake, ReadUDP, ReadDatagram, QuietStep
  <2> QED
    BY <1>a, <2>1, StutterSession
<1>5. CASE LoginAccepted
  <2>1. PICK s \in Conns, p \in Players :
              /\ FrameIn(events, s)
              /\ authState[s] = "preLogin"
              /\ sessions[p] = None
              /\ authState' = [authState EXCEPT ![s] = "awaitingUDP"]
              /\ sessions' = [sessions EXCEPT ![p] = s]
              /\ UNCHANGED <<onDisconnect, reader>>
    BY <1>a, <1>5, LoginChanges
  <2>2. reader[s] # "none" /\ Left' = Left
    BY <1>a, <2>1 DEF StartInv, Left
  <2>3. Phase(s) = "connected" /\ Phase(s)' = "authenticated"
    BY <1>b, <2>1, <2>2 DEF Phase
  <2>4. \A t \in Conns \ {s} : Phase(t)' = Phase(t)
    BY <1>b, <2>1, PhaseSame
  <2>5. ph' = [ph EXCEPT ![s] = "authenticated"]
    BY <2>3, <2>4, PhaseMoves
  <2>6. PS!Authenticate(s, p)
    BY <2>1, <2>2, <2>3, <2>5 DEF PS!Authenticate, Left
  <2> QED
    BY <2>6 DEF PS!ANext
<1>6. CASE HandshakePaired
  <2>1. PICK t \in Conns, p \in Players :
              /\ HandshakeIn(events, t)
              /\ sessions[p] = t
              /\ authState[t] = "awaitingUDP"
              /\ authState' = [authState EXCEPT ![t] = "ready"]
              /\ UNCHANGED <<sessions, onDisconnect, reader>>
    BY <1>a, <1>6, PairingChanges
  <2>2. /\ reader[t] # "none" /\ Left' = Left
        /\ t \in Left => p = 0
    BY <1>a, <2>1 DEF StartInv, TokenInv, TokenOut, Left
  <2>3. Phase(t) = "authenticated" /\ Phase(t)' = "ready"
    BY <1>b, <2>1, <2>2 DEF Phase
  <2>4. \A s \in Conns \ {t} : Phase(s)' = Phase(s)
    BY <1>b, <2>1, PhaseSame
  <2>5. ph' = [ph EXCEPT ![t] = "ready"]
    BY <2>3, <2>4, PhaseMoves
  <2>6. PS!Pair(t, p)
    BY <2>1, <2>2, <2>3, <2>5 DEF PS!Pair, Left
  <2> QED
    BY <2>6 DEF PS!ANext
<1>7. CASE Cleanup
  <2>1. PICK s \in Conns :
              /\ fired[s] /\ onDisconnect[s] = 0
              /\ ID[s] # 0 => ID[s] \in Players /\ sessions[ID[s]] = s
              /\ \A p \in Players :
                    sessions'[p] = IF ID[s] # 0 /\ p = ID[s] THEN None ELSE sessions[p]
              /\ \A p \in Players : sessions'[p] = s => p = 0
              /\ onDisconnect' = [onDisconnect EXCEPT ![s] = @ + 1]
              /\ UNCHANGED <<ID, authState, reader>>
    BY <1>a, <1>7, CleanupChanges
  <2>2. Phase(s) # "none"
    BY <1>a, <1>b, <2>1 DEF StartInv, Phase, AuthStates
  <2>3. s \notin Left /\ Left' = Left \cup {s}
    BY <1>b, <2>1 DEF Left
  <2>4. ph' = ph
    <3>1. \A t \in Conns : Phase(t)' = Phase(t)
      BY <1>b, <2>1, PhaseSame
    <3> QED
      BY <3>1
  <2>5. ASSUME NEW p \in Players
        PROVE  sessions'[p] = IF sessions[p] = s /\ p # 0 THEN None ELSE sessions[p]
    <3>1. CASE sessions[p] = s /\ p # 0
      BY <2>1, <3>1
    <3>2. CASE ~(sessions[p] = s /\ p # 0)
      BY <2>1, <3>2
    <3> QED
      BY <3>1, <3>2
  <2>6. sessions' = [p \in Players |-> IF sessions[p] = s /\ p # 0 THEN None ELSE sessions[p]]
    BY <1>b, <2>5
  <2>7. PS!Leave(s)
    BY <2>2, <2>3, <2>4, <2>6 DEF PS!Leave, Left
  <2> QED
    BY <2>7 DEF PS!ANext
<1> QED
  BY <1>a, <1>1, <1>2, <1>3, <1>4, <1>5, <1>6, <1>7, StepKinds

\* The server keeps the session layer's promise, whatever its clients send and
\* whatever ids Authenticate returns: a connection is authenticated at most
\* once, as a player that nobody holds, becomes ready at most once, and not
\* after it has left unless its player's id is 0, and leaves at most once.
THEOREM ServerImplementsPlayerSessions == Spec => ImplementsPlayerSessions
<1>1. Init => PS!AInit
  BY InitPlayerSessions
<1>2. SessionInv /\ TokenInv /\ [Next]_vars => [PS!ANext]_PS!avars
  BY NextPlayerSessions
<1> QED
  BY <1>1, <1>2, TokenInvHolds, PTL DEF Spec, ImplementsPlayerSessions, PS!ASpec

-----------------------------------------------------------------------------
(* A game with subscriptions *)

\* The maps' keys and values are players and topics.
MapsTyped ==
    /\ subscribers \in [DOMAIN subscribers -> SUBSET Players]
    /\ DOMAIN perPlayer \subseteq Players
    /\ perPlayer \in [DOMAIN perPlayer -> SUBSET Topics]

GameInv == SessionInv /\ MapsTyped

\* Adding a player to a topic, and the topic to the player, keeps the types.
LEMMA AddTyped ==
    ASSUME MapsTyped, NEW p \in Players, NEW t \in Topics,
           subscribers' = Sub!Add(subscribers, t, p),
           perPlayer' = Sub!Add(perPlayer, p, t)
    PROVE  MapsTyped'
BY DEF MapsTyped, Sub!Add, Sub!At

\* So does removing a player from some topics, and topics from some players.
LEMMA RemoveTyped ==
    ASSUME MapsTyped
    PROVE  /\ \A ks, v : Sub!Remove(subscribers, ks, v)
                            \in [DOMAIN Sub!Remove(subscribers, ks, v) -> SUBSET Players]
           /\ \A ks, v : /\ DOMAIN Sub!Remove(perPlayer, ks, v) \subseteq Players
                         /\ Sub!Remove(perPlayer, ks, v)
                              \in [DOMAIN Sub!Remove(perPlayer, ks, v) -> SUBSET Topics]
           /\ \A k : /\ DOMAIN Sub!Drop(perPlayer, k) \subseteq Players
                     /\ Sub!Drop(perPlayer, k) \in [DOMAIN Sub!Drop(perPlayer, k) -> SUBSET Topics]
BY DEF MapsTyped, Sub!Remove, Sub!Drop

\* UnsubscribeAll of an id that is no player's changes nothing.
LEMMA RemoveNobody ==
    ASSUME MapsTyped, NEW p, p \notin Players, Sub!RemovePlayer(p)
    PROVE  UNCHANGED <<subscribers, perPlayer>>
<1>1. p \notin DOMAIN perPlayer
  BY DEF MapsTyped
<1>2. perPlayer' = perPlayer
  BY <1>1 DEF MapsTyped, Sub!RemovePlayer, Sub!Drop
<1>3. subscribers' = Sub!Remove(subscribers, {}, p)
  BY <1>1 DEF Sub!RemovePlayer, Sub!At
<1>4. subscribers' = subscribers
  BY <1>3 DEF MapsTyped, Sub!Remove
<1> QED
  BY <1>2, <1>4

\* A step of the server and the callback it makes, if it makes one: only
\* cleanupSession calls OnDisconnect, for the session it cleans up.
LEMMA ServerStepKinds ==
    ASSUME GameInv, ServerStep
    PROVE  \/ UNCHANGED <<subscribers, perPlayer, Online, Paired>>
           \/ \E p \in Players : /\ p \notin Online /\ Online' = Online \cup {p}
                                 /\ UNCHANGED <<subscribers, perPlayer, Paired>>
           \/ \E p \in Players : /\ p \in Online \ Paired /\ Paired' = Paired \cup {p}
                                 /\ UNCHANGED <<subscribers, perPlayer, Online>>
           \/ \E p \in Players : /\ p \in Online /\ Online' = Online \ {p}
                                 /\ Paired' = Paired \ {p}
                                 /\ Sub!RemovePlayer(p)
           \/ UNCHANGED <<Online, Paired>> /\ Sub!RemovePlayer(0)
<1>a. TypeInv /\ DisconnectAccounted /\ RegistryInv /\ [Next]_vars
  BY DEF GameInv, SessionInv, ServerStep
<1>b. /\ onDisconnect \in [Conns -> Nat]
      /\ authState \in [Conns -> AuthStates]
      /\ sessions \in [Players -> Conns \cup {None}]
      /\ None \notin Conns
  BY <1>a, ServerAssumption DEF TypeInv, TypeOK
<1>c. onDisconnect' = onDisconnect => UNCHANGED <<subscribers, perPlayer>>
  BY DEF ServerStep
<1>d. \A p \in Players : sessions[p] # None =>
          ID[sessions[p]] = p /\ authState[sessions[p]] # "preLogin"
  BY <1>a DEF RegistryInv, RegistryConsistent
<1>1. CASE UNCHANGED <<ID, authState, udpAddr, sessions, udpSessions, onDisconnect>>
  BY <1>c, <1>1 DEF Online, Paired
<1>2. CASE LoginAccepted
  <2>1. PICK s \in Conns, p \in Players :
            /\ authState[s] = "preLogin"
            /\ sessions[p] = None
            /\ authState' = [authState EXCEPT ![s] = "awaitingUDP"]
            /\ sessions' = [sessions EXCEPT ![p] = s]
            /\ onDisconnect' = onDisconnect
    BY <1>a, <1>2, LoginChanges
  <2>2. p \notin Online /\ Online' = Online \cup {p}
    BY <1>b, <2>1 DEF Online
  <2>3. \A q \in Online : /\ sessions'[q] = sessions[q]
                          /\ authState'[sessions[q]] = authState[sessions[q]]
    BY <1>b, <1>d, <2>1, <2>2 DEF Online
  <2>4. sessions'[p] = s /\ authState'[s] = "awaitingUDP"
    BY <1>b, <2>1
  <2>5. Paired' = Paired
    BY <2>2, <2>3, <2>4 DEF Paired
  <2> QED
    BY <1>c, <2>1, <2>2, <2>5
<1>3. CASE HandshakePaired
  <2>1. PICK t \in Conns, p \in Players :
            /\ sessions[p] = t
            /\ authState[t] = "awaitingUDP"
            /\ authState' = [authState EXCEPT ![t] = "ready"]
            /\ UNCHANGED <<sessions, onDisconnect>>
    BY <1>a, <1>3, PairingChanges
  <2>2. p \in Online \ Paired /\ Online' = Online
    BY <1>b, <2>1 DEF Online, Paired
  <2>3. \A q \in Online : q # p => sessions[q] # t
    BY <1>b, <1>d, <2>1 DEF Online
  <2>4. \A q \in Online :
            authState'[sessions[q]] = IF q = p THEN "ready" ELSE authState[sessions[q]]
    BY <1>b, <2>1, <2>3 DEF Online
  <2>5. Paired' = Paired \cup {p}
    BY <2>1, <2>2, <2>4 DEF Paired
  <2> QED
    BY <1>c, <2>1, <2>2, <2>5
<1>4. CASE Cleanup
  <2>1. PICK s \in Conns :
            /\ onDisconnect[s] = 0
            /\ ID[s] # 0 => ID[s] \in Players /\ sessions[ID[s]] = s
            /\ \A p \in Players :
                  sessions'[p] = IF ID[s] # 0 /\ p = ID[s] THEN None ELSE sessions[p]
            /\ onDisconnect' = [onDisconnect EXCEPT ![s] = @ + 1]
            /\ authState' = authState
    BY <1>a, <1>4, CleanupChanges
  <2>2. onDisconnect'[s] # onDisconnect[s]
    BY <1>b, <2>1
  <2>3. PICK t \in Conns : onDisconnect'[t] # onDisconnect[t] /\ OnDisconnectHook(t)
    BY <2>2 DEF ServerStep
  <2>4. t = s
    BY <1>b, <2>1, <2>3
  <2>5. Sub!RemovePlayer(ID[s])
    BY <2>3, <2>4 DEF OnDisconnectHook
  <2>6. CASE ID[s] = 0
    <3>1. Online' = Online /\ Paired' = Paired
      BY <2>1, <2>6 DEF Online, Paired
    <3> QED
      BY <2>5, <2>6, <3>1
  <2>7. CASE ID[s] # 0
    <3>1. ID[s] \in Players /\ ID[s] \in Online /\ Online' = Online \ {ID[s]}
      BY <1>b, <2>1, <2>7 DEF Online
    <3>2. Paired' = Paired \ {ID[s]}
      BY <2>1, <2>7, <3>1 DEF Paired, Online
    <3> QED
      BY <2>5, <3>1, <3>2
  <2> QED
    BY <2>6, <2>7
<1> QED
  BY <1>a, <1>1, <1>2, <1>3, <1>4, TablesChange

\* A handler runs for a player who is online.
LEMMA HandlerPlayerOnline ==
    ASSUME GameInv, pc = "handler"
    PROVE  ID[cur] \in Players /\ ID[cur] \in Online
<1>1. cur \in Conns /\ authState[cur] = "ready" /\ sessions[ID[cur]] # None
  BY DEF GameInv, SessionInv, TypeInv, TickOK, CallInv, HandlerInv
<1>2. ID[cur] \in Players
  BY <1>1 DEF GameInv, SessionInv, IDInv
<1> QED
  BY <1>1, <1>2 DEF Online

\* A publication sends to registered sessions only, and changes nothing else
\* that the session invariant is about.
LEMMA PublishKeepsSessions ==
    ASSUME GameInv, Publish
    PROVE  SessionInv'
<1> USE DEF sessionVars, registryVars, drainVars, tickVars, discVars, sendVars, clientVars
<1>a. SessionInv
  BY DEF GameInv
<1>1. UNCHANGED <<ID, authState, udpAddr, silence, fired, tcp, sendTCP, outq, reader,
                  sessions, udpSessions, events, taken, snap, pc, cur,
                  client, sent, datagrams, onDisconnect, lost>>
  BY DEF Publish
<1>2. fan' \subseteq fan \cup Registered
  <2>1. PICK t \in Topics, tr \in Sub!Transports :
            fan' = IF tr = "TCP" THEN {sessions[p] : p \in Sub!Reach(t, tr)} ELSE fan
    BY DEF Publish
  <2>2. Sub!Reach(t, "TCP") \subseteq Online
    BY DEF Sub!Reach
  <2> QED
    BY <2>1, <2>2 DEF Registered, Online
<1>3. \A s \in Registered : s \in Conns /\ authState[s] # "preLogin"
  <2>1. /\ sessions \in [Players -> Conns \cup {None}]
        /\ \A p \in Players : sessions[p] # None => authState[sessions[p]] # "preLogin"
    BY <1>a DEF SessionInv, TypeInv, TypeOK, RegistryInv, RegistryConsistent
  <2> QED
    BY <2>1 DEF Registered
<1>4. TypeInv'
  BY <1>a, <1>1, <1>2, <1>3 DEF SessionInv, TypeInv, TypeOK, TickOK
<1>5. CallInv'
  BY <1>a, <1>1, <1>2, <1>3 DEF SessionInv, CallInv
<1>6. (DisconnectAccounted /\ RegistryInv /\ StartInv)'
  BY <1>a, <1>1 DEF SessionInv, DisconnectAccounted, Pending, PendingAt, RegistryInv,
                    RegistryConsistent, NoIDBeforeLogin, StartInv, FrameIn
<1>7. (PairInv /\ ReadyReachable /\ IDInv /\ RouteInv /\ HandlerInv)'
  BY <1>a, <1>1 DEF SessionInv, PairInv, ReadyReachable, IDInv, RouteInv, HandlerInv
<1> QED
  BY <1>4, <1>5, <1>6, <1>7 DEF SessionInv

\* Every step of the game keeps the sessions' invariant and the maps typed.
LEMMA NextGame == GameInv /\ [GameNext]_gameVars => GameInv'
<1> SUFFICES ASSUME GameInv, [GameNext]_gameVars PROVE GameInv'
  OBVIOUS
<1>a. SessionInv /\ MapsTyped
  BY DEF GameInv
<1>1. CASE ServerStep
  <2>1. SessionInv'
    BY <1>a, <1>1, NextSession DEF ServerStep
  <2>2. UNCHANGED <<subscribers, perPlayer>> \/ \E p : Sub!RemovePlayer(p)
    BY <1>1, ServerStepKinds
  <2>3. MapsTyped'
    <3>1. CASE UNCHANGED <<subscribers, perPlayer>>
      BY <1>a, <3>1 DEF MapsTyped
    <3>2. CASE \E p : Sub!RemovePlayer(p)
      BY <1>a, <3>2, RemoveTyped DEF MapsTyped, Sub!RemovePlayer
    <3> QED
      BY <2>2, <3>1, <3>2
  <2> QED
    BY <2>1, <2>3 DEF GameInv
<1>2. CASE HandlerSubscribes
  <2>1. SessionInv'
    BY <1>a, <1>2, NextSession DEF HandlerSubscribes
  <2>2. ID[cur] \in Players
    BY <1>2, HandlerPlayerOnline DEF HandlerSubscribes
  <2>3. PICK t \in Topics : Sub!AddPlayer(ID[cur], t) \/ Sub!Unsubscribe(ID[cur], t)
    BY <1>2 DEF HandlerSubscribes
  <2>4. CASE Sub!AddPlayer(ID[cur], t)
    BY <1>a, <2>1, <2>2, <2>4, AddTyped DEF Sub!AddPlayer, GameInv
  <2>5. CASE Sub!Unsubscribe(ID[cur], t)
    BY <1>a, <2>1, <2>5, RemoveTyped DEF MapsTyped, Sub!Unsubscribe, GameInv
  <2> QED
    BY <2>3, <2>4, <2>5
<1>4. CASE Publish
  <2>1. MapsTyped'
    BY <1>a, <1>4 DEF Publish, MapsTyped, Sub!PublishOver, Sub!maps
  <2> QED
    BY <1>4, <2>1, PublishKeepsSessions DEF GameInv
<1>5. CASE UNCHANGED gameVars
  <2>1. SessionInv'
    BY <1>a, <1>5, NextSession DEF gameVars
  <2>2. MapsTyped'
    BY <1>a, <1>5 DEF gameVars, topicVars, MapsTyped
  <2> QED
    BY <2>1, <2>2 DEF GameInv
<1> QED
  BY <1>1, <1>2, <1>4, <1>5 DEF GameNext

\* Every step of the game is one of the manager's, or none.
LEMMA NextUsesSubManager ==
    ASSUME GameInv, [GameNext]_gameVars
    PROVE  [Sub!Next]_Sub!vars
<1> USE DEF sessionVars, registryVars, drainVars, tickVars, discVars, sendVars, clientVars
<1>a. MapsTyped
  BY DEF GameInv
<1>1. CASE ServerStep
  <2>a. reached' = reached
    BY <1>1 DEF ServerStep
  <2>1. CASE UNCHANGED <<subscribers, perPlayer, Online, Paired>>
    BY <2>a, <2>1 DEF Sub!vars
  <2>2. CASE \E p \in Players : /\ p \notin Online /\ Online' = Online \cup {p}
                                /\ UNCHANGED <<subscribers, perPlayer, Paired>>
    <3>1. \E p \in Players : Sub!Connect(p)
      BY <2>a, <2>2 DEF Sub!Connect, Sub!maps
    <3> QED
      BY <3>1 DEF Sub!Next
  <2>6. CASE \E p \in Players : /\ p \in Online \ Paired /\ Paired' = Paired \cup {p}
                                /\ UNCHANGED <<subscribers, perPlayer, Online>>
    <3>1. \E p \in Players : Sub!Pair(p)
      BY <2>a, <2>6 DEF Sub!Pair, Sub!maps
    <3> QED
      BY <3>1 DEF Sub!Next
  <2>3. CASE \E p \in Players : /\ p \in Online /\ Online' = Online \ {p}
                                /\ Paired' = Paired \ {p}
                                /\ Sub!RemovePlayer(p)
    <3>1. \E p \in Players : Sub!OnDisconnect(p)
      BY <2>a, <2>3 DEF Sub!OnDisconnect
    <3> QED
      BY <3>1 DEF Sub!Next
  <2>4. CASE UNCHANGED <<Online, Paired>> /\ Sub!RemovePlayer(0) /\ 0 \in Players
    <3>1. Sub!UnsubscribeAll(0)
      BY <2>a, <2>4 DEF Sub!UnsubscribeAll, Sub!players
    <3> QED
      BY <2>4, <3>1 DEF Sub!Next
  <2>5. CASE UNCHANGED <<Online, Paired>> /\ Sub!RemovePlayer(0) /\ 0 \notin Players
    <3>1. UNCHANGED <<subscribers, perPlayer>>
      BY <1>a, <2>5, RemoveNobody
    <3> QED
      BY <2>a, <2>5, <3>1 DEF Sub!vars
  <2> QED
    BY <1>1, <2>1, <2>2, <2>3, <2>4, <2>5, <2>6, ServerStepKinds
<1>2. CASE HandlerSubscribes
  <2>1. ID[cur] \in Players /\ ID[cur] \in Online
    BY <1>2, HandlerPlayerOnline DEF HandlerSubscribes
  <2>2. Online' = Online /\ Paired' = Paired
    BY <1>2 DEF HandlerSubscribes, vars, Online, Paired
  <2>3. \E t \in Topics : Sub!Subscribe(ID[cur], t) \/ Sub!Unsubscribe(ID[cur], t)
    BY <1>2, <2>1, <2>2 DEF HandlerSubscribes, Sub!Subscribe, Sub!players
  <2> QED
    BY <2>1, <2>3 DEF Sub!Next
<1>4. CASE Publish
  BY <1>4 DEF Publish, Sub!Next
<1>5. CASE UNCHANGED gameVars
  BY <1>5 DEF gameVars, topicVars, vars, Online, Paired, Sub!vars
<1> QED
  BY <1>1, <1>2, <1>4, <1>5 DEF GameNext

\* The game uses the manager as the manager expects, whatever is still queued
\* behind a teardown: no handler subscribes a player who is gone, and no player
\* goes without its subscriptions.  So the manager's theorems hold of the game.
THEOREM GameUsesSubManager == GameSpec => UsesSubManager
<1>1. GameInit => GameInv
  <2> SUFFICES ASSUME GameInit PROVE GameInv
    OBVIOUS
  <2>1. SessionInv
    BY InitSession DEF GameInit
  <2>2. MapsTyped
    BY DEF GameInit, MapsTyped, Sub!Empty
  <2> QED
    BY <2>1, <2>2 DEF GameInv
<1>2. GameInit => Sub!Init
  BY DEF GameInit, Init, Sub!Init, Online, Paired
<1>3. GameInv /\ [GameNext]_gameVars => [Sub!Next]_Sub!vars
  BY NextUsesSubManager
<1> QED
  BY <1>1, <1>2, <1>3, NextGame, PTL DEF GameSpec, UsesSubManager, Sub!Spec

\* What is proved of the manager for callers that keep to its protocol.
SubThms == INSTANCE SubManagerProofs WITH connected <- Online, paired <- Paired

\* The manager that those theorems are about is the game's.
LEMMA SameManager == Sub!Spec => SubThms!Spec
<1>1. Sub!Init => SubThms!Init
  BY DEF Sub!Init, SubThms!Init, Sub!Empty, SubThms!Empty
<1>h. \A m, k : Sub!At(m, k) = SubThms!At(m, k)
  BY DEF Sub!At, SubThms!At
<1>i. ASSUME NEW m, NEW k, NEW v
      PROVE  Sub!Add(m, k, v) = SubThms!Add(m, k, v)
  BY <1>h DEF Sub!Add, SubThms!Add
<1>j. ASSUME NEW m, NEW ks, NEW v
      PROVE  Sub!Remove(m, ks, v) = SubThms!Remove(m, ks, v)
  BY DEF Sub!Remove, SubThms!Remove
<1>k. ASSUME NEW m, NEW k
      PROVE  Sub!Drop(m, k) = SubThms!Drop(m, k)
  BY DEF Sub!Drop, SubThms!Drop
<1>a. /\ \A m, k, v : Sub!Add(m, k, v) = SubThms!Add(m, k, v)
      /\ \A m, ks, v : Sub!Remove(m, ks, v) = SubThms!Remove(m, ks, v)
      /\ \A m, k : Sub!Drop(m, k) = SubThms!Drop(m, k)
      /\ \A m, k : Sub!At(m, k) = SubThms!At(m, k)
  BY <1>h, <1>i, <1>j, <1>k
<1>b. \A p : Sub!RemovePlayer(p) => SubThms!RemovePlayer(p)
  BY <1>a DEF Sub!RemovePlayer, SubThms!RemovePlayer
<1> USE DEF Sub!maps, SubThms!maps, Sub!players, SubThms!players
<1>c. \A p : /\ Sub!Connect(p) => SubThms!Connect(p)
             /\ Sub!Pair(p) => SubThms!Pair(p)
             /\ Sub!OnDisconnect(p) => SubThms!OnDisconnect(p)
             /\ Sub!UnsubscribeAll(p) => SubThms!UnsubscribeAll(p)
  BY <1>b DEF Sub!Connect, SubThms!Connect, Sub!Pair, SubThms!Pair, Sub!OnDisconnect,
              SubThms!OnDisconnect, Sub!UnsubscribeAll, SubThms!UnsubscribeAll
<1>d. \A p, t : /\ Sub!Subscribe(p, t) => SubThms!Subscribe(p, t)
                /\ Sub!Unsubscribe(p, t) => SubThms!Unsubscribe(p, t)
  BY <1>a DEF Sub!Subscribe, SubThms!Subscribe, Sub!AddPlayer, SubThms!AddPlayer,
              Sub!Unsubscribe, SubThms!Unsubscribe
<1>e. \A t, tr : Sub!PublishOver(t, tr) => SubThms!PublishOver(t, tr)
  BY <1>a DEF Sub!PublishOver, SubThms!PublishOver, Sub!Reach, SubThms!Reach
<1>2. [Sub!Next]_Sub!vars => [SubThms!Next]_SubThms!vars
  BY <1>c, <1>d, <1>e DEF Sub!Next, SubThms!Next, Sub!vars, SubThms!vars,
                          Sub!Transports, SubThms!Transports
<1> QED
  BY <1>1, <1>2, PTL DEF Sub!Spec, SubThms!Spec

\* So the two maps stay each other's inverse under everything the server does
\* with the game: UnsubscribeAll in OnDisconnect finds every subscription.
THEOREM GameMapsInverse == GameSpec => []MapsInverse
<1>1. SubThms!Spec => []SubThms!MapsInverse
  BY SubThms!MapsStayInverse
<1>2. SubThms!MapsInverse => MapsInverse
  BY DEF MapsInverse, Sub!MapsInverse, SubThms!MapsInverse, Sub!At, SubThms!At
<1> QED
  BY <1>1, <1>2, SameManager, GameUsesSubManager, PTL DEF UsesSubManager

\* No entry of either map is ever left empty, whichever handlers ran and
\* however their sessions ended: topic names that clients make up are freed.
THEOREM GameMapsTight == GameSpec => []MapsStayTight
<1>1. SubThms!Spec => []SubThms!TypeOK
  BY SubThms!NoEmptyEntries
<1>2. SubThms!TypeOK => MapsStayTight
  BY DEF MapsStayTight, Sub!TypeOK, SubThms!TypeOK
<1> QED
  BY <1>1, <1>2, SameManager, GameUsesSubManager, PTL DEF UsesSubManager

\* And a player who is no longer in s.sessions is in none of the manager's
\* maps, whichever way its session ended.
THEOREM GameLeaversLeaveNothing == GameSpec => []NoneLeftBehind
<1>1. SubThms!Spec => []SubThms!NoneLeftBehind
  BY SubThms!LeaversLeaveNothing
<1>2. SubThms!NoneLeftBehind => NoneLeftBehind
  BY DEF NoneLeftBehind, Sub!NoneLeftBehind, SubThms!NoneLeftBehind, Sub!At, SubThms!At
<1> QED
  BY <1>1, <1>2, SameManager, GameUsesSubManager, PTL DEF UsesSubManager

\* Together: the server with the game implements the relation of module
\* Subscriptions, and a publication is sent to exactly the players of
\* s.sessions that it relates to the topic, over UDP to those of them that
\* have paired.
THEOREM GameImplementsSubscriptions == GameSpec => ImplementsSubscriptions
<1>1. SubThms!Subs!AInit => Sub!Subs!AInit
  BY DEF Sub!Subs!AInit, SubThms!Subs!AInit, Sub!At, SubThms!At
<1>2. ASSUME NEW p
      PROVE  /\ SubThms!Subs!Join(p) => Sub!Subs!Join(p)
             /\ SubThms!Subs!GetReady(p) => Sub!Subs!GetReady(p)
             /\ SubThms!Subs!Leave(p) => Sub!Subs!Leave(p)
             /\ SubThms!Subs!UnfollowAll(p) => Sub!Subs!UnfollowAll(p)
  BY DEF Sub!Subs!Join, SubThms!Subs!Join, Sub!Subs!GetReady, SubThms!Subs!GetReady,
         Sub!Subs!Leave, SubThms!Subs!Leave, Sub!Subs!UnfollowAll, SubThms!Subs!UnfollowAll,
         Sub!At, SubThms!At
<1>3. ASSUME NEW p, NEW t
      PROVE  /\ SubThms!Subs!Follow(p, t) => Sub!Subs!Follow(p, t)
             /\ SubThms!Subs!Unfollow(p, t) => Sub!Subs!Unfollow(p, t)
  BY DEF Sub!Subs!Follow, SubThms!Subs!Follow, Sub!Subs!Unfollow, SubThms!Subs!Unfollow,
         Sub!At, SubThms!At
<1>4. ASSUME NEW t
      PROVE  SubThms!Subs!Announce(t) => Sub!Subs!Announce(t)
  BY DEF Sub!Subs!Announce, SubThms!Subs!Announce, Sub!At, SubThms!At
<1>5. SubThms!Subs!avars' = SubThms!Subs!avars => Sub!Subs!avars' = Sub!Subs!avars
  BY DEF Sub!Subs!avars, SubThms!Subs!avars, Sub!At, SubThms!At
<1>6. [SubThms!Subs!ANext]_(SubThms!Subs!avars) => [Sub!Subs!ANext]_(Sub!Subs!avars)
  BY <1>2, <1>3, <1>4, <1>5 DEF Sub!Subs!ANext, SubThms!Subs!ANext
<1>7. SubThms!Subs!ASpec => Sub!Subs!ASpec
  BY <1>1, <1>6, PTL DEF Sub!Subs!ASpec, SubThms!Subs!ASpec
<1>8. SubThms!Spec => SubThms!Subs!ASpec
  BY SubThms!ManagerImplementsRelation DEF SubThms!ImplementsSubscriptions
<1> QED
  BY <1>7, <1>8, SameManager, GameUsesSubManager, PTL
  DEF UsesSubManager, ImplementsSubscriptions, Sub!ImplementsSubscriptions
=============================================================================
