---------------------------- MODULE ServerProofs ----------------------------
(***************************************************************************)
(* Theorems about module Server, for every value of its constants.         *)
(***************************************************************************)
EXTENDS ServerProperties, TLAPS

\* What the tick goroutine's place in its loop says about the drained batch
\* and the session it is serving; with TypeOK it is inductive.
TickOK ==
    /\ pc \in {"idle", "ping", "onTick"} => taken = 0
    /\ pc = "drain" => taken <= snap /\ snap <= Len(events)
    /\ pc \in {"handler", "rpc"} => cur \in Conns

TypeInv == TypeOK /\ TickOK

-----------------------------------------------------------------------------
(* Sequences of events *)

\* The events each goroutine pushes are events.
LEMMA EventsTyped ==
    /\ \A c \in Conns : DisconnectEvent(c) \in Events
    /\ \A c \in Conns, f \in AllTcpFrames : TcpEvent(c, f) \in Events
    /\ \A a \in Addrs, f \in AllUdpFrames : UdpEvent(a, f) \in Events
    /\ \A a \in Addrs, p \in Players, t \in Conns : HandshakeEvent(a, p, t) \in Events
BY DEF Events, TcpEvents, UdpEvents, HandshakeEvents, DisconnectEvents,
       TcpEvent, UdpEvent, HandshakeEvent, DisconnectEvent

\* Consume takes the head of a batch that is not empty, between two handlers.
LEMMA ConsumeOK ==
    ASSUME TypeInv, NEW e, Consume(e)
    PROVE  /\ events # <<>>
           /\ e = Head(events)
           /\ Tail(events) \in Seq(Events)
           /\ Len(Tail(events)) = Len(events) - 1
           /\ taken \in 1 .. Len(events)
           /\ taken' = taken - 1
           /\ pc = "handle"
           /\ snap' = snap
           /\ reader' = reader
           /\ clientVars' = clientVars
BY DEF Consume, TypeInv, TypeOK, clientVars

\* PushDisconnect adds at most one event, and only to a channel with room.
LEMMA PushDisconnectOK ==
    ASSUME TypeInv, NEW s \in Conns, NEW q \in Seq(Events), PushDisconnect(s, q)
    PROVE  /\ events' \in Seq(Events)
           /\ \/ Len(events') = Len(q)
              \/ Len(events') = Len(q) + 1 /\ HasRoom
           /\ fired' \in [Conns -> BOOLEAN]
           /\ lost' \in SUBSET Conns
<1>1. /\ events' \in Seq(Events)
      /\ \/ Len(events') = Len(q)
         \/ Len(events') = Len(q) + 1 /\ HasRoom
  <2>1. CASE events' = q
    BY <2>1
  <2>2. CASE events' = Append(q, DisconnectEvent(s)) /\ HasRoom
    <3>1. DisconnectEvent(s) \in Events
      BY EventsTyped
    <3> HIDE DEF DisconnectEvent, Events, HasRoom
    <3> QED
      BY <2>2, <3>1
  <2> QED
    BY <2>1, <2>2 DEF PushDisconnect
<1>2. fired' \in [Conns -> BOOLEAN]
  <2>1. fired \in [Conns -> BOOLEAN]
    BY DEF TypeInv, TypeOK
  <2> QED
    BY <2>1, Zenon DEF PushDisconnect
<1>3. lost' \in SUBSET Conns
  BY DEF PushDisconnect, TypeInv, TypeOK
<1> QED
  BY <1>1, <1>2, <1>3

\* scheduleDisconnect does the same and may close a socket.
LEMMA ScheduleDisconnectOK ==
    ASSUME TypeInv, NEW s \in Conns, NEW q \in Seq(Events), ScheduleDisconnect(s, q)
    PROVE  /\ events' \in Seq(Events)
           /\ \/ Len(events') = Len(q)
              \/ Len(events') = Len(q) + 1 /\ HasRoom
           /\ fired' \in [Conns -> BOOLEAN]
           /\ lost' \in SUBSET Conns
           /\ tcp' \in [Conns -> BOOLEAN]
<1>1. PushDisconnect(s, q)
  BY DEF ScheduleDisconnect
<1>2. tcp' \in [Conns -> BOOLEAN]
  BY Zenon DEF ScheduleDisconnect, TypeInv, TypeOK
<1> QED
  BY <1>1, <1>2, PushDisconnectOK

\* pushTCP touches the outbound channel or schedules the disconnect.
LEMMA PushTCPOK ==
    ASSUME TypeInv, NEW s \in Conns, NEW m \in ServerFrames, NEW q \in Seq(Events),
           PushTCP(s, m, q)
    PROVE  /\ events' \in Seq(Events)
           /\ \/ Len(events') = Len(q)
              \/ Len(events') = Len(q) + 1 /\ HasRoom
           /\ fired' \in [Conns -> BOOLEAN]
           /\ lost' \in SUBSET Conns
           /\ tcp' \in [Conns -> BOOLEAN]
           /\ outq' \in [Conns -> Seq(ServerFrames)]
           /\ sendTCP' = sendTCP
<1>1. sendTCP' = sendTCP
  BY DEF PushTCP
<1>2. CASE UNCHANGED <<fired, lost, tcp>> /\ events' = q
  <2>1. outq' \in [Conns -> Seq(ServerFrames)]
    <3>1. outq \in [Conns -> Seq(ServerFrames)]
      BY DEF TypeInv, TypeOK
    <3>2. CASE outq' = outq
      BY <3>1, <3>2
    <3>3. CASE outq' = [outq EXCEPT ![s] = Append(@, m)]
      <4>1. Append(outq[s], m) \in Seq(ServerFrames)
        BY <3>1
      <4> QED
        BY <3>1, <3>3, <4>1
    <3> QED
      BY <3>2, <3>3 DEF PushTCP
  <2> QED
    BY <1>1, <1>2, <2>1 DEF TypeInv, TypeOK
<1>3. CASE ScheduleDisconnect(s, q) /\ UNCHANGED outq
  BY <1>1, <1>3, ScheduleDisconnectOK DEF TypeInv, TypeOK
<1> QED
  BY <1>2, <1>3 DEF PushTCP

-----------------------------------------------------------------------------
(* Type correctness *)

\* The queue's part of TypeInv, for a step that consumes nothing and pushes at
\* most one event.
LEMMA QueueGrows ==
    ASSUME TypeInv, events' \in Seq(Events), taken' = taken, snap' = snap,
           \/ Len(events') = Len(events)
           \/ Len(events') = Len(events) + 1 /\ HasRoom
    PROVE  /\ taken' \in 0 .. Len(events')
           /\ Len(events') - taken' <= EventDepth
           /\ snap' \in 0 .. EventDepth
           /\ pc = "drain" => taken' <= snap' /\ snap' <= Len(events')
           /\ pc \in {"idle", "ping", "onTick"} => taken' = 0
BY ServerAssumption DEF TypeInv, TypeOK, TickOK, HasRoom

\* The same for a handler: what Consume leaves, with at most one event behind it.
LEMMA QueueMoves ==
    ASSUME TypeInv, NEW e, Consume(e), events' \in Seq(Events),
           \/ Len(events') = Len(Tail(events))
           \/ Len(events') = Len(Tail(events)) + 1 /\ HasRoom
    PROVE  /\ taken' \in 0 .. Len(events')
           /\ Len(events') - taken' <= EventDepth
           /\ snap' \in 0 .. EventDepth
<1>1. /\ Len(Tail(events)) = Len(events) - 1
      /\ taken \in 1 .. Len(events)
      /\ taken' = taken - 1
      /\ snap' = snap
  BY ConsumeOK
<1>2. /\ Len(events) \in Nat
      /\ Len(events') \in Nat
      /\ Len(events) - taken <= EventDepth
      /\ snap \in 0 .. EventDepth
  BY DEF TypeInv, TypeOK
<1> QED
  BY <1>1, <1>2, ServerAssumption DEF HasRoom

\* NewServer starts with every field in its type and an empty queue.
LEMMA InitTypeInv == Init => TypeInv
<1> SUFFICES ASSUME Init PROVE TypeInv
  OBVIOUS
<1>1. TypeOK
  <2>1. /\ ID \in [Conns -> Players \cup {0}]
        /\ authState \in [Conns -> AuthStates]
        /\ udpAddr \in [Conns -> Addrs \cup {None}]
        /\ silence \in [Conns -> 0 .. PingTimeout + 1]
        /\ sent \in [Conns -> 0 .. MaxFrames]
        /\ datagrams \in 0 .. MaxDatagrams
        /\ onDisconnect \in [Conns -> Nat]
    BY ServerAssumption DEF Init, AuthStates
  <2>2. /\ fired \in [Conns -> BOOLEAN]
        /\ tcp \in [Conns -> BOOLEAN]
    BY Zenon DEF Init
  <2>3. /\ sendTCP \in [Conns -> {"open", "nil"}]
        /\ reader \in [Conns -> ReaderStates]
        /\ client \in [Conns -> ClientStates]
        /\ pc \in TickPcs
        /\ cur \in Conns \cup {None}
        /\ fan \in SUBSET Conns
        /\ lost \in SUBSET Conns
    BY DEF Init, ReaderStates, ClientStates, TickPcs
  <2>4. /\ outq \in [Conns -> Seq(ServerFrames)]
        /\ sessions \in [Players -> Conns \cup {None}]
        /\ udpSessions \in [Addrs -> Conns \cup {None}]
    BY DEF Init
  <2>5. /\ events \in Seq(Events)
        /\ taken \in 0 .. Len(events)
        /\ snap \in 0 .. EventDepth
        /\ Len(events) - taken <= EventDepth
    BY ServerAssumption DEF Init
  <2> QED
    BY <2>1, <2>2, <2>3, <2>4, <2>5 DEF TypeOK
<1>2. TickOK
  BY DEF Init, TickOK
<1> QED
  BY <1>1, <1>2 DEF TypeInv

\* The steps of the I/O goroutines preserve TypeInv.
LEMMA ReadingTypeInv == TypeInv /\ Reading => TypeInv'
<1> SUFFICES ASSUME TypeInv, Reading PROVE TypeInv'
  OBVIOUS
<1> USE DEF sessionVars, registryVars, drainVars, tickVars, discVars, sendVars, clientVars
<1>1. ASSUME NEW c \in Conns, Accept(c) PROVE TypeInv'
  BY <1>1 DEF Accept, TypeInv, TypeOK, TickOK, ReaderStates
<1>2. ASSUME NEW c \in Conns, ReaderExit(c) PROVE TypeInv'
  <2>1. fired' \in [Conns -> BOOLEAN]
    BY <1>2, Zenon DEF ReaderExit, TypeInv, TypeOK
  <2>2. reader' \in [Conns -> ReaderStates]
    BY <1>2 DEF ReaderExit, TypeInv, TypeOK, ReaderStates
  <2> QED
    BY <1>2, <2>1, <2>2 DEF ReaderExit, TypeInv, TypeOK, TickOK
<1>9. ASSUME NEW c \in Conns, ReportExit(c) PROVE TypeInv'
  <2>1. DisconnectEvent(c) \in Events
    BY EventsTyped
  <2>2. /\ events' \in Seq(Events)
        /\ \/ Len(events') = Len(events)
           \/ Len(events') = Len(events) + 1 /\ HasRoom
    <3>1. events \in Seq(Events)
      BY DEF TypeInv, TypeOK
    <3> HIDE DEF DisconnectEvent, Events
    <3> QED
      BY <1>9, <2>1, <3>1 DEF ReportExit
  <2>3. taken' = taken /\ snap' = snap /\ pc' = pc
    BY <1>9 DEF ReportExit
  <2>4. reader' \in [Conns -> ReaderStates] /\ lost' \in SUBSET Conns
    BY <1>9 DEF ReportExit, TypeInv, TypeOK, ReaderStates
  <2>5. TypeOK'
    BY <1>9, <2>2, <2>3, <2>4, QueueGrows DEF ReportExit, TypeInv, TypeOK
  <2>6. TickOK'
    BY <1>9, <2>2, <2>3, QueueGrows DEF ReportExit, TypeInv, TickOK
  <2> QED
    BY <2>5, <2>6 DEF TypeInv
<1>3. ASSUME NEW c \in Conns, CloseConn(c) PROVE TypeInv'
  BY <1>3 DEF CloseConn, TypeInv, TypeOK, TickOK, ReaderStates
<1>4. ASSUME NEW c \in Conns, WriteNext(c) PROVE TypeInv'
  <2>1. outq' \in [Conns -> Seq(ServerFrames)]
    <3>1. outq \in [Conns -> Seq(ServerFrames)]
      BY DEF TypeInv, TypeOK
    <3>2. Tail(outq[c]) \in Seq(ServerFrames)
      BY <1>4, <3>1 DEF WriteNext
    <3> QED
      BY <1>4, <3>1, <3>2 DEF WriteNext
  <2>2. client' \in [Conns -> ClientStates]
    BY <1>4 DEF WriteNext, TypeInv, TypeOK, ClientStates
  <2> QED
    BY <1>4, <2>1, <2>2 DEF WriteNext, TypeInv, TypeOK, TickOK
<1>5. ASSUME NEW c \in Conns, NEW f \in TcpFrames, ReadMessage(c, f) PROVE TypeInv'
  <2>1. TcpEvent(c, f) \in Events
    BY EventsTyped, ServerAssumption
  <2>2. /\ events' \in Seq(Events)
        /\ \/ Len(events') = Len(events)
           \/ Len(events') = Len(events) + 1 /\ HasRoom
    <3>1. events \in Seq(Events)
      BY DEF TypeInv, TypeOK
    <3> HIDE DEF TcpEvent
    <3> QED
      BY <1>5, <2>1, <3>1 DEF ReadMessage
  <2>3. taken' = taken /\ snap' = snap /\ pc' = pc
    BY <1>5 DEF ReadMessage
  <2>4. /\ reader' \in [Conns -> ReaderStates]
        /\ client' \in [Conns -> ClientStates]
        /\ sent' \in [Conns -> 0 .. MaxFrames]
    <3>1. reader' \in [Conns -> ReaderStates]
      BY <1>5 DEF ReadMessage, TypeInv, TypeOK, ReaderStates
    <3>2. client' \in [Conns -> ClientStates]
      BY <1>5 DEF ReadMessage, TypeInv, TypeOK, ClientStates
    <3>3. sent' \in [Conns -> 0 .. MaxFrames]
      BY <1>5, ServerAssumption DEF ReadMessage, TypeInv, TypeOK
    <3> QED
      BY <3>1, <3>2, <3>3
  <2>5. TypeOK'
    BY <1>5, <2>2, <2>3, <2>4, QueueGrows DEF ReadMessage, TypeInv, TypeOK
  <2>6. TickOK'
    BY <1>5, <2>2, <2>3, QueueGrows DEF ReadMessage, TypeInv, TickOK
  <2> QED
    BY <2>5, <2>6 DEF TypeInv
<1>6. ASSUME NEW e \in Events, ReadDatagram(e) PROVE TypeInv'
  <2>1. /\ events' \in Seq(Events)
        /\ Len(events') = Len(events) + 1 /\ HasRoom
    BY <1>6 DEF ReadDatagram, TypeInv, TypeOK
  <2>2. taken' = taken /\ snap' = snap /\ pc' = pc
    BY <1>6 DEF ReadDatagram
  <2>3. datagrams' \in 0 .. MaxDatagrams
    BY <1>6, ServerAssumption DEF ReadDatagram, TypeInv, TypeOK
  <2>4. TypeOK'
    BY <1>6, <2>1, <2>2, <2>3, QueueGrows DEF ReadDatagram, TypeInv, TypeOK
  <2>5. TickOK'
    BY <1>6, <2>1, <2>2, QueueGrows DEF ReadDatagram, TypeInv, TickOK
  <2> QED
    BY <2>4, <2>5 DEF TypeInv
<1>7. CASE ReadHandshake
  <2>1. PICK t \in Conns, p \in Players, a \in Addrs :
            ReadDatagram(HandshakeEvent(a, p, t))
    BY <1>7, ServerAssumption DEF ReadHandshake
  <2>2. HandshakeEvent(a, p, t) \in Events
    BY EventsTyped
  <2> QED
    BY <1>6, <2>1, <2>2
<1>8. CASE ReadUDP
  <2>1. PICK a \in Addrs, f \in UdpFrames : ReadDatagram(UdpEvent(a, f))
    BY <1>8 DEF ReadUDP
  <2>2. UdpEvent(a, f) \in Events
    BY EventsTyped, ServerAssumption
  <2> QED
    BY <1>6, <2>1, <2>2
<1> QED
  BY <1>1, <1>2, <1>3, <1>4, <1>5, <1>7, <1>8, <1>9 DEF Reading

\* Handling an event preserves TypeInv.
LEMMA HandleEventTypeInv == TypeInv /\ HandleEvent => TypeInv'
<1> SUFFICES ASSUME TypeInv, HandleEvent PROVE TypeInv'
  OBVIOUS
<1> USE DEF sessionVars, registryVars, drainVars, tickVars, sendVars, clientVars
<1>a. ASSUME NEW e, Consume(e), events' = Tail(events)
      PROVE  /\ events' \in Seq(Events)
             /\ taken' \in 0 .. Len(events')
             /\ Len(events') - taken' <= EventDepth
             /\ snap' \in 0 .. EventDepth
  <2>1. events' \in Seq(Events)
    BY <1>a, ConsumeOK
  <2> QED
    BY <1>a, <2>1, QueueMoves
<1>b. ASSUME NEW e, Consume(e)
      PROVE  /\ pc = "handle"
             /\ Tail(events) \in Seq(Events)
             /\ reader' = reader /\ client' = client /\ sent' = sent /\ datagrams' = datagrams
  BY <1>b, ConsumeOK
<1>c. ASSUME NEW a \in Addrs
      PROVE  Heard(a) \in [Conns -> 0 .. PingTimeout + 1]
  BY ServerAssumption DEF Heard, TypeInv, TypeOK
<1>1. CASE DropFrame
  <2>1. PICK s \in Conns, f \in AllTcpFrames : Consume(TcpEvent(s, f)) /\ events' = Tail(events)
    BY <1>1 DEF DropFrame
  <2> QED
    BY <1>1, <1>a, <1>b, <2>1 DEF DropFrame, TypeInv, TypeOK, TickOK
<1>2. CASE Malformed
  <2>1. PICK s \in Conns : /\ Consume(TcpEvent(s, "malformed"))
                           /\ ScheduleDisconnect(s, Tail(events))
    BY <1>2 DEF Malformed
  <2>2. Tail(events) \in Seq(Events)
    BY <1>b, <2>1
  <2>3. /\ events' \in Seq(Events)
        /\ \/ Len(events') = Len(Tail(events))
           \/ Len(events') = Len(Tail(events)) + 1 /\ HasRoom
        /\ fired' \in [Conns -> BOOLEAN]
        /\ lost' \in SUBSET Conns
        /\ tcp' \in [Conns -> BOOLEAN]
    BY <2>1, <2>2, ScheduleDisconnectOK
  <2>4. /\ taken' \in 0 .. Len(events')
        /\ Len(events') - taken' <= EventDepth
        /\ snap' \in 0 .. EventDepth
    BY <2>1, <2>3, QueueMoves
  <2> QED
    BY <1>2, <1>b, <2>1, <2>3, <2>4 DEF Malformed, TypeInv, TypeOK, TickOK
<1>3. CASE Pong
  <2>1. PICK s \in Conns : /\ Consume(TcpEvent(s, "pong"))
                           /\ events' = Tail(events)
                           /\ silence' = [silence EXCEPT ![s] = 0]
    BY <1>3 DEF Pong
  <2>2. silence' \in [Conns -> 0 .. PingTimeout + 1]
    BY <2>1, ServerAssumption DEF TypeInv, TypeOK
  <2> QED
    BY <1>3, <1>a, <1>b, <2>1, <2>2 DEF Pong, TypeInv, TypeOK, TickOK
<1>4. CASE LoginRejected
  <2>1. PICK s \in Conns :
            /\ Consume(TcpEvent(s, "login"))
            /\ LoginFailed(s)
            /\ ScheduleDisconnect(s, Tail(events))
    BY <1>4 DEF LoginRejected
  <2>2. Tail(events) \in Seq(Events)
    BY <1>b, <2>1
  <2>3. /\ events' \in Seq(Events)
        /\ \/ Len(events') = Len(Tail(events))
           \/ Len(events') = Len(Tail(events)) + 1 /\ HasRoom
        /\ fired' \in [Conns -> BOOLEAN]
        /\ lost' \in SUBSET Conns
        /\ tcp' \in [Conns -> BOOLEAN]
    BY <2>1, <2>2, ScheduleDisconnectOK
  <2>4. /\ taken' \in 0 .. Len(events')
        /\ Len(events') - taken' <= EventDepth
        /\ snap' \in 0 .. EventDepth
    BY <2>1, <2>3, QueueMoves
  <2>5. outq' \in [Conns -> Seq(ServerFrames)]
    <3>1. outq \in [Conns -> Seq(ServerFrames)]
      BY DEF TypeInv, TypeOK
    <3>2. Append(outq[s], LoginResponse(FALSE)) \in Seq(ServerFrames)
      BY <3>1 DEF ServerFrames, LoginResponse
    <3> QED
      BY <2>1, <3>1, <3>2 DEF LoginFailed
  <2> QED
    BY <1>4, <1>b, <2>1, <2>3, <2>4, <2>5 DEF LoginRejected, TypeInv, TypeOK, TickOK
<1>5. CASE LoginAccepted
  <2>1. PICK s \in Conns, p \in Players :
            /\ Consume(TcpEvent(s, "login"))
            /\ ID' = [ID EXCEPT ![s] = p]
            /\ authState' = [authState EXCEPT ![s] = "awaitingUDP"]
            /\ sessions' = [sessions EXCEPT ![p] = s]
            /\ PushTCP(s, LoginResponse(TRUE), Tail(events))
    BY <1>5 DEF LoginAccepted
  <2>2. Tail(events) \in Seq(Events) /\ LoginResponse(TRUE) \in ServerFrames
    BY <1>b, <2>1 DEF ServerFrames, LoginResponse
  <2>3. /\ events' \in Seq(Events)
        /\ \/ Len(events') = Len(Tail(events))
           \/ Len(events') = Len(Tail(events)) + 1 /\ HasRoom
        /\ fired' \in [Conns -> BOOLEAN]
        /\ lost' \in SUBSET Conns
        /\ tcp' \in [Conns -> BOOLEAN]
        /\ outq' \in [Conns -> Seq(ServerFrames)]
        /\ sendTCP' = sendTCP
    BY <2>1, <2>2, PushTCPOK
  <2>4. /\ taken' \in 0 .. Len(events')
        /\ Len(events') - taken' <= EventDepth
        /\ snap' \in 0 .. EventDepth
    BY <2>1, <2>3, QueueMoves
  <2>5. /\ ID' \in [Conns -> Players \cup {0}]
        /\ authState' \in [Conns -> AuthStates]
        /\ sessions' \in [Players -> Conns \cup {None}]
    BY <2>1 DEF TypeInv, TypeOK, AuthStates
  <2>8. /\ UNCHANGED <<udpAddr, silence, udpSessions, pc, cur, fan, onDisconnect>>
        /\ UNCHANGED <<reader, client, sent, datagrams>>
    BY <1>5, <1>b DEF LoginAccepted
  <2>6. TypeOK'
    BY <2>3, <2>4, <2>5, <2>8 DEF TypeInv, TypeOK
  <2>7. TickOK'
    BY <1>5, <1>b, <2>1 DEF LoginAccepted, TypeInv, TickOK
  <2> QED
    BY <2>6, <2>7 DEF TypeInv
<1>6. CASE HandshakePaired
  <2>1. PICK a \in Addrs, p \in Players, t \in Conns :
            /\ Consume(HandshakeEvent(a, p, t))
            /\ MayPair(p, t)
            /\ udpAddr' = [udpAddr EXCEPT ![sessions[p]] = a]
            /\ authState' = [authState EXCEPT ![sessions[p]] = "ready"]
            /\ silence' = [Heard(a) EXCEPT ![sessions[p]] = 0]
            /\ udpSessions' = [udpSessions EXCEPT ![a] = sessions[p]]
            /\ events' = Tail(events)
    BY <1>6 DEF HandshakePaired
  <2>2. silence' \in [Conns -> 0 .. PingTimeout + 1]
    <3>1. Heard(a) \in [Conns -> 0 .. PingTimeout + 1]
      BY <1>c
    <3>2. 0 \in 0 .. PingTimeout + 1
      BY ServerAssumption
    <3> QED
      BY <2>1, <3>1, <3>2
  <2>3. /\ udpAddr' \in [Conns -> Addrs \cup {None}]
        /\ authState' \in [Conns -> AuthStates]
        /\ udpSessions' \in [Addrs -> Conns \cup {None}]
    BY <2>1 DEF TypeInv, TypeOK, AuthStates, MayPair
  <2>7. /\ events' \in Seq(Events)
        /\ taken' \in 0 .. Len(events')
        /\ Len(events') - taken' <= EventDepth
        /\ snap' \in 0 .. EventDepth
    BY <1>a, <2>1
  <2>4. /\ UNCHANGED <<ID, fired, lost, tcp, sendTCP, outq, sessions, pc, cur, fan>>
        /\ UNCHANGED <<onDisconnect, reader, client, sent, datagrams>>
    BY <1>6, <1>b DEF HandshakePaired
  <2>8. TypeOK'
    BY <2>2, <2>3, <2>4, <2>7 DEF TypeInv, TypeOK
  <2>9. TickOK'
    BY <1>6, <1>b, <2>1 DEF HandshakePaired, TypeInv, TickOK
  <2> QED
    BY <2>8, <2>9 DEF TypeInv
<1>7. CASE HandshakeRefused
  <2>1. PICK a \in Addrs, p \in Players, t \in Conns :
            /\ Consume(HandshakeEvent(a, p, t))
            /\ silence' = Heard(a)
            /\ events' = Tail(events)
    BY <1>7 DEF HandshakeRefused
  <2> QED
    BY <1>7, <1>a, <1>b, <1>c, <2>1 DEF HandshakeRefused, TypeInv, TypeOK, TickOK
<1>8. CASE UdpQuiet
  <2>1. PICK a \in Addrs, f \in AllUdpFrames :
            /\ Consume(UdpEvent(a, f))
            /\ silence' = Heard(a)
            /\ events' = Tail(events)
    BY <1>8 DEF UdpQuiet
  <2> QED
    BY <1>8, <1>a, <1>b, <1>c, <2>1 DEF UdpQuiet, TypeInv, TypeOK, TickOK
<1>9. CASE GameOverTCP
  <2>1. PICK s \in Conns : /\ Consume(TcpEvent(s, "game"))
                           /\ pc' = "handler"
                           /\ cur' = s
                           /\ events' = Tail(events)
    BY <1>9 DEF GameOverTCP
  <2> QED
    BY <1>9, <1>a, <1>b, <2>1 DEF GameOverTCP, TypeInv, TypeOK, TickOK, TickPcs, CallbackPcs
<1>10. CASE GameOverUDP
  <2>1. PICK a \in Addrs : /\ Consume(UdpEvent(a, "game"))
                           /\ udpSessions[a] # None
                           /\ pc' = "handler"
                           /\ cur' = udpSessions[a]
                           /\ silence' = Heard(a)
                           /\ events' = Tail(events)
    BY <1>10 DEF GameOverUDP, Routed
  <2> QED
    BY <1>10, <1>a, <1>b, <1>c, <2>1
       DEF GameOverUDP, TypeInv, TypeOK, TickOK, TickPcs, CallbackPcs
<1>11. CASE RpcRefused
  <2>1. PICK s \in Conns : Consume(TcpEvent(s, "rpc")) /\ PushTCP(s, "data", Tail(events))
    BY <1>11 DEF RpcRefused
  <2>2. Tail(events) \in Seq(Events) /\ "data" \in ServerFrames
    BY <1>b, <2>1 DEF ServerFrames
  <2>3. /\ events' \in Seq(Events)
        /\ \/ Len(events') = Len(Tail(events))
           \/ Len(events') = Len(Tail(events)) + 1 /\ HasRoom
        /\ fired' \in [Conns -> BOOLEAN]
        /\ lost' \in SUBSET Conns
        /\ tcp' \in [Conns -> BOOLEAN]
        /\ outq' \in [Conns -> Seq(ServerFrames)]
        /\ sendTCP' = sendTCP
    BY <2>1, <2>2, PushTCPOK
  <2>4. /\ taken' \in 0 .. Len(events')
        /\ Len(events') - taken' <= EventDepth
        /\ snap' \in 0 .. EventDepth
    BY <2>1, <2>3, QueueMoves
  <2> QED
    BY <1>11, <1>b, <2>1, <2>3, <2>4 DEF RpcRefused, TypeInv, TypeOK, TickOK
<1>12. CASE RpcCalled
  <2>1. PICK s \in Conns : /\ Consume(TcpEvent(s, "rpc"))
                           /\ pc' = "rpc"
                           /\ cur' = s
                           /\ events' = Tail(events)
    BY <1>12 DEF RpcCalled
  <2> QED
    BY <1>12, <1>a, <1>b, <2>1 DEF RpcCalled, TypeInv, TypeOK, TickOK, TickPcs, CallbackPcs
<1>13. CASE Cleanup
  <2>1. PICK s \in Conns : /\ Consume(DisconnectEvent(s))
                           /\ sessions' = Unregister(s)
                           /\ udpSessions' = Unroute(s)
                           /\ tcp' = [tcp EXCEPT ![s] = FALSE]
                           /\ sendTCP' = [sendTCP EXCEPT ![s] = "nil"]
                           /\ outq' = [outq EXCEPT ![s] = <<>>]
                           /\ onDisconnect' = [onDisconnect EXCEPT ![s] = @ + 1]
                           /\ events' = Tail(events)
    BY <1>13 DEF Cleanup
  <2>2. /\ sessions' \in [Players -> Conns \cup {None}]
        /\ udpSessions' \in [Addrs -> Conns \cup {None}]
    BY <2>1 DEF TypeInv, TypeOK, Unregister, Unroute
  <2>3. /\ sendTCP' \in [Conns -> {"open", "nil"}]
        /\ outq' \in [Conns -> Seq(ServerFrames)]
        /\ onDisconnect' \in [Conns -> Nat]
    BY <2>1 DEF TypeInv, TypeOK
  <2>4. tcp' \in [Conns -> BOOLEAN]
    BY <2>1 DEF TypeInv, TypeOK
  <2>7. /\ events' \in Seq(Events)
        /\ taken' \in 0 .. Len(events')
        /\ Len(events') - taken' <= EventDepth
        /\ snap' \in 0 .. EventDepth
    BY <1>a, <2>1
  <2>5. /\ UNCHANGED <<ID, authState, udpAddr, silence, fired, lost, pc, cur, fan>>
        /\ UNCHANGED <<reader, client, sent, datagrams>>
    BY <1>13, <1>b DEF Cleanup
  <2>8. TypeOK'
    BY <2>2, <2>3, <2>4, <2>5, <2>7 DEF TypeInv, TypeOK
  <2>9. TickOK'
    BY <1>13, <1>b, <2>1 DEF Cleanup, TypeInv, TickOK
  <2> QED
    BY <2>8, <2>9 DEF TypeInv
<1> QED
  BY <1>1, <1>2, <1>3, <1>4, <1>5, <1>6, <1>7, <1>8, <1>9, <1>10, <1>11, <1>12, <1>13
     DEF HandleEvent

\* The other steps of the tick and of the callbacks preserve TypeInv.
LEMMA LoopTypeInv ==
    TypeInv /\ (TickStart \/ DrainOne \/ DrainDone \/ PingStart \/ PingTimedOut \/ PingDone
                \/ CallbackCall \/ CallbackReturn) => TypeInv'
<1> SUFFICES ASSUME TypeInv,
                    \/ TickStart \/ DrainOne \/ DrainDone \/ PingStart \/ PingTimedOut
                    \/ PingDone \/ CallbackCall \/ CallbackReturn
             PROVE  TypeInv'
  OBVIOUS
<1> USE DEF sessionVars, registryVars, drainVars, tickVars, discVars, sendVars, clientVars
<1>a. Registered \subseteq Conns
  BY DEF Registered, TypeInv, TypeOK
<1>b. ASSUME NEW s \in Conns, ScheduleDisconnect(s, events), UNCHANGED <<taken, snap>>
      PROVE  /\ events' \in Seq(Events)
             /\ fired' \in [Conns -> BOOLEAN]
             /\ lost' \in SUBSET Conns
             /\ tcp' \in [Conns -> BOOLEAN]
             /\ taken' \in 0 .. Len(events')
             /\ Len(events') - taken' <= EventDepth
             /\ snap' \in 0 .. EventDepth
  <2>1. events \in Seq(Events)
    BY DEF TypeInv, TypeOK
  <2>2. /\ events' \in Seq(Events)
        /\ \/ Len(events') = Len(events)
           \/ Len(events') = Len(events) + 1 /\ HasRoom
        /\ fired' \in [Conns -> BOOLEAN]
        /\ lost' \in SUBSET Conns
        /\ tcp' \in [Conns -> BOOLEAN]
    BY <1>b, <2>1, ScheduleDisconnectOK
  <2> QED
    BY <1>b, <2>2, QueueGrows
<1>c. ASSUME NEW s \in Conns, PushTCP(s, "data", events), UNCHANGED <<taken, snap>>
      PROVE  /\ events' \in Seq(Events)
             /\ fired' \in [Conns -> BOOLEAN]
             /\ lost' \in SUBSET Conns
             /\ tcp' \in [Conns -> BOOLEAN]
             /\ outq' \in [Conns -> Seq(ServerFrames)]
             /\ sendTCP' = sendTCP
             /\ taken' \in 0 .. Len(events')
             /\ Len(events') - taken' <= EventDepth
             /\ snap' \in 0 .. EventDepth
  <2>1. events \in Seq(Events) /\ "data" \in ServerFrames
    BY DEF TypeInv, TypeOK, ServerFrames
  <2>2. /\ events' \in Seq(Events)
        /\ \/ Len(events') = Len(events)
           \/ Len(events') = Len(events) + 1 /\ HasRoom
        /\ fired' \in [Conns -> BOOLEAN]
        /\ lost' \in SUBSET Conns
        /\ tcp' \in [Conns -> BOOLEAN]
        /\ outq' \in [Conns -> Seq(ServerFrames)]
        /\ sendTCP' = sendTCP
    BY <1>c, <2>1, PushTCPOK
  <2> QED
    BY <1>c, <2>2, QueueGrows
<1>1. CASE TickStart
  <2>1. PICK d \in Elapsed :
            silence' = [s \in Conns |->
                IF s \in Registered /\ authState[s] = "ready" THEN Expire(s, d) ELSE silence[s]]
    BY <1>1 DEF TickStart
  <2>2. silence' \in [Conns -> 0 .. PingTimeout + 1]
    <3>1. /\ silence \in [Conns -> 0 .. PingTimeout + 1]
          /\ PingTimeout \in Nat /\ d \in Nat
      BY ServerAssumption DEF TypeInv, TypeOK
    <3>2. \A s \in Conns : Expire(s, d) \in 0 .. PingTimeout + 1
      BY <3>1 DEF Expire
    <3> QED
      BY <2>1, <3>1, <3>2
  <2>3. /\ pc' = "drain" /\ snap' = Len(events) /\ taken' = taken /\ taken = 0
        /\ UNCHANGED <<events, cur>>
    BY <1>1 DEF TickStart, TypeInv, TickOK
  <2>4. snap' \in 0 .. EventDepth
    BY <2>3 DEF TypeInv, TypeOK
  <2>5. UNCHANGED <<ID, authState, udpAddr, fired, lost, tcp, sendTCP, outq, reader,
                    sessions, udpSessions, fan, client, sent, datagrams, onDisconnect>>
    BY <1>1 DEF TickStart
  <2>6. TypeOK'
    BY <2>2, <2>3, <2>4, <2>5 DEF TypeInv, TypeOK, TickPcs
  <2>7. TickOK'
    BY <2>3 DEF TypeInv, TypeOK, TickOK
  <2> QED
    BY <2>6, <2>7 DEF TypeInv
<1>2. CASE DrainOne
  <2>1. /\ pc = "drain" /\ pc' = pc
        /\ taken \in Nat /\ snap \in Nat /\ Len(events) \in Nat
        /\ taken < snap /\ snap <= Len(events)
        /\ Len(events) - taken <= EventDepth
        /\ taken' = taken + 1 /\ events' = events /\ snap' = snap
    BY <1>2 DEF DrainOne, TypeInv, TypeOK, TickOK
  <2>2. /\ taken' \in 0 .. Len(events')
        /\ Len(events') - taken' <= EventDepth
        /\ taken' <= snap' /\ snap' <= Len(events')
    BY <2>1, ServerAssumption
  <2>3. TypeOK'
    BY <1>2, <2>2 DEF DrainOne, TypeInv, TypeOK
  <2>4. TickOK'
    BY <2>1, <2>2 DEF TickOK
  <2> QED
    BY <2>3, <2>4 DEF TypeInv
<1>3. CASE DrainDone
  BY <1>3 DEF DrainDone, TypeInv, TypeOK, TickOK, TickPcs
<1>4. CASE PingStart
  <2>1. Expired \subseteq Conns
    BY <1>a DEF Expired
  <2> QED
    BY <1>4, <2>1 DEF PingStart, TypeInv, TypeOK, TickOK, TickPcs
<1>5. CASE PingTimedOut
  <2>1. PICK s \in fan : fan' = fan \ {s} /\ ScheduleDisconnect(s, events)
    BY <1>5 DEF PingTimedOut
  <2>2. s \in Conns /\ fan' \in SUBSET Conns /\ UNCHANGED <<taken, snap>>
    BY <1>5, <2>1 DEF PingTimedOut, TypeInv, TypeOK
  <2> QED
    BY <1>5, <1>b, <2>1, <2>2 DEF PingTimedOut, TypeInv, TypeOK, TickOK
<1>6. CASE PingDone
  BY <1>6 DEF PingDone, TypeInv, TypeOK, TickOK, TickPcs, CallbackPcs
<1>7. CASE SendTCPTo
  <2>1. PICK p \in Players : sessions[p] # None /\ PushTCP(sessions[p], "data", events)
    BY <1>7 DEF SendTCPTo
  <2>2. sessions[p] \in Conns /\ UNCHANGED <<taken, snap>>
    BY <1>7, <2>1 DEF SendTCPTo, TypeInv, TypeOK
  <2>3. pc \in CallbackPcs
    BY <1>7 DEF SendTCPTo, InCallback
  <2> QED
    BY <1>7, <1>c, <2>1, <2>2, <2>3 DEF SendTCPTo, TypeInv, TypeOK, TickOK, CallbackPcs
<1>8. CASE BroadcastTCP
  BY <1>8, <1>a DEF BroadcastTCP, TypeInv, TypeOK, TickOK
<1>9. CASE BroadcastOne
  <2>1. PICK s \in fan : fan' = fan \ {s} /\ PushTCP(s, "data", events)
    BY <1>9 DEF BroadcastOne
  <2>2. s \in Conns /\ fan' \in SUBSET Conns /\ UNCHANGED <<taken, snap>>
    BY <1>9, <2>1 DEF BroadcastOne, TypeInv, TypeOK
  <2>3. pc \in CallbackPcs
    BY <1>9 DEF BroadcastOne
  <2> QED
    BY <1>9, <1>c, <2>1, <2>2, <2>3 DEF BroadcastOne, TypeInv, TypeOK, TickOK, CallbackPcs
<1>10. CASE Disconnect
  <2>1. PICK p \in Players : sessions[p] # None /\ ScheduleDisconnect(sessions[p], events)
    BY <1>10 DEF Disconnect
  <2>2. sessions[p] \in Conns /\ UNCHANGED <<taken, snap>>
    BY <1>10, <2>1 DEF Disconnect, TypeInv, TypeOK
  <2>3. pc \in CallbackPcs
    BY <1>10 DEF Disconnect, InCallback
  <2> QED
    BY <1>10, <1>b, <2>1, <2>2, <2>3 DEF Disconnect, TypeInv, TypeOK, TickOK, CallbackPcs
<1>11. CASE HandlerReturn
  BY <1>11 DEF HandlerReturn, TypeInv, TypeOK, TickOK, TickPcs
<1>12. CASE HandlerPanic
  <2>1. cur \in Conns /\ UNCHANGED <<taken, snap>>
    BY <1>12 DEF HandlerPanic, TypeInv, TickOK
  <2> QED
    BY <1>12, <1>b, <2>1 DEF HandlerPanic, TypeInv, TypeOK, TickOK, TickPcs
<1>13. CASE RpcReturn
  <2>1. cur \in Conns /\ UNCHANGED <<taken, snap>>
    BY <1>13 DEF RpcReturn, TypeInv, TickOK
  <2>2. CASE PushTCP(cur, "data", events)
    BY <1>13, <1>c, <2>1, <2>2 DEF RpcReturn, TypeInv, TypeOK, TickOK, TickPcs
  <2>3. CASE UNCHANGED <<discVars, sendVars>>
    BY <1>13, <2>3 DEF RpcReturn, TypeInv, TypeOK, TickOK, TickPcs
  <2> QED
    BY <1>13, <2>2, <2>3 DEF RpcReturn
<1>14. CASE OnTickReturn
  BY <1>14 DEF OnTickReturn, TypeInv, TypeOK, TickOK, TickPcs
<1> QED
  BY <1>1, <1>2, <1>3, <1>4, <1>5, <1>6, <1>7, <1>8, <1>9, <1>10, <1>11, <1>12, <1>13, <1>14
     DEF CallbackCall, CallbackReturn

\* A step that changes nothing preserves TypeInv.
LEMMA StutterTypeInv == TypeInv /\ UNCHANGED vars => TypeInv'
BY DEF TypeInv, TypeOK, TickOK, vars

\* TypeInv is inductive.
LEMMA NextTypeInv == TypeInv /\ [Next]_vars => TypeInv'
BY ReadingTypeInv, HandleEventTypeInv, LoopTypeInv, StutterTypeInv
   DEF Next, TickStep, CallbackCall

\* TypeInv holds in every reachable state.
LEMMA TypeInvHolds == Spec => []TypeInv
BY InitTypeInv, NextTypeInv, PTL DEF Spec

\* Every variable keeps its type, the event channel never holds more than
\* EventQueueDepth events and drain never takes more than it was promised.
THEOREM TypeCorrect == Spec => []TypeOK
<1>1. TypeInv => TypeOK
  BY DEF TypeInv
<1> QED
  BY <1>1, TypeInvHolds, PTL

-----------------------------------------------------------------------------
(* One disconnect per session *)

\* Where eventDisconnect of s is in a queue q.
Has(q, s)  == \E i \in 1 .. Len(q) : q[i] = DisconnectEvent(s)
Once(q, s) == \A i, j \in 1 .. Len(q) :
                  q[i] = DisconnectEvent(s) /\ q[j] = DisconnectEvent(s) => i = j

\* The sessions whose reader has swapped the flag and not pushed yet.
Firing == {s \in Conns : reader[s] = "firing"}

\* DisconnectAccounted for a queue, a set of flags, the two histories and the
\* readers about to push, some of which an action may be about to replace.
Accounted(q, f, n, l, r) ==
    \A s \in Conns :
        /\ Once(q, s)
        /\ n[s] \in {0, 1}
        /\ f[s] <=> s \in r \/ Has(q, s) \/ n[s] = 1 \/ s \in l
        /\ s \in r => ~Has(q, s) /\ n[s] = 0 /\ s \notin l
        /\ ~(Has(q, s) /\ n[s] = 1)
        /\ s \in l => ~Has(q, s) /\ n[s] = 0

\* DisconnectAccounted, with what it is about as parameters.
LEMMA AccountedIs == DisconnectAccounted <=> Accounted(events, fired, onDisconnect, lost, Firing)
BY DEF DisconnectAccounted, Accounted, Has, Once, Pending, PendingAt, Firing

\* eventDisconnect is told apart from the other events, and by its session.
LEMMA EventsDiffer ==
    ASSUME NEW s \in Conns
    PROVE  /\ \A t \in Conns : DisconnectEvent(s) = DisconnectEvent(t) => s = t
           /\ \A c, f : TcpEvent(c, f) # DisconnectEvent(s)
           /\ \A a, f : UdpEvent(a, f) # DisconnectEvent(s)
           /\ \A a, p, t : HandshakeEvent(a, p, t) # DisconnectEvent(s)
BY DEF DisconnectEvent, TcpEvent, UdpEvent, HandshakeEvent

\* Where an eventDisconnect is, and how often, once an event is pushed.
LEMMA AppendHas ==
    ASSUME NEW q \in Seq(Events), NEW e \in Events, NEW s \in Conns
    PROVE  /\ Has(Append(q, e), s) <=> Has(q, s) \/ e = DisconnectEvent(s)
           /\ Once(q, s) /\ ~(Has(q, s) /\ e = DisconnectEvent(s)) => Once(Append(q, e), s)
<1> DEFINE r == Append(q, e)
<1>1. /\ Len(q) \in Nat /\ Len(r) = Len(q) + 1
      /\ \A i \in 1 .. Len(q) : r[i] = q[i]
      /\ r[Len(q) + 1] = e
  OBVIOUS
<1> HIDE DEF r
<1> QED
  BY <1>1 DEF Has, Once, r

\* Where an eventDisconnect is, and how often, once the head is consumed.
LEMMA TailHas ==
    ASSUME NEW q \in Seq(Events), q # <<>>, NEW s \in Conns
    PROVE  /\ Has(q, s) <=> Head(q) = DisconnectEvent(s) \/ Has(Tail(q), s)
           /\ Once(q, s) => Once(Tail(q), s)
           /\ Once(q, s) /\ Head(q) = DisconnectEvent(s) => ~Has(Tail(q), s)
<1> DEFINE r == Tail(q)
<1>1. /\ Len(q) \in Nat /\ Len(q) > 0 /\ Len(r) = Len(q) - 1
      /\ \A i \in 1 .. Len(r) : r[i] = q[i + 1]
      /\ Head(q) = q[1]
  OBVIOUS
<1>2. \A j \in 2 .. Len(q) : j - 1 \in 1 .. Len(r) /\ r[j - 1] = q[j]
  <2> HIDE DEF r
  <2> QED
    BY <1>1
<1> HIDE DEF r
<1>3. Has(q, s) <=> Head(q) = DisconnectEvent(s) \/ Has(r, s)
  <2>1. ASSUME Has(q, s) PROVE Head(q) = DisconnectEvent(s) \/ Has(r, s)
    <3>1. PICK i \in 1 .. Len(q) : q[i] = DisconnectEvent(s)
      BY <2>1 DEF Has
    <3>2. CASE i = 1
      BY <1>1, <3>1, <3>2
    <3>3. CASE i # 1
      <4>1. i - 1 \in 1 .. Len(r) /\ r[i - 1] = DisconnectEvent(s)
        BY <1>1, <1>2, <3>1, <3>3
      <4> QED
        BY <4>1 DEF Has
    <3> QED
      BY <3>2, <3>3
  <2>2. ASSUME Head(q) = DisconnectEvent(s) PROVE Has(q, s)
    <3>1. 1 \in 1 .. Len(q) /\ q[1] = DisconnectEvent(s)
      BY <1>1, <2>2
    <3> QED
      BY <3>1 DEF Has
  <2>3. ASSUME Has(r, s) PROVE Has(q, s)
    <3>1. PICK i \in 1 .. Len(r) : r[i] = DisconnectEvent(s)
      BY <2>3 DEF Has
    <3>2. i + 1 \in 1 .. Len(q) /\ q[i + 1] = DisconnectEvent(s)
      BY <1>1, <3>1
    <3> QED
      BY <3>2 DEF Has
  <2> QED
    BY <2>1, <2>2, <2>3
<1>4. Once(q, s) => Once(r, s)
  <2> SUFFICES ASSUME Once(q, s), NEW i \in 1 .. Len(r), NEW j \in 1 .. Len(r),
                      r[i] = DisconnectEvent(s), r[j] = DisconnectEvent(s)
               PROVE  i = j
    BY DEF Once
  <2>1. /\ i + 1 \in 1 .. Len(q) /\ q[i + 1] = DisconnectEvent(s)
        /\ j + 1 \in 1 .. Len(q) /\ q[j + 1] = DisconnectEvent(s)
    BY <1>1
  <2>2. i + 1 = j + 1
    BY <2>1 DEF Once
  <2> QED
    BY <1>1, <2>2
<1>5. Once(q, s) /\ Head(q) = DisconnectEvent(s) => ~Has(r, s)
  <2> SUFFICES ASSUME Once(q, s), Head(q) = DisconnectEvent(s),
                      NEW i \in 1 .. Len(r), r[i] = DisconnectEvent(s)
               PROVE  FALSE
    BY DEF Has
  <2>1. /\ i + 1 \in 1 .. Len(q) /\ q[i + 1] = DisconnectEvent(s)
        /\ 1 \in 1 .. Len(q) /\ q[1] = DisconnectEvent(s)
    BY <1>1
  <2>2. i + 1 = 1
    BY <2>1 DEF Once
  <2> QED
    BY <1>1, <2>2
<1> QED
  BY <1>3, <1>4, <1>5 DEF r

\* Pushing an event that is no eventDisconnect leaves the accounts alone.
LEMMA AccountedOtherAppend ==
    ASSUME NEW q \in Seq(Events), NEW e \in Events, NEW f, NEW n, NEW l, NEW r,
           Accounted(q, f, n, l, r), \A s \in Conns : e # DisconnectEvent(s)
    PROVE  Accounted(Append(q, e), f, n, l, r)
BY AppendHas DEF Accounted

\* Consuming an event that is no eventDisconnect leaves the accounts alone.
LEMMA AccountedOtherTail ==
    ASSUME NEW q \in Seq(Events), q # <<>>, NEW f, NEW n, NEW l, NEW r,
           Accounted(q, f, n, l, r), \A s \in Conns : Head(q) # DisconnectEvent(s)
    PROVE  Accounted(Tail(q), f, n, l, r)
BY TailHas DEF Accounted

\* cleanupSession consumes the one event of a session and runs OnDisconnect.
LEMMA AccountedCleanup ==
    ASSUME NEW q \in Seq(Events), q # <<>>, NEW f, NEW n \in [Conns -> Nat], NEW l, NEW r,
           NEW c \in Conns, Accounted(q, f, n, l, r), Head(q) = DisconnectEvent(c)
    PROVE  Accounted(Tail(q), f, [n EXCEPT ![c] = @ + 1], l, r)
<1> DEFINE m == [n EXCEPT ![c] = @ + 1]
<1> SUFFICES ASSUME NEW s \in Conns
             PROVE  /\ Once(Tail(q), s)
                    /\ m[s] \in {0, 1}
                    /\ f[s] <=> s \in r \/ Has(Tail(q), s) \/ m[s] = 1 \/ s \in l
                    /\ s \in r => ~Has(Tail(q), s) /\ m[s] = 0 /\ s \notin l
                    /\ ~(Has(Tail(q), s) /\ m[s] = 1)
                    /\ s \in l => ~Has(Tail(q), s) /\ m[s] = 0
  BY DEF Accounted
<1>1. /\ Once(q, s)
      /\ n[s] \in {0, 1}
      /\ f[s] <=> s \in r \/ Has(q, s) \/ n[s] = 1 \/ s \in l
      /\ s \in r => ~Has(q, s) /\ n[s] = 0 /\ s \notin l
      /\ ~(Has(q, s) /\ n[s] = 1)
      /\ s \in l => ~Has(q, s) /\ n[s] = 0
  BY DEF Accounted
<1>2. /\ Has(q, s) <=> Head(q) = DisconnectEvent(s) \/ Has(Tail(q), s)
      /\ Once(Tail(q), s)
      /\ Head(q) = DisconnectEvent(s) => ~Has(Tail(q), s)
  BY <1>1, TailHas
<1>3. CASE s = c
  <2>1. Has(q, s) /\ ~Has(Tail(q), s)
    BY <1>2, <1>3
  <2>2. n[s] = 0 /\ m[s] = 1 /\ s \notin l /\ s \notin r
    BY <1>1, <1>3, <2>1
  <2> QED
    BY <1>1, <1>2, <2>1, <2>2
<1>4. CASE s # c
  <2>1. m[s] = n[s]
    BY <1>4
  <2>2. Head(q) # DisconnectEvent(s)
    BY <1>4, EventsDiffer
  <2> QED
    BY <1>1, <1>2, <2>1, <2>2
<1> QED
  BY <1>3, <1>4

\* disconnectOnce lets a session's event in once, or records its refusal.
LEMMA AccountedPush ==
    ASSUME TypeInv, NEW q \in Seq(Events), NEW c \in Conns, PushDisconnect(c, q),
           NEW n, NEW r, Accounted(q, fired, n, lost, r)
    PROVE  Accounted(events', fired', n, lost', r)
<1>1. CASE ~FirstTime(c)
  <2>1. events' = q /\ fired' = fired /\ lost' = lost
    BY <1>1 DEF PushDisconnect
  <2> QED
    BY <2>1
<1>2. CASE FirstTime(c)
  <2> SUFFICES ASSUME NEW s \in Conns
               PROVE  /\ Once(events', s)
                      /\ n[s] \in {0, 1}
                      /\ fired'[s] <=> s \in r \/ Has(events', s) \/ n[s] = 1 \/ s \in lost'
                      /\ s \in r => ~Has(events', s) /\ n[s] = 0 /\ s \notin lost'
                      /\ ~(Has(events', s) /\ n[s] = 1)
                      /\ s \in lost' => ~Has(events', s) /\ n[s] = 0
    BY DEF Accounted
  <2>1. /\ Once(q, s)
        /\ n[s] \in {0, 1}
        /\ fired[s] <=> s \in r \/ Has(q, s) \/ n[s] = 1 \/ s \in lost
        /\ s \in r => ~Has(q, s) /\ n[s] = 0 /\ s \notin lost
        /\ ~(Has(q, s) /\ n[s] = 1)
        /\ s \in lost => ~Has(q, s) /\ n[s] = 0
    BY DEF Accounted
  <2>2. fired' = [fired EXCEPT ![c] = TRUE] /\ fired \in [Conns -> BOOLEAN] /\ ~fired[c]
    BY <1>2 DEF PushDisconnect, TypeInv, TypeOK, FirstTime
  <2>3. s = c => fired'[s]
    BY <2>2, Zenon
  <2>4. s # c => (fired'[s] <=> fired[s])
    BY <2>2, Zenon
  <2>5. s = c => ~Has(q, s) /\ n[s] = 0 /\ s \notin lost /\ s \notin r
    BY <2>1, <2>2
  <2>6. CASE HasRoom
    <3>1. events' = Append(q, DisconnectEvent(c)) /\ lost' = lost
      BY <1>2, <2>6 DEF PushDisconnect
    <3>2. DisconnectEvent(c) \in Events /\ (DisconnectEvent(c) = DisconnectEvent(s) <=> s = c)
      BY EventsTyped, EventsDiffer
    <3>3. /\ Has(events', s) <=> Has(q, s) \/ s = c
          /\ Once(q, s) /\ ~(Has(q, s) /\ s = c) => Once(events', s)
      BY <3>1, <3>2, AppendHas
    <3> QED
      BY <2>1, <2>3, <2>4, <2>5, <3>1, <3>3
  <2>7. CASE ~HasRoom
    <3>1. events' = q /\ lost' = lost \cup {c}
      BY <1>2, <2>7 DEF PushDisconnect
    <3> QED
      BY <2>1, <2>3, <2>4, <2>5, <3>1
  <2> QED
    BY <2>6, <2>7
<1> QED
  BY <1>1, <1>2

\* pushTCP keeps the accounts: it disconnects through scheduleDisconnect.
LEMMA AccountedPushTCP ==
    ASSUME TypeInv, NEW q \in Seq(Events), NEW c \in Conns, NEW m, PushTCP(c, m, q),
           NEW n, NEW r, Accounted(q, fired, n, lost, r)
    PROVE  Accounted(events', fired', n, lost', r)
<1>1. CASE events' = q /\ UNCHANGED <<fired, lost>>
  BY <1>1
<1>2. CASE PushDisconnect(c, q)
  BY <1>2, AccountedPush
<1> QED
  BY <1>1, <1>2 DEF PushTCP, ScheduleDisconnect

\* At the start nobody is disconnected and nothing is pending.
LEMMA InitAccounted == Init => DisconnectAccounted
BY DEF Init, DisconnectAccounted, Pending, PendingAt

\* Every step keeps the accounts: DisconnectAccounted is inductive with TypeInv.
LEMMA NextAccounted ==
    TypeInv /\ DisconnectAccounted /\ [Next]_vars => DisconnectAccounted'
<1> SUFFICES ASSUME TypeInv, DisconnectAccounted, [Next]_vars
             PROVE  Accounted(events', fired', onDisconnect', lost', Firing')
  BY DEF DisconnectAccounted, Accounted, Has, Once, Pending, PendingAt, Firing
<1> USE DEF sessionVars, registryVars, drainVars, tickVars, discVars, sendVars, clientVars
<1>a. Accounted(events, fired, onDisconnect, lost, Firing)
  BY AccountedIs
<1>b. events \in Seq(Events) /\ onDisconnect \in [Conns -> Nat]
  BY DEF TypeInv, TypeOK
<1>c. ASSUME NEW e, Consume(e), \A s \in Conns : e # DisconnectEvent(s)
      PROVE  /\ Tail(events) \in Seq(Events)
             /\ Accounted(Tail(events), fired, onDisconnect, lost, Firing)
  <2>1. events # <<>> /\ e = Head(events) /\ Tail(events) \in Seq(Events)
    BY <1>c, ConsumeOK
  <2> QED
    BY <1>a, <1>b, <1>c, <2>1, AccountedOtherTail
<1>d. ASSUME NEW c, NEW f, Consume(TcpEvent(c, f))
      PROVE  /\ Tail(events) \in Seq(Events)
             /\ Accounted(Tail(events), fired, onDisconnect, lost, Firing)
  BY <1>c, <1>d, EventsDiffer
<1>e. reader \in [Conns -> ReaderStates] /\ fired \in [Conns -> BOOLEAN]
  BY DEF TypeInv, TypeOK
<1>f. reader' = reader => Firing' = Firing
  BY DEF Firing
<1>1. CASE UNCHANGED <<events, fired, onDisconnect, lost, Firing>>
  BY <1>1, <1>a
<1>2. ASSUME NEW c \in Conns, ReaderExit(c)
      PROVE  Accounted(events', fired', onDisconnect', lost', Firing')
  <2>1. CASE FirstTime(c)
    <3>1. /\ fired' = [fired EXCEPT ![c] = TRUE] /\ ~fired[c]
          /\ Firing' = Firing \cup {c}
          /\ UNCHANGED <<events, onDisconnect, lost>>
      BY <1>2, <1>e, <2>1 DEF ReaderExit, FirstTime, Firing, ReaderStates
    <3> SUFFICES ASSUME NEW s \in Conns
                 PROVE  /\ Once(events, s)
                        /\ onDisconnect[s] \in {0, 1}
                        /\ fired'[s] <=> \/ s \in Firing' \/ Has(events, s)
                                         \/ onDisconnect[s] = 1 \/ s \in lost
                        /\ s \in Firing' => ~Has(events, s) /\ onDisconnect[s] = 0 /\ s \notin lost
                        /\ ~(Has(events, s) /\ onDisconnect[s] = 1)
                        /\ s \in lost => ~Has(events, s) /\ onDisconnect[s] = 0
      BY <3>1 DEF Accounted
    <3>2. /\ Once(events, s)
          /\ onDisconnect[s] \in {0, 1}
          /\ fired[s] <=> \/ s \in Firing \/ Has(events, s)
                          \/ onDisconnect[s] = 1 \/ s \in lost
          /\ s \in Firing => ~Has(events, s) /\ onDisconnect[s] = 0 /\ s \notin lost
          /\ ~(Has(events, s) /\ onDisconnect[s] = 1)
          /\ s \in lost => ~Has(events, s) /\ onDisconnect[s] = 0
      BY <1>a DEF Accounted
    <3>3. s = c => fired'[s]
      BY <1>e, <3>1, Zenon
    <3>4. s # c => (fired'[s] <=> fired[s])
      BY <1>e, <3>1, Zenon
    <3>5. s = c => ~Has(events, s) /\ onDisconnect[s] = 0 /\ s \notin lost
      BY <3>1, <3>2
    <3> QED
      BY <3>1, <3>2, <3>3, <3>4, <3>5
  <2>2. CASE ~FirstTime(c)
    <3>1. Firing' = Firing /\ UNCHANGED <<events, fired, onDisconnect, lost>>
      BY <1>2, <1>e, <2>2 DEF ReaderExit, Firing, ReaderStates
    <3> QED
      BY <1>1, <3>1
  <2> QED
    BY <2>1, <2>2
<1>16. ASSUME NEW c \in Conns, ReportExit(c)
       PROVE  Accounted(events', fired', onDisconnect', lost', Firing')
  <2>1. /\ Firing' = Firing \ {c} /\ c \in Firing
        /\ UNCHANGED <<fired, onDisconnect>>
    BY <1>16, <1>e DEF ReportExit, Firing, ReaderStates
  <2> SUFFICES ASSUME NEW s \in Conns
               PROVE  /\ Once(events', s)
                      /\ onDisconnect[s] \in {0, 1}
                      /\ fired[s] <=> \/ s \in Firing' \/ Has(events', s)
                                      \/ onDisconnect[s] = 1 \/ s \in lost'
                      /\ s \in Firing' => ~Has(events', s) /\ onDisconnect[s] = 0 /\ s \notin lost'
                      /\ ~(Has(events', s) /\ onDisconnect[s] = 1)
                      /\ s \in lost' => ~Has(events', s) /\ onDisconnect[s] = 0
    BY <2>1 DEF Accounted
  <2>2. /\ Once(events, s)
        /\ onDisconnect[s] \in {0, 1}
        /\ fired[s] <=> \/ s \in Firing \/ Has(events, s)
                        \/ onDisconnect[s] = 1 \/ s \in lost
        /\ s \in Firing => ~Has(events, s) /\ onDisconnect[s] = 0 /\ s \notin lost
        /\ ~(Has(events, s) /\ onDisconnect[s] = 1)
        /\ s \in lost => ~Has(events, s) /\ onDisconnect[s] = 0
    BY <1>a DEF Accounted
  <2>3. CASE HasRoom
    <3>1. events' = Append(events, DisconnectEvent(c)) /\ lost' = lost
      BY <1>16, <2>3 DEF ReportExit
    <3>2. DisconnectEvent(c) \in Events /\ (DisconnectEvent(c) = DisconnectEvent(s) <=> s = c)
      BY EventsTyped, EventsDiffer
    <3>3. /\ Has(events', s) <=> Has(events, s) \/ s = c
          /\ Once(events, s) /\ ~(Has(events, s) /\ s = c) => Once(events', s)
      BY <1>b, <3>1, <3>2, AppendHas
    <3> QED
      BY <2>1, <2>2, <3>1, <3>3
  <2>4. CASE ~HasRoom
    <3>1. events' = events /\ lost' = lost \cup {c}
      BY <1>16, <2>4 DEF ReportExit
    <3> QED
      BY <2>1, <2>2, <3>1
  <2> QED
    BY <2>3, <2>4
<1>3. ASSUME NEW c \in Conns, NEW f \in TcpFrames, ReadMessage(c, f)
      PROVE  Accounted(events', fired', onDisconnect', lost', Firing')
  <2>1. TcpEvent(c, f) \in Events /\ \A s \in Conns : TcpEvent(c, f) # DisconnectEvent(s)
    BY EventsTyped, EventsDiffer, ServerAssumption
  <2>2. UNCHANGED <<fired, onDisconnect, lost, Firing>>
    BY <1>3, <1>e DEF ReadMessage, Firing, ReaderStates
  <2>3. CASE UNCHANGED events
    BY <1>1, <2>2, <2>3
  <2>4. CASE events' = Append(events, TcpEvent(c, f))
    BY <1>a, <1>b, <2>1, <2>2, <2>4, AccountedOtherAppend
  <2> QED
    BY <1>3, <2>3, <2>4 DEF ReadMessage
<1>4. ASSUME NEW e \in Events, ReadDatagram(e), \A s \in Conns : e # DisconnectEvent(s)
      PROVE  Accounted(events', fired', onDisconnect', lost', Firing')
  <2>1. events' = Append(events, e) /\ UNCHANGED <<fired, onDisconnect, lost, Firing>>
    BY <1>4, <1>f DEF ReadDatagram
  <2> QED
    BY <1>4, <1>a, <1>b, <2>1, AccountedOtherAppend
<1>5. CASE ReadHandshake
  <2>1. PICK t \in Conns, p \in Players, a \in Addrs :
            ReadDatagram(HandshakeEvent(a, p, t))
    BY <1>5, ServerAssumption DEF ReadHandshake
  <2> QED
    BY <1>4, <2>1, EventsTyped, EventsDiffer
<1>6. CASE ReadUDP
  <2>1. PICK a \in Addrs, f \in AllUdpFrames : ReadDatagram(UdpEvent(a, f))
    BY <1>6, ServerAssumption DEF ReadUDP
  <2> QED
    BY <1>4, <2>1, EventsTyped, EventsDiffer
<1>7. CASE Reading
  <2>1. ASSUME NEW c \in Conns, Accept(c) \/ CloseConn(c) \/ WriteNext(c)
        PROVE  UNCHANGED <<events, fired, onDisconnect, lost, Firing>>
    BY <2>1, <1>e DEF Accept, CloseConn, WriteNext, Firing, ReaderStates
  <2> QED
    BY <1>1, <1>2, <1>3, <1>5, <1>6, <1>7, <1>16, <2>1 DEF Reading
<1>8. CASE DropFrame \/ Pong \/ GameOverTCP \/ RpcCalled
  <2>1. PICK c, f : /\ Consume(TcpEvent(c, f))
                    /\ events' = Tail(events)
                    /\ UNCHANGED <<fired, onDisconnect, lost>>
    BY <1>8 DEF DropFrame, Pong, GameOverTCP, RpcCalled
  <2>2. Firing' = Firing
    BY <1>f, <2>1, ConsumeOK
  <2> QED
    BY <1>d, <2>1, <2>2
<1>9. CASE HandshakePaired \/ HandshakeRefused \/ UdpQuiet \/ GameOverUDP
  <2>1. PICK e : /\ Consume(e)
                 /\ \A s \in Conns : e # DisconnectEvent(s)
                 /\ events' = Tail(events)
                 /\ UNCHANGED <<fired, onDisconnect, lost>>
    BY <1>9, EventsDiffer DEF HandshakePaired, HandshakeRefused, UdpQuiet, GameOverUDP
  <2>2. Firing' = Firing
    BY <1>f, <2>1, ConsumeOK
  <2> QED
    BY <1>c, <2>1, <2>2
<1>10. CASE Malformed \/ LoginRejected
  <2>1. PICK s \in Conns, f \in {"malformed", "login"} :
                 /\ Consume(TcpEvent(s, f))
                 /\ PushDisconnect(s, Tail(events))
                 /\ UNCHANGED onDisconnect
    BY <1>10 DEF Malformed, LoginRejected, ScheduleDisconnect
  <2>2. Tail(events) \in Seq(Events) /\ Accounted(Tail(events), fired, onDisconnect, lost, Firing)
    BY <1>d, <2>1
  <2>3. Firing' = Firing
    BY <1>f, <2>1, ConsumeOK
  <2> QED
    BY <2>1, <2>2, <2>3, AccountedPush
<1>11. CASE LoginAccepted \/ RpcRefused
  <2>1. PICK s \in Conns, f \in {"login", "rpc"}, m \in {LoginResponse(TRUE), "data"} :
                 /\ Consume(TcpEvent(s, f))
                 /\ PushTCP(s, m, Tail(events))
                 /\ UNCHANGED onDisconnect
    BY <1>11 DEF LoginAccepted, RpcRefused
  <2>2. Tail(events) \in Seq(Events) /\ Accounted(Tail(events), fired, onDisconnect, lost, Firing)
    BY <1>d, <2>1
  <2>3. Firing' = Firing
    BY <1>f, <2>1, ConsumeOK
  <2> QED
    BY <2>1, <2>2, <2>3, AccountedPushTCP
<1>12. CASE Cleanup
  <2>1. PICK s \in Conns : /\ Consume(DisconnectEvent(s))
                           /\ onDisconnect' = [onDisconnect EXCEPT ![s] = @ + 1]
                           /\ events' = Tail(events)
                           /\ UNCHANGED <<fired, lost>>
    BY <1>12 DEF Cleanup
  <2>2. events # <<>> /\ Head(events) = DisconnectEvent(s)
    BY <2>1, ConsumeOK
  <2>3. Firing' = Firing
    BY <1>f, <2>1, ConsumeOK
  <2> QED
    BY <1>a, <1>b, <2>1, <2>2, <2>3, AccountedCleanup
<1>13. CASE PingTimedOut \/ Disconnect \/ HandlerPanic
  <2>1. PICK s \in Conns : PushDisconnect(s, events) /\ UNCHANGED <<onDisconnect, Firing>>
    BY <1>f, <1>13 DEF PingTimedOut, Disconnect, HandlerPanic, ScheduleDisconnect,
                       TypeInv, TypeOK, TickOK
  <2> QED
    BY <1>a, <1>b, <2>1, AccountedPush
<1>14. CASE SendTCPTo \/ BroadcastOne \/ RpcReturn
  <2>1. \/ \E s \in Conns : PushTCP(s, "data", events)
        \/ UNCHANGED <<events, fired, lost>>
    BY <1>14 DEF SendTCPTo, BroadcastOne, RpcReturn, TypeInv, TypeOK, TickOK
  <2>2. UNCHANGED <<onDisconnect, Firing>>
    BY <1>f, <1>14 DEF SendTCPTo, BroadcastOne, RpcReturn
  <2> QED
    BY <1>1, <1>a, <1>b, <2>1, <2>2, AccountedPushTCP
<1>15. CASE TickStart \/ DrainOne \/ DrainDone \/ PingStart \/ PingDone \/ BroadcastTCP
            \/ HandlerReturn \/ OnTickReturn \/ UNCHANGED vars
  BY <1>1, <1>f, <1>15 DEF TickStart, DrainOne, DrainDone, PingStart, PingDone, BroadcastTCP,
                     HandlerReturn, OnTickReturn, vars
<1> QED
  BY <1>7, <1>8, <1>9, <1>10, <1>11, <1>12, <1>13, <1>14, <1>15
     DEF Next, TickStep, HandleEvent, CallbackCall, CallbackReturn

\* Whichever goroutines race to disconnect a session, its eventDisconnect is
\* queued at most once and its OnDisconnect runs at most once, and a session
\* that is neither waiting for it nor past it met a full queue.
THEOREM DisconnectsAccounted == Spec => []DisconnectAccounted
<1>1. Init => DisconnectAccounted
  BY InitAccounted
<1>2. TypeInv /\ DisconnectAccounted /\ [Next]_vars => DisconnectAccounted'
  BY NextAccounted
<1> QED
  BY <1>1, <1>2, TypeInvHolds, PTL DEF Spec

-----------------------------------------------------------------------------
(* The registry *)

\* A session has an ID only once it has logged in.
NoIDBeforeLogin == \A s \in Conns : authState[s] = "preLogin" => ID[s] = 0

RegistryInv == RegistryConsistent /\ NoIDBeforeLogin

\* At the start both lookup tables are empty.
LEMMA InitRegistry == Init => RegistryInv
BY DEF Init, RegistryInv, RegistryConsistent, NoIDBeforeLogin

\* The session that Cleanup takes is the one its player's entry holds.
LEMMA CleanupOwnsEntry ==
    ASSUME TypeInv, DisconnectAccounted, RegistryInv,
           NEW s \in Conns, Consume(DisconnectEvent(s)), ID[s] # 0
    PROVE  ID[s] \in Players /\ sessions[ID[s]] = s
<1>1. events # <<>> /\ Head(events) = DisconnectEvent(s)
  BY ConsumeOK
<1>2. Pending(s)
  <2>1. 1 \in 1 .. Len(events) /\ events[1] = DisconnectEvent(s)
    BY <1>1 DEF TypeInv, TypeOK
  <2> QED
    BY <2>1 DEF Pending, PendingAt
<1>3. onDisconnect[s] = 0
  BY <1>2 DEF DisconnectAccounted
<1>4. authState[s] # "preLogin"
  BY DEF RegistryInv, NoIDBeforeLogin
<1> QED
  BY <1>3, <1>4 DEF RegistryInv, RegistryConsistent

\* Every step keeps s.sessions and the sessions' fields in agreement.
LEMMA NextRegistry ==
    TypeInv /\ DisconnectAccounted /\ RegistryInv /\ [Next]_vars => RegistryInv'
<1> SUFFICES ASSUME TypeInv, DisconnectAccounted, RegistryInv, [Next]_vars
             PROVE  RegistryInv'
  OBVIOUS
<1> USE DEF sessionVars, registryVars, drainVars, tickVars, discVars, sendVars, clientVars
<1>a. /\ ID \in [Conns -> Players \cup {0}]
      /\ authState \in [Conns -> AuthStates]
      /\ sessions \in [Players -> Conns \cup {None}]
      /\ onDisconnect \in [Conns -> Nat]
      /\ None \notin Conns
  BY ServerAssumption DEF TypeInv, TypeOK
<1>1. CASE UNCHANGED <<ID, authState, sessions, onDisconnect>>
  BY <1>1 DEF RegistryInv, RegistryConsistent, NoIDBeforeLogin
<1>2. CASE LoginAccepted
  <2>1. PICK s \in Conns, p \in Players :
            /\ authState[s] = "preLogin"
            /\ sessions[p] = None
            /\ ID' = [ID EXCEPT ![s] = p]
            /\ authState' = [authState EXCEPT ![s] = "awaitingUDP"]
            /\ sessions' = [sessions EXCEPT ![p] = s]
            /\ onDisconnect' = onDisconnect
    BY <1>2 DEF LoginAccepted, Free
  <2>2. ASSUME NEW r \in Players, sessions'[r] # None
        PROVE  ID'[sessions'[r]] = r /\ authState'[sessions'[r]] # "preLogin"
    <3>1. CASE r = p
      BY <1>a, <2>1, <3>1
    <3>2. CASE r # p
      <4>1. sessions'[r] = sessions[r] /\ sessions[r] \in Conns
        BY <1>a, <2>1, <2>2, <3>2
      <4>2. ID[sessions[r]] = r /\ authState[sessions[r]] # "preLogin"
        BY <4>1, <1>a DEF RegistryInv, RegistryConsistent
      <4>3. sessions[r] # s
        BY <2>1, <4>2
      <4> QED
        BY <1>a, <2>1, <4>1, <4>2, <4>3
    <3> QED
      BY <3>1, <3>2
  <2>3. ASSUME NEW t \in Conns, authState'[t] # "preLogin", onDisconnect'[t] = 0
        PROVE  ID'[t] \in Players /\ sessions'[ID'[t]] = t
    <3>1. CASE t = s
      BY <1>a, <2>1, <3>1
    <3>2. CASE t # s
      <4>1. ID'[t] = ID[t] /\ authState[t] # "preLogin" /\ onDisconnect[t] = 0
        BY <1>a, <2>1, <2>3, <3>2
      <4>2. ID[t] \in Players /\ sessions[ID[t]] = t
        BY <4>1 DEF RegistryInv, RegistryConsistent
      <4>3. ID[t] # p
        BY <1>a, <2>1, <4>2
      <4> QED
        BY <1>a, <2>1, <4>1, <4>2, <4>3
    <3> QED
      BY <3>1, <3>2
  <2>4. NoIDBeforeLogin'
    BY <1>a, <2>1 DEF RegistryInv, NoIDBeforeLogin
  <2> QED
    BY <2>2, <2>3, <2>4 DEF RegistryInv, RegistryConsistent
<1>3. CASE HandshakePaired
  <2>1. PICK t \in Conns : /\ authState[t] = "awaitingUDP"
                           /\ authState' = [authState EXCEPT ![t] = "ready"]
                           /\ UNCHANGED <<ID, sessions, onDisconnect>>
    BY <1>3 DEF HandshakePaired, MayPair
  <2>2. \A s \in Conns : authState'[s] = "preLogin" <=> authState[s] = "preLogin"
    BY <1>a, <2>1
  <2> QED
    BY <1>a, <2>1, <2>2 DEF RegistryInv, RegistryConsistent, NoIDBeforeLogin
<1>4. CASE Cleanup
  <2>1. PICK s \in Conns : /\ Consume(DisconnectEvent(s))
                           /\ sessions' = Unregister(s)
                           /\ onDisconnect' = [onDisconnect EXCEPT ![s] = @ + 1]
                           /\ UNCHANGED <<ID, authState>>
    BY <1>4 DEF Cleanup
  <2>2. ID[s] # 0 => ID[s] \in Players /\ sessions[ID[s]] = s
    BY <2>1, CleanupOwnsEntry
  <2>3. \A p \in Players : sessions'[p] = IF ID[s] # 0 /\ p = ID[s] THEN None ELSE sessions[p]
    BY <2>1 DEF Unregister
  <2>4. ASSUME NEW r \in Players, sessions'[r] # None
        PROVE  ID'[sessions'[r]] = r /\ authState'[sessions'[r]] # "preLogin"
    BY <2>1, <2>3, <2>4 DEF RegistryInv, RegistryConsistent
  <2>5. ASSUME NEW t \in Conns, authState'[t] # "preLogin", onDisconnect'[t] = 0
        PROVE  ID'[t] \in Players /\ sessions'[ID'[t]] = t
    <3>1. t # s
      BY <1>a, <2>1, <2>5
    <3>2. authState[t] # "preLogin" /\ onDisconnect[t] = 0
      BY <1>a, <2>1, <2>5, <3>1
    <3>3. ID[t] \in Players /\ sessions[ID[t]] = t
      BY <3>2 DEF RegistryInv, RegistryConsistent
    <3>4. ~(ID[s] # 0 /\ ID[t] = ID[s])
      BY <2>2, <3>1, <3>3
    <3> QED
      BY <2>1, <2>3, <3>3, <3>4
  <2> QED
    BY <2>1, <2>4, <2>5 DEF RegistryInv, RegistryConsistent, NoIDBeforeLogin
<1>5. CASE Reading
  BY <1>1, <1>5 DEF Reading, Accept, ReaderExit, ReportExit, CloseConn, WriteNext, ReadMessage,
                    ReadHandshake, ReadUDP, ReadDatagram
<1>6. CASE DropFrame \/ Malformed \/ Pong \/ LoginRejected \/ HandshakeRefused \/ UdpQuiet
           \/ GameOverTCP \/ GameOverUDP \/ RpcRefused \/ RpcCalled
  BY <1>1, <1>6 DEF DropFrame, Malformed, Pong, LoginRejected, HandshakeRefused, UdpQuiet,
                    GameOverTCP, GameOverUDP, RpcRefused, RpcCalled
<1>7. CASE TickStart \/ DrainOne \/ DrainDone \/ PingStart \/ PingTimedOut \/ PingDone
           \/ CallbackCall \/ CallbackReturn
  BY <1>1, <1>7 DEF TickStart, DrainOne, DrainDone, PingStart, PingTimedOut, PingDone,
                    CallbackCall, SendTCPTo, BroadcastTCP, BroadcastOne, Disconnect,
                    CallbackReturn, HandlerReturn, HandlerPanic, RpcReturn, OnTickReturn
<1>8. CASE UNCHANGED vars
  BY <1>1, <1>8 DEF vars
<1> QED
  BY <1>2, <1>3, <1>4, <1>5, <1>6, <1>7, <1>8 DEF Next, TickStep, HandleEvent, CallbackCall

\* The three inductive invariants hold together in every reachable state.
LEMMA RegistryInvHolds == Spec => [](TypeInv /\ DisconnectAccounted /\ RegistryInv)
BY InitRegistry, NextRegistry, TypeInvHolds, DisconnectsAccounted, PTL DEF Spec

\* An entry of s.sessions always belongs to an authenticated session with that
\* ID, and every authenticated session that is not torn down has its entry.
THEOREM RegistryIsConsistent == Spec => []RegistryConsistent
<1>1. RegistryInv => RegistryConsistent
  BY DEF RegistryInv
<1> QED
  BY <1>1, RegistryInvHolds, PTL

\* A player's entry only ever leaves s.sessions together with the OnDisconnect
\* of the session it holds, and is never overwritten.
THEOREM EntriesReleasedByCleanup == Spec => ReleasedByCleanup
<1> DEFINE Released ==
        \A p \in Players : sessions[p] # None /\ sessions'[p] # sessions[p] =>
            /\ sessions'[p] = None
            /\ onDisconnect'[sessions[p]] = onDisconnect[sessions[p]] + 1
<1>1. TypeInv /\ DisconnectAccounted /\ RegistryInv /\ [Next]_vars => [Released]_vars
  <2> SUFFICES ASSUME TypeInv, DisconnectAccounted, RegistryInv, Next PROVE Released
    OBVIOUS
  <2> USE DEF sessionVars, registryVars, drainVars, tickVars, discVars, sendVars, clientVars
  <2>a. /\ sessions \in [Players -> Conns \cup {None}]
        /\ onDisconnect \in [Conns -> Nat]
    BY DEF TypeInv, TypeOK
  <2>1. CASE UNCHANGED sessions
    BY <2>1
  <2>2. CASE LoginAccepted
    <3>1. PICK s \in Conns, p \in Players :
              sessions[p] = None /\ sessions' = [sessions EXCEPT ![p] = s]
      BY <2>2 DEF LoginAccepted, Free
    <3> QED
      BY <2>a, <3>1
  <2>3. CASE Cleanup
    <3>1. PICK s \in Conns : /\ Consume(DisconnectEvent(s))
                             /\ sessions' = Unregister(s)
                             /\ onDisconnect' = [onDisconnect EXCEPT ![s] = @ + 1]
      BY <2>3 DEF Cleanup
    <3>2. ID[s] # 0 => sessions[ID[s]] = s
      BY <3>1, CleanupOwnsEntry
    <3>3. \A p \in Players :
              sessions'[p] = IF ID[s] # 0 /\ p = ID[s] THEN None ELSE sessions[p]
      BY <3>1 DEF Unregister
    <3> QED
      BY <2>a, <3>1, <3>2, <3>3
  <2>4. CASE Reading
    BY <2>1, <2>4 DEF Reading, Accept, ReaderExit, ReportExit, CloseConn, WriteNext, ReadMessage,
                      ReadHandshake, ReadUDP, ReadDatagram
  <2>5. CASE DropFrame \/ Malformed \/ Pong \/ LoginRejected \/ HandshakePaired
             \/ HandshakeRefused \/ UdpQuiet \/ GameOverTCP \/ GameOverUDP \/ RpcRefused
             \/ RpcCalled
    BY <2>1, <2>5 DEF DropFrame, Malformed, Pong, LoginRejected, HandshakePaired,
                      HandshakeRefused, UdpQuiet, GameOverTCP, GameOverUDP, RpcRefused,
                      RpcCalled
  <2>6. CASE TickStart \/ DrainOne \/ DrainDone \/ PingStart \/ PingTimedOut \/ PingDone
             \/ CallbackCall \/ CallbackReturn
    BY <2>1, <2>6 DEF TickStart, DrainOne, DrainDone, PingStart, PingTimedOut, PingDone,
                      CallbackCall, SendTCPTo, BroadcastTCP, BroadcastOne, Disconnect,
                      CallbackReturn, HandlerReturn, HandlerPanic, RpcReturn, OnTickReturn
  <2> QED
    BY <2>2, <2>3, <2>4, <2>5, <2>6 DEF Next, TickStep, HandleEvent, CallbackCall
<1> QED
  BY <1>1, RegistryInvHolds, PTL DEF Spec, ReleasedByCleanup

=============================================================================
