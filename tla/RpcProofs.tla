----------------------------- MODULE RpcProofs ------------------------------
(***************************************************************************)
(* Proofs about module Rpc, for any number of calls, oneofs and message    *)
(* types and any depth of the outbound channel.                            *)
(***************************************************************************)
EXTENDS Rpc, TLAPS

\* Calls are made in the order of their correlation ids, and only calls that
\* were made and not answered are in the two queues.
CallsMade ==
    /\ \A c, d \in Cids : c < d /\ call[d] # "unsent" => call[c] # "unsent"
    /\ \A c \in Queued \cup Outbound : c \in Cids /\ call[c] = "pending"

\* A session that nobody will disconnect any more has no open connection.
EndInSight ==
    /\ ~registered => ~sock
    /\ fired => ~sock \/ Ends(inbox)

RInv == TypeOK /\ AnswersInOrder /\ CallAccountedFor /\ CallsMade /\ EndInSight

-----------------------------------------------------------------------------
(* The two queues *)

\* What a queue is after a push.
LEMMA AppendAt ==
    ASSUME NEW S, NEW q \in Seq(S), NEW e \in S
    PROVE  /\ Append(q, e) \in Seq(S) /\ Len(Append(q, e)) = Len(q) + 1
           /\ DOMAIN q = 1 .. Len(q) /\ Len(q) \in Nat
           /\ DOMAIN Append(q, e) = 1 .. Len(q) + 1
           /\ \A i \in DOMAIN q : Append(q, e)[i] = q[i] /\ q[i] \in S
           /\ Append(q, e)[Len(q) + 1] = e
OBVIOUS

\* What it is once its head is taken.
LEMMA TailAt ==
    ASSUME NEW S, NEW q \in Seq(S), q # <<>>
    PROVE  /\ Tail(q) \in Seq(S) /\ Len(Tail(q)) = Len(q) - 1
           /\ DOMAIN q = 1 .. Len(q) /\ Len(q) \in Nat \ {0}
           /\ DOMAIN Tail(q) = 1 .. Len(q) - 1
           /\ \A i \in DOMAIN Tail(q) : Tail(q)[i] = q[i + 1]
           /\ \A i \in DOMAIN q : q[i] \in S
           /\ Head(q) = q[1] /\ Head(q) \in S
OBVIOUS

\* Which calls a queue names, and in which order, after a push.
LEMMA CallsAppend ==
    ASSUME NEW S \in {Events, Frames}, NEW q \in Seq(S), NEW e \in S
    PROVE  /\ CallsIn(Append(q, e)) = CallsIn(q) \cup ({e.cid} \ {0})
           /\ Ascending(q) /\ (e.cid = 0 \/ \A c \in CallsIn(q) : c < e.cid)
                => Ascending(Append(q, e))
<1> DEFINE r == Append(q, e)
           n == Len(q)
<1>1. /\ DOMAIN q = 1 .. n /\ n \in Nat
      /\ DOMAIN r = 1 .. n + 1
      /\ \A i \in 1 .. n : r[i] = q[i]
      /\ r[n + 1] = e
  BY AppendAt
<1> HIDE DEF r, n
<1>2. DOMAIN r = DOMAIN q \cup {n + 1} /\ n + 1 \notin DOMAIN q /\ \A i \in DOMAIN q : i < n + 1
  BY <1>1
<1>3. CallsIn(r) = CallsIn(q) \cup ({e.cid} \ {0})
  BY <1>1, <1>2 DEF CallsIn
<1>4. ASSUME Ascending(q), e.cid = 0 \/ \A c \in CallsIn(q) : c < e.cid
      PROVE  Ascending(r)
  <2> SUFFICES ASSUME NEW i \in DOMAIN r, NEW j \in DOMAIN r,
                      i < j, r[i].cid # 0, r[j].cid # 0
               PROVE  r[i].cid < r[j].cid
    BY DEF Ascending
  <2>1. i \in DOMAIN q /\ r[i] = q[i]
    BY <1>1
  <2>2. CASE j \in DOMAIN q
    BY <2>1, <2>2, <1>1, <1>4 DEF Ascending
  <2>3. CASE j = n + 1
    <3>1. q[i].cid \in CallsIn(q)
      BY <2>1 DEF CallsIn
    <3> QED  BY <2>1, <2>3, <3>1, <1>1, <1>4
  <2> QED  BY <2>2, <2>3, <1>2
<1> QED  BY <1>3, <1>4 DEF r

\* The same once the head is taken.
LEMMA CallsTail ==
    ASSUME NEW S \in {Events, Frames}, NEW q \in Seq(S), q # <<>>
    PROVE  /\ CallsIn(q) = CallsIn(Tail(q)) \cup ({Head(q).cid} \ {0})
           /\ Ascending(q) =>
                 /\ Ascending(Tail(q))
                 /\ Head(q).cid # 0 => \A c \in CallsIn(Tail(q)) : Head(q).cid < c
<1> DEFINE r == Tail(q)
           n == Len(q)
<1>1. /\ DOMAIN q = 1 .. n /\ n \in Nat \ {0}
      /\ DOMAIN r = 1 .. n - 1
      /\ \A i \in DOMAIN r : r[i] = q[i + 1]
      /\ Head(q) = q[1]
  BY TailAt
<1> HIDE DEF r, n
<1>2. 1 \in DOMAIN q /\ \A i \in DOMAIN r : i + 1 \in DOMAIN q /\ 1 < i + 1
  BY <1>1
<1>3. \A i \in DOMAIN q : i = 1 \/ (i - 1 \in DOMAIN r /\ r[i - 1] = q[i])
  BY <1>1
<1>4. CallsIn(q) = CallsIn(r) \cup ({Head(q).cid} \ {0})
  <2>1. ASSUME NEW i \in DOMAIN q, q[i].cid # 0
        PROVE  q[i].cid \in CallsIn(r) \cup ({Head(q).cid} \ {0})
    <3>1. CASE i = 1
      BY <3>1, <2>1, <1>1
    <3>2. CASE i - 1 \in DOMAIN r /\ r[i - 1] = q[i]
      <4>1. r[i - 1].cid \in CallsIn(r)
        BY <3>2, <2>1 DEF CallsIn
      <4> QED  BY <4>1, <3>2
    <3> QED  BY <3>1, <3>2, <1>3
  <2>2. ASSUME NEW i \in DOMAIN r, r[i].cid # 0
        PROVE  r[i].cid \in CallsIn(q)
    <3>1. q[i + 1].cid \in CallsIn(q)
      BY <2>2, <1>1, <1>2 DEF CallsIn
    <3> QED  BY <3>1, <1>1
  <2>3. Head(q).cid # 0 => Head(q).cid \in CallsIn(q)
    BY <1>1, <1>2 DEF CallsIn
  <2> QED  BY <2>1, <2>2, <2>3 DEF CallsIn
<1>5. ASSUME Ascending(q)
      PROVE  Ascending(r) /\ (Head(q).cid # 0 => \A c \in CallsIn(r) : Head(q).cid < c)
  <2>1. ASSUME NEW i \in DOMAIN r, NEW j \in DOMAIN r, i < j, r[i].cid # 0, r[j].cid # 0
        PROVE  r[i].cid < r[j].cid
    <3>1. i + 1 \in DOMAIN q /\ j + 1 \in DOMAIN q /\ i + 1 < j + 1
      BY <2>1, <1>1
    <3> QED  BY <3>1, <2>1, <1>1, <1>5 DEF Ascending
  <2>2. ASSUME Head(q).cid # 0, NEW i \in DOMAIN r, r[i].cid # 0
        PROVE  Head(q).cid < r[i].cid
    BY <2>2, <1>1, <1>2, <1>5 DEF Ascending
  <2> QED  BY <2>1, <2>2 DEF Ascending, CallsIn
<1> QED  BY <1>4, <1>5 DEF r

\* The disconnect in the queue.
LEMMA EndsFacts ==
    ASSUME NEW q \in Seq(Events)
    PROVE  /\ \A e \in Events : Ends(Append(q, e)) <=> Ends(q) \/ e.kind = "disconnect"
           /\ q # <<>> => (Ends(q) <=> Ends(Tail(q)) \/ Head(q).kind = "disconnect")
<1>1. ASSUME NEW e \in Events
      PROVE  Ends(Append(q, e)) <=> Ends(q) \/ e.kind = "disconnect"
  <2> DEFINE r == Append(q, e)
             n == Len(q)
  <2>1. /\ DOMAIN q = 1 .. n /\ n \in Nat
        /\ DOMAIN r = 1 .. n + 1
        /\ \A i \in 1 .. n : r[i] = q[i]
        /\ r[n + 1] = e
    BY AppendAt
  <2> HIDE DEF r, n
  <2>2. DOMAIN r = DOMAIN q \cup {n + 1} /\ n + 1 \notin DOMAIN q
    BY <2>1
  <2>3. Ends(r) <=> Ends(q) \/ e.kind = "disconnect"
    BY <2>1, <2>2 DEF Ends
  <2> QED  BY <2>3 DEF r
<1>2. ASSUME q # <<>>
      PROVE  Ends(q) <=> Ends(Tail(q)) \/ Head(q).kind = "disconnect"
  <2> DEFINE r == Tail(q)
             n == Len(q)
  <2>1. /\ DOMAIN q = 1 .. n /\ n \in Nat \ {0}
        /\ DOMAIN r = 1 .. n - 1
        /\ \A i \in DOMAIN r : r[i] = q[i + 1]
        /\ Head(q) = q[1]
    BY <1>2, TailAt
  <2> HIDE DEF r, n
  <2>2. 1 \in DOMAIN q /\ \A i \in DOMAIN r : i + 1 \in DOMAIN q
    BY <2>1
  <2>3. \A i \in DOMAIN q : i = 1 \/ (i - 1 \in DOMAIN r /\ r[i - 1] = q[i])
    BY <2>1
  <2>4. Ends(q) => Ends(r) \/ Head(q).kind = "disconnect"
    BY <2>1, <2>3 DEF Ends
  <2>5. Ends(r) \/ Head(q).kind = "disconnect" => Ends(q)
    BY <2>1, <2>2 DEF Ends
  <2> QED  BY <2>4, <2>5 DEF r
<1> QED  BY <1>1, <1>2

-----------------------------------------------------------------------------
(* What the operators do to the queues *)

\* The events and frames that the operators build.
LEMMA EventTypes ==
    /\ DisconnectEvent \in Events /\ DisconnectEvent.cid = 0
    /\ DisconnectEvent.kind = "disconnect"
    /\ \A p \in Payloads : GameMsg(p) \in Events /\ GameMsg(p).cid = 0
    /\ \A p \in Payloads, c \in Cids : Request(c, p) \in Events /\ Request(c, p).cid = c
    /\ ServerMessage \in Frames /\ ServerMessage.cid = 0
    /\ \A c \in Cids, s \in {"ok", "error"} : Answer(c, s) \in Frames /\ Answer(c, s).cid = c
    /\ \A e \in Events : e.kind = "rpc" => e.cid \in Cids
    /\ \A e \in Events : e.kind # "rpc" => e.cid = 0
    /\ \A c \in Cids : c # 0 /\ c \in Nat
BY RpcAssumption DEF DisconnectEvent, Payloads, GameMsg, Request, ServerMessage, Answer, Events,
    Frames, Cids

\* One more disconnect, or none, behind a queue of events.
LEMMA MaybeDisconnect ==
    ASSUME NEW q \in Seq(Events), inbox' = q \/ inbox' = Append(q, DisconnectEvent)
    PROVE  /\ inbox' \in Seq(Events)
           /\ Queued' = CallsIn(q)
           /\ Ascending(q) => Ascending(inbox)'
           /\ Ends(q) => Ends(inbox)'
           /\ inbox' = Append(q, DisconnectEvent) => Ends(inbox)'
<1>1. DisconnectEvent \in Events /\ DisconnectEvent.cid = 0 /\ DisconnectEvent.kind = "disconnect"
  BY EventTypes
<1>2. Queued' = CallsIn(inbox') /\ (Ascending(inbox)' <=> Ascending(inbox'))
      /\ (Ends(inbox)' <=> Ends(inbox'))
  BY DEF Queued, CallsIn, Ascending, Ends
<1>3. CASE inbox' = q
  <2>1. Append(q, DisconnectEvent) # q
    BY <1>1, AppendAt
  <2> QED  BY <1>2, <1>3, <2>1
<1>4. CASE inbox' = Append(q, DisconnectEvent)
  <2>1. CallsIn(inbox') = CallsIn(q) \cup ({0} \ {0}) /\ (Ascending(q) => Ascending(inbox'))
    BY <1>1, <1>4, CallsAppend
  <2>2. Ends(inbox')
    BY <1>1, <1>4, EndsFacts
  <2>3. inbox' \in Seq(Events)
    BY <1>1, <1>4, AppendAt
  <2> QED  BY <1>2, <2>1, <2>2, <2>3
<1> QED  BY <1>3, <1>4

\* scheduleDisconnect: the calls stay, and the end is in sight.
LEMMA ScheduleFacts ==
    ASSUME TypeOK, NEW q \in Seq(Events), fired => ~sock \/ Ends(q), ScheduleDisconnect(q)
    PROVE  /\ inbox' \in Seq(Events) /\ Queued' = CallsIn(q)
           /\ Ascending(q) => Ascending(inbox)'
           /\ Ends(q) => Ends(inbox)'
           /\ ~sock' \/ Ends(inbox)'
           /\ ~sock => ~sock'
           /\ fired' = TRUE /\ sock' \in BOOLEAN
<1>1. inbox' = q \/ inbox' = Append(q, DisconnectEvent)
  BY DEF ScheduleDisconnect
<1>2. fired' = TRUE /\ (sock' = sock \/ sock' = FALSE) /\ sock \in BOOLEAN
  BY DEF ScheduleDisconnect, TypeOK
<1>3. inbox' = Append(q, DisconnectEvent) \/ ~sock' \/ Ends(q)
  BY DEF ScheduleDisconnect
<1>4. /\ inbox' \in Seq(Events) /\ Queued' = CallsIn(q)
      /\ Ascending(q) => Ascending(inbox)'
      /\ Ends(q) => Ends(inbox)'
      /\ inbox' = Append(q, DisconnectEvent) => Ends(inbox)'
  BY <1>1, MaybeDisconnect
<1>5. ~sock' \/ Ends(inbox)'
  BY <1>3, <1>4
<1>6. sock' \in BOOLEAN /\ (~sock => ~sock')
  <2>1. CASE sock' = sock
    BY <1>2, <2>1
  <2>2. CASE sock' = FALSE
    BY <2>2
  <2> QED  BY <1>2, <2>1, <2>2
<1> QED  BY <1>2, <1>4, <1>5, <1>6

\* pushTCP: the frame goes behind the others, or the end is in sight.
LEMMA PushFacts ==
    ASSUME TypeOK, NEW q \in Seq(Events), NEW f \in Frames,
           fired => ~sock \/ Ends(q), ~registered => ~sock, PushTCP(f, q)
    PROVE  /\ inbox' \in Seq(Events) /\ Queued' = CallsIn(q)
           /\ Ascending(q) => Ascending(inbox)'
           /\ Ends(q) => Ends(inbox)'
           /\ ~sock => ~sock'
           /\ fired' \in BOOLEAN /\ sock' \in BOOLEAN
           /\ fired' => ~sock' \/ Ends(inbox)'
           /\ sendTCP' \in Seq(Frames) /\ Len(sendTCP') <= SendDepth
           /\ \/ sendTCP' = sendTCP /\ (~sock' \/ Ends(inbox)')
              \/ sendTCP' = Append(sendTCP, f)
<1>1. CASE HasRoom /\ sendTCP' = Append(sendTCP, f) /\ inbox' = q /\ UNCHANGED <<fired, sock>>
  <2>1. sendTCP' \in Seq(Frames) /\ Len(sendTCP') = Len(sendTCP) + 1 /\ Len(sendTCP) \in Nat
    BY <1>1, AppendAt DEF TypeOK
  <2>2. Len(sendTCP') <= SendDepth
    BY <1>1, <2>1, RpcAssumption DEF HasRoom
  <2>3. /\ inbox' \in Seq(Events) /\ Queued' = CallsIn(q)
        /\ Ascending(q) => Ascending(inbox)'
        /\ Ends(q) => Ends(inbox)'
    BY <1>1, MaybeDisconnect
  <2> QED  BY <1>1, <2>1, <2>2, <2>3 DEF TypeOK
<1>2. CASE ScheduleDisconnect(q) /\ UNCHANGED sendTCP
  BY <1>2, ScheduleFacts DEF TypeOK
<1>3. CASE ~registered /\ inbox' = q /\ UNCHANGED <<fired, sock, sendTCP>>
  <2>1. /\ inbox' \in Seq(Events) /\ Queued' = CallsIn(q)
        /\ Ascending(q) => Ascending(inbox)'
        /\ Ends(q) => Ends(inbox)'
    BY <1>3, MaybeDisconnect
  <2> QED  BY <1>3, <2>1 DEF TypeOK
<1> QED  BY <1>1, <1>2, <1>3 DEF PushTCP

\* The events behind the head of the inbox.
LEMMA TakeHead ==
    ASSUME RInv, inbox # <<>>
    PROVE  /\ Tail(inbox) \in Seq(Events) /\ Head(inbox) \in Events
           /\ Queued = CallsIn(Tail(inbox)) \cup ({Head(inbox).cid} \ {0})
           /\ Ascending(Tail(inbox))
           /\ Head(inbox).cid # 0 => \A c \in CallsIn(Tail(inbox)) : Head(inbox).cid < c
           /\ Head(inbox).kind # "disconnect" => (Ends(inbox) <=> Ends(Tail(inbox)))
<1>1. inbox \in Seq(Events) /\ Ascending(inbox)
  BY DEF RInv, TypeOK, AnswersInOrder
<1> QED  BY <1>1, TailAt, CallsTail, EndsFacts DEF Queued

-----------------------------------------------------------------------------
(* Steps that answer and make no call *)

\* Queues that only shrink stay in order.
LEMMA StillInOrder ==
    ASSUME RInv, call' = call, Queued' \subseteq Queued, Outbound' \subseteq Outbound,
           Ascending(inbox)', Ascending(sendTCP)'
    PROVE  AnswersInOrder'
BY DEF RInv, AnswersInOrder, Answered

\* A call may leave the queues when the connection ends or its response did
\* not marshal, and the end of a connection stays in sight.
LEMMA StillAccounted ==
    ASSUME RInv, call' = call, silent \subseteq silent',
           Queued' \cup Outbound' \subseteq Queued \cup Outbound,
           \/ ~sock' \/ Ends(inbox)'
           \/ Queued \cup Outbound \subseteq Queued' \cup Outbound' \cup silent',
           ~sock \/ Ends(inbox) => ~sock' \/ Ends(inbox)'
    PROVE  CallAccountedFor' /\ CallsMade'
<1>1. CallsMade'
  BY DEF RInv, CallsMade
<1>2. CallAccountedFor'
  <2> SUFFICES ASSUME NEW c \in Cids, call[c] = "pending", ~(~sock' \/ Ends(inbox)')
               PROVE  c \in Queued' \cup Outbound' \/ c \in silent'
    BY DEF CallAccountedFor
  <2>1. c \in Queued \cup Outbound \/ c \in silent
    BY DEF RInv, CallAccountedFor
  <2> QED  BY <2>1
<1> QED  BY <1>1, <1>2

\* runTCPReader ends: the connection is closed, and the calls stay.
LEMMA ReaderFacts ==
    ASSUME RInv, ReaderReturns
    PROVE  /\ inbox' \in Seq(Events) /\ Queued' = Queued /\ Ascending(inbox)'
           /\ Ends(inbox) => Ends(inbox)'
           /\ reading' = FALSE /\ sock' = FALSE /\ fired' = TRUE
<1>1. inbox \in Seq(Events) /\ Ascending(inbox)
  BY DEF RInv, TypeOK, AnswersInOrder
<1>2. inbox' = inbox \/ inbox' = Append(inbox, DisconnectEvent)
  BY DEF ReaderReturns
<1>3. Queued = CallsIn(inbox)
  BY DEF Queued
<1> QED  BY <1>1, <1>2, <1>3, MaybeDisconnect DEF ReaderReturns

\* A queue that a step leaves alone.
LEMMA SameOutbound ==
    ASSUME RInv, sendTCP' = sendTCP
    PROVE  Outbound' = Outbound /\ Ascending(sendTCP)'
           /\ sendTCP' \in Seq(Frames) /\ Len(sendTCP') <= SendDepth
BY DEF RInv, TypeOK, AnswersInOrder, Outbound, CallsIn, Ascending

\* The same of the inbox.
LEMMA SameInbox ==
    ASSUME RInv, inbox' = inbox
    PROVE  /\ Queued' = Queued /\ Ascending(inbox)' /\ inbox' \in Seq(Events)
           /\ Ends(inbox)' <=> Ends(inbox)
BY DEF RInv, TypeOK, AnswersInOrder, Queued, CallsIn, Ascending, Ends

\* HandleClient and HandleRPC touch no call.
LEMMA RegistrationKeeps ==
    ASSUME RInv, NEW t \in Types, HandleClient(t) \/ HandleRPC(t)
    PROVE  RInv'
<1>1. UNCHANGED <<call, inbox, registered, fired, sock, reading, writing, sendTCP, silent>>
  BY DEF HandleClient, HandleRPC
<1>2. handlers' \subseteq Types /\ rpcHandlers' \in [Types -> {None, "raw", "typed"}]
  BY DEF RInv, TypeOK, HandleClient, HandleRPC
<1>3. TypeOK'
  BY <1>1, <1>2 DEF RInv, TypeOK
<1>4. Queued' = Queued /\ Outbound' = Outbound /\ Ascending(inbox)' /\ Ascending(sendTCP)'
      /\ (Ends(inbox)' <=> Ends(inbox))
  BY <1>1, SameInbox, SameOutbound
<1>5. AnswersInOrder' /\ CallAccountedFor' /\ CallsMade'
  BY <1>1, <1>4, StillInOrder, StillAccounted
<1>6. EndInSight'
  BY <1>1, <1>4 DEF RInv, EndInSight
<1> QED  BY <1>3, <1>5, <1>6 DEF RInv

\* A game message is queued without a number, or ends the reader.
LEMMA SendGameKeeps ==
    ASSUME RInv, NEW p \in Payloads, SendGame(p)
    PROVE  RInv'
<1>1. /\ UNCHANGED <<call, registries, registered, writing, sendTCP, silent>>
      /\ Arrives(GameMsg(p)) /\ inbox \in Seq(Events)
  BY DEF SendGame, RInv, TypeOK
<1>2. Outbound' = Outbound /\ Ascending(sendTCP)'
  BY <1>1, SameOutbound
<1>3. CASE inbox' = Append(inbox, GameMsg(p)) /\ UNCHANGED <<fired, sock, reading>>
  <2>1. /\ inbox' \in Seq(Events)
        /\ CallsIn(inbox') = CallsIn(inbox) \cup ({0} \ {0})
        /\ Ascending(inbox) => Ascending(inbox')
        /\ Ends(inbox) => Ends(inbox')
    BY <1>1, <1>3, EventTypes, AppendAt, CallsAppend, EndsFacts
  <2>2. Queued' = Queued /\ Ascending(inbox)' /\ (Ends(inbox) => Ends(inbox)')
    BY <2>1 DEF RInv, AnswersInOrder, Queued, CallsIn, Ascending, Ends
  <2>3. TypeOK'
    BY <1>1, <1>3, <2>1 DEF RInv, TypeOK, registries
  <2>4. AnswersInOrder' /\ CallAccountedFor' /\ CallsMade'
    BY <1>1, <1>2, <1>3, <2>2, StillInOrder, StillAccounted
  <2>5. EndInSight'
    BY <1>1, <1>3, <2>2 DEF RInv, EndInSight
  <2> QED  BY <2>3, <2>4, <2>5 DEF RInv
<1>4. CASE ReaderReturns
  <2>1. /\ inbox' \in Seq(Events) /\ Queued' = Queued /\ Ascending(inbox)'
        /\ reading' = FALSE /\ sock' = FALSE /\ fired' = TRUE
    BY <1>4, ReaderFacts
  <2>2. TypeOK'
    BY <1>1, <2>1 DEF RInv, TypeOK, registries
  <2>3. AnswersInOrder' /\ CallAccountedFor' /\ CallsMade'
    BY <1>1, <1>2, <2>1, StillInOrder, StillAccounted
  <2> QED  BY <2>1, <2>2, <2>3 DEF RInv, EndInSight
<1> QED  BY <1>1, <1>3, <1>4 DEF Arrives

\* A reader that fails closes the connection.
LEMMA ReadFailsKeeps ==
    ASSUME RInv, ReadFails
    PROVE  RInv'
<1>1. UNCHANGED <<call, registries, registered, writing, sendTCP, silent>> /\ ReaderReturns
  BY DEF ReadFails
<1>2. Outbound' = Outbound /\ Ascending(sendTCP)'
  BY <1>1, SameOutbound
<1>3. /\ inbox' \in Seq(Events) /\ Queued' = Queued /\ Ascending(inbox)'
      /\ reading' = FALSE /\ sock' = FALSE /\ fired' = TRUE
  BY <1>1, ReaderFacts
<1>4. TypeOK'
  BY <1>1, <1>3 DEF RInv, TypeOK, registries
<1>5. AnswersInOrder' /\ CallAccountedFor' /\ CallsMade'
  BY <1>1, <1>2, <1>3, StillInOrder, StillAccounted
<1> QED  BY <1>3, <1>4, <1>5 DEF RInv, EndInSight

\* A broken connection excuses every pending call.
LEMMA ConnBreaksKeeps ==
    ASSUME RInv, ConnBreaks
    PROVE  RInv'
<1>1. UNCHANGED <<call, inbox, registries, registered, fired, reading, writing, sendTCP, silent>>
      /\ sock' = FALSE
  BY DEF ConnBreaks
<1>2. TypeOK'
  BY <1>1 DEF RInv, TypeOK, registries
<1>3. Queued' = Queued /\ Outbound' = Outbound /\ Ascending(inbox)' /\ Ascending(sendTCP)'
  BY <1>1, SameInbox, SameOutbound
<1>4. AnswersInOrder' /\ CallAccountedFor' /\ CallsMade'
  BY <1>1, <1>3, StillInOrder, StillAccounted
<1> QED  BY <1>1, <1>2, <1>4 DEF RInv, EndInSight

\* TickCtx.Disconnect and the ping timeout put the end in sight.
LEMMA DisconnectKeeps ==
    ASSUME RInv, Disconnect
    PROVE  RInv'
<1>1. UNCHANGED <<call, registries, registered, reading, writing, sendTCP, silent>>
      /\ ScheduleDisconnect(inbox)
  BY DEF Disconnect
<1>2. Outbound' = Outbound /\ Ascending(sendTCP)'
  BY <1>1, SameOutbound
<1>3. /\ inbox' \in Seq(Events) /\ Queued' = Queued /\ Ascending(inbox)'
      /\ ~sock' \/ Ends(inbox)'
      /\ ~sock => ~sock'
      /\ fired' = TRUE /\ sock' \in BOOLEAN
  BY <1>1, ScheduleFacts DEF RInv, TypeOK, EndInSight, AnswersInOrder, Queued
<1>4. TypeOK'
  BY <1>1, <1>3 DEF RInv, TypeOK, registries
<1>5. AnswersInOrder' /\ CallAccountedFor' /\ CallsMade'
  BY <1>1, <1>2, <1>3, StillInOrder, StillAccounted
<1>6. EndInSight'
  BY <1>1, <1>3 DEF RInv, EndInSight
<1> QED  BY <1>4, <1>5, <1>6 DEF RInv

\* A frame is dropped only after its connection was closed.
LEMMA DropStaleKeeps ==
    ASSUME RInv, DropStale
    PROVE  RInv'
<1>1. /\ UNCHANGED <<call, registries, registered, fired, sock, reading, writing, sendTCP, silent>>
      /\ inbox # <<>> /\ inbox' = Tail(inbox) /\ Head(inbox).kind # "disconnect" /\ ~registered
  BY DEF DropStale
<1>2. Outbound' = Outbound /\ Ascending(sendTCP)'
  BY <1>1, SameOutbound
<1>3. /\ Tail(inbox) \in Seq(Events) /\ Ascending(Tail(inbox))
      /\ CallsIn(Tail(inbox)) \subseteq Queued
      /\ Ends(inbox) => Ends(Tail(inbox))
  BY <1>1, TakeHead
<1>4. /\ inbox' \in Seq(Events) /\ Queued' \subseteq Queued /\ Ascending(inbox)'
      /\ Ends(inbox) => Ends(inbox)'
  BY <1>1, <1>3, MaybeDisconnect
<1>5. ~sock'
  BY <1>1 DEF RInv, EndInSight
<1>6. TypeOK'
  BY <1>1, <1>4 DEF RInv, TypeOK, registries
<1>7. AnswersInOrder' /\ CallAccountedFor' /\ CallsMade'
  BY <1>1, <1>2, <1>4, <1>5, StillInOrder, StillAccounted
<1> QED  BY <1>5, <1>6, <1>7 DEF RInv, EndInSight

\* cleanupSession drops the outbound frames with the connection.
LEMMA CleanupKeeps ==
    ASSUME RInv, Cleanup
    PROVE  RInv'
<1>1. /\ UNCHANGED <<call, registries, fired, reading, writing, silent>>
      /\ inbox # <<>> /\ inbox' = Tail(inbox)
      /\ registered' = FALSE /\ sock' = FALSE /\ sendTCP' = <<>>
  BY DEF Cleanup
<1>2. /\ inbox' \in Seq(Events) /\ Queued' \subseteq Queued /\ Ascending(inbox)'
  BY <1>1, TakeHead, MaybeDisconnect
<1>3. Outbound' = {} /\ Ascending(sendTCP)'
  BY <1>1 DEF Outbound, CallsIn, Ascending
<1>4. TypeOK'
  <2>1. sendTCP' \in Seq(Frames) /\ Len(sendTCP') <= SendDepth
    BY <1>1, RpcAssumption
  <2> QED  BY <1>1, <1>2, <2>1 DEF RInv, TypeOK, registries
<1>5. AnswersInOrder' /\ CallAccountedFor' /\ CallsMade'
  BY <1>1, <1>2, <1>3, StillInOrder, StillAccounted
<1> QED  BY <1>1, <1>4, <1>5 DEF RInv, EndInSight

\* A frame that answers no call goes to the outbound channel.
LEMMA MessageFacts ==
    ASSUME RInv, NEW q \in Seq(Events), Ascending(q), CallsIn(q) = Queued,
           Ends(inbox) <=> Ends(q), PushTCP(ServerMessage, q)
    PROVE  /\ inbox' \in Seq(Events) /\ Queued' = Queued /\ Ascending(inbox)'
           /\ Ends(inbox) => Ends(inbox)'
           /\ ~sock => ~sock'
           /\ fired' \in BOOLEAN /\ sock' \in BOOLEAN
           /\ fired' => ~sock' \/ Ends(inbox)'
           /\ sendTCP' \in Seq(Frames) /\ Len(sendTCP') <= SendDepth
           /\ Outbound' = Outbound /\ Ascending(sendTCP)'
<1>1. TypeOK /\ (fired => ~sock \/ Ends(q)) /\ (~registered => ~sock)
  BY DEF RInv, EndInSight
<1>2. /\ inbox' \in Seq(Events) /\ Queued' = Queued /\ Ascending(inbox)'
      /\ Ends(inbox) => Ends(inbox)'
      /\ ~sock => ~sock'
      /\ fired' \in BOOLEAN /\ sock' \in BOOLEAN
      /\ fired' => ~sock' \/ Ends(inbox)'
      /\ sendTCP' \in Seq(Frames) /\ Len(sendTCP') <= SendDepth
      /\ sendTCP' = sendTCP \/ sendTCP' = Append(sendTCP, ServerMessage)
  BY <1>1, PushFacts, EventTypes
<1>3. CASE sendTCP' = sendTCP
  BY <1>2, <1>3, SameOutbound
<1>4. CASE sendTCP' = Append(sendTCP, ServerMessage)
  <2>1. sendTCP \in Seq(Frames) /\ Ascending(sendTCP)
    BY DEF RInv, TypeOK, AnswersInOrder
  <2>2. /\ CallsIn(sendTCP') = CallsIn(sendTCP) \cup ({0} \ {0})
        /\ Ascending(sendTCP')
    BY <1>4, <2>1, CallsAppend, EventTypes
  <2>3. Outbound' = Outbound /\ Ascending(sendTCP)'
    BY <2>2 DEF Outbound, CallsIn, Ascending
  <2> QED  BY <1>2, <2>3
<1> QED  BY <1>2, <1>3, <1>4

\* What OnTick and the handlers of others send is no answer either.
LEMMA SendKeeps ==
    ASSUME RInv, Send
    PROVE  RInv'
<1>1. UNCHANGED <<call, registries, registered, reading, writing, silent>>
      /\ PushTCP(ServerMessage, inbox)
  BY DEF Send
<1>2. inbox \in Seq(Events) /\ Ascending(inbox) /\ CallsIn(inbox) = Queued
  BY DEF RInv, TypeOK, AnswersInOrder, Queued
<1>3. /\ inbox' \in Seq(Events) /\ Queued' = Queued /\ Ascending(inbox)'
      /\ Ends(inbox) => Ends(inbox)'
      /\ ~sock => ~sock'
      /\ fired' \in BOOLEAN /\ sock' \in BOOLEAN
      /\ fired' => ~sock' \/ Ends(inbox)'
      /\ sendTCP' \in Seq(Frames) /\ Len(sendTCP') <= SendDepth
      /\ Outbound' = Outbound /\ Ascending(sendTCP)'
  BY <1>1, <1>2, MessageFacts
<1>4. TypeOK'
  BY <1>1, <1>3 DEF RInv, TypeOK, registries
<1>5. AnswersInOrder' /\ CallAccountedFor' /\ CallsMade'
  BY <1>1, <1>3, StillInOrder, StillAccounted
<1>6. EndInSight'
  BY <1>1, <1>3 DEF RInv, EndInSight
<1> QED  BY <1>4, <1>5, <1>6 DEF RInv

\* A game message is not a call, and what its handler sends is no answer.
LEMMA HandleGameKeeps ==
    ASSUME RInv, HandleGame
    PROVE  RInv'
<1>1. /\ UNCHANGED <<call, registries, registered, reading, writing, silent>>
      /\ inbox # <<>> /\ Head(inbox).kind = "game"
      /\ \/ inbox' = Tail(inbox) /\ UNCHANGED <<fired, sock, sendTCP>>
         \/ PushTCP(ServerMessage, Tail(inbox))
         \/ ScheduleDisconnect(Tail(inbox)) /\ UNCHANGED sendTCP
  BY DEF HandleGame
<1>2. /\ Tail(inbox) \in Seq(Events) /\ Ascending(Tail(inbox))
      /\ CallsIn(Tail(inbox)) = Queued
      /\ Ends(inbox) <=> Ends(Tail(inbox))
  BY <1>1, TakeHead, EventTypes
<1>3. TypeOK /\ (fired => ~sock \/ Ends(Tail(inbox)))
  BY <1>2 DEF RInv, EndInSight
<1>4. /\ inbox' \in Seq(Events) /\ Queued' = Queued /\ Ascending(inbox)'
      /\ Ends(inbox) => Ends(inbox)'
      /\ ~sock => ~sock'
      /\ fired' \in BOOLEAN /\ sock' \in BOOLEAN
      /\ fired' => ~sock' \/ Ends(inbox)'
      /\ sendTCP' \in Seq(Frames) /\ Len(sendTCP') <= SendDepth
      /\ Outbound' = Outbound /\ Ascending(sendTCP)'
  <2>1. CASE inbox' = Tail(inbox) /\ UNCHANGED <<fired, sock, sendTCP>>
    <3>1. /\ inbox' \in Seq(Events) /\ Queued' = Queued /\ Ascending(inbox)'
          /\ Ends(inbox) => Ends(inbox)'
      BY <2>1, <1>2, MaybeDisconnect
    <3> QED  BY <2>1, <3>1, <1>2, <1>3, SameOutbound DEF TypeOK
  <2>2. CASE ScheduleDisconnect(Tail(inbox)) /\ UNCHANGED sendTCP
    BY <2>2, <1>2, <1>3, ScheduleFacts, SameOutbound
  <2>3. CASE PushTCP(ServerMessage, Tail(inbox))
    BY <2>3, <1>2, MessageFacts
  <2> QED  BY <1>1, <2>1, <2>2, <2>3
<1>5. UNCHANGED <<call, registries, registered, reading, writing, silent>>
  BY <1>1
<1>6. TypeOK'
  BY <1>4, <1>5 DEF RInv, TypeOK, registries
<1>7. AnswersInOrder' /\ CallAccountedFor' /\ CallsMade'
  BY <1>4, <1>5, StillInOrder, StillAccounted
<1>8. EndInSight'
  BY <1>4, <1>5 DEF RInv, EndInSight
<1> QED  BY <1>6, <1>7, <1>8 DEF RInv

-----------------------------------------------------------------------------
(* Steps that make, dispatch and answer calls *)

\* A new call is the highest so far, and goes behind all others.
LEMMA CallKeeps ==
    ASSUME RInv, NEW c \in Cids, NEW p \in Payloads, Call(c, p)
    PROVE  RInv'
<1>1. /\ UNCHANGED <<registries, registered, writing, sendTCP, silent>>
      /\ call[c] = "unsent" /\ \A d \in 1 .. c - 1 : call[d] # "unsent"
      /\ call' = [call EXCEPT ![c] = "pending"]
      /\ Arrives(Request(c, p)) /\ inbox \in Seq(Events)
      /\ call \in [Cids -> {"unsent", "pending", "ok", "error"}]
  BY DEF Call, RInv, TypeOK
<1>2. Outbound' = Outbound /\ Ascending(sendTCP)'
  BY <1>1, SameOutbound
<1>3. /\ \A d \in Queued \cup Outbound \cup Answered : d < c /\ d \in Cids /\ d # c
      /\ Answered' = Answered
      /\ \A d \in Cids : d # c => call'[d] = call[d]
      /\ call'[c] = "pending"
  <2>1. \A d \in Cids : call[d] # "unsent" => d < c
    <3> SUFFICES ASSUME NEW d \in Cids, call[d] # "unsent" PROVE d < c
      OBVIOUS
    <3>1. ~(c < d) /\ c # d
      BY <1>1 DEF RInv, CallsMade
    <3> QED  BY <3>1, RpcAssumption DEF Cids
  <2>2. \A d \in Queued \cup Outbound \cup Answered : d \in Cids /\ call[d] # "unsent"
    BY DEF RInv, CallsMade, Answered
  <2> QED  BY <1>1, <2>1, <2>2 DEF Answered
<1>4. \A a, b \in Cids : a < b /\ call'[b] # "unsent" => call'[a] # "unsent"
  <2> SUFFICES ASSUME NEW a \in Cids, NEW b \in Cids, a < b, call'[b] # "unsent"
               PROVE  call'[a] # "unsent"
    OBVIOUS
  <2>1. CASE b = c
    <3>1. a \in 1 .. c - 1 /\ a # c
      BY <2>1, RpcAssumption DEF Cids
    <3> QED  BY <1>1, <1>3, <3>1
  <2>2. CASE b # c
    BY <1>1, <1>3, <2>2 DEF RInv, CallsMade
  <2> QED  BY <2>1, <2>2
<1>5. call' \in [Cids -> {"unsent", "pending", "ok", "error"}]
  BY <1>1
<1>6. CASE inbox' = Append(inbox, Request(c, p)) /\ UNCHANGED <<fired, sock, reading>>
  <2>1. /\ inbox' \in Seq(Events)
        /\ CallsIn(inbox') = CallsIn(inbox) \cup ({c} \ {0})
        /\ Ascending(inbox) /\ (\A d \in CallsIn(inbox) : d < c) => Ascending(inbox')
        /\ Ends(inbox) => Ends(inbox')
    BY <1>1, <1>6, EventTypes, AppendAt, CallsAppend, EndsFacts
  <2>2. Queued' = Queued \cup {c} /\ (Ends(inbox) => Ends(inbox)')
    BY <2>1, EventTypes DEF Queued, CallsIn, Ends
  <2>3. Ascending(inbox)'
    BY <2>1, <1>3 DEF RInv, AnswersInOrder, Queued, Ascending
  <2>4. TypeOK'
    BY <1>1, <1>5, <1>6, <2>1 DEF RInv, TypeOK, registries
  <2>5. AnswersInOrder'
    BY <1>2, <1>3, <2>2, <2>3 DEF RInv, AnswersInOrder
  <2>6. CallsMade'
    BY <1>2, <1>3, <1>4, <2>2 DEF RInv, CallsMade
  <2>7. CallAccountedFor'
    BY <1>1, <1>2, <1>3, <1>6, <2>2 DEF RInv, CallAccountedFor
  <2>8. EndInSight'
    BY <1>1, <1>6, <2>2 DEF RInv, EndInSight
  <2> QED  BY <2>4, <2>5, <2>6, <2>7, <2>8 DEF RInv
<1>7. CASE ReaderReturns
  <2>1. /\ inbox' \in Seq(Events) /\ Queued' = Queued /\ Ascending(inbox)'
        /\ reading' = FALSE /\ sock' = FALSE /\ fired' = TRUE
    BY <1>7, ReaderFacts
  <2>2. TypeOK'
    BY <1>1, <1>5, <2>1 DEF RInv, TypeOK, registries
  <2>3. AnswersInOrder'
    BY <1>2, <1>3, <2>1 DEF RInv, AnswersInOrder
  <2>4. CallsMade'
    BY <1>2, <1>3, <1>4, <2>1 DEF RInv, CallsMade
  <2> QED  BY <2>1, <2>2, <2>3, <2>4 DEF RInv, EndInSight, CallAccountedFor
<1> QED  BY <1>1, <1>6, <1>7 DEF Arrives

\* dispatchRPC moves the first queued call behind all answers, unless its
\* response does not marshal or the outbound channel is full.
LEMMA HandleRequestKeeps ==
    ASSUME RInv, HandleRequest
    PROVE  RInv'
<1> DEFINE c == Head(inbox).cid
           q == Tail(inbox)
<1>1. PICK status \in DispatchRPC(Head(inbox).payload) : SendRPC(c, status, q)
  BY DEF HandleRequest
<1>2. /\ UNCHANGED <<call, registries, registered, reading, writing>>
      /\ inbox # <<>> /\ Head(inbox).kind = "rpc"
  BY <1>1 DEF HandleRequest, SendRPC
<1>3. c \in Cids /\ c # 0
  BY <1>2, TakeHead, EventTypes
<1>4. /\ q \in Seq(Events) /\ Ascending(q)
      /\ Queued = CallsIn(q) \cup {c}
      /\ \A d \in CallsIn(q) : c < d
      /\ Ends(inbox) <=> Ends(q)
  BY <1>2, <1>3, TakeHead
<1>5. TypeOK /\ (fired => ~sock \/ Ends(q)) /\ (~registered => ~sock)
  BY <1>4 DEF RInv, EndInSight
<1>6. status \in {"ok", "error", "none"}
  BY DEF DispatchRPC, Reply
<1> HIDE DEF c, q
<1>7. CASE status = "none" /\ silent' = silent \cup {c} /\ inbox' = q
           /\ UNCHANGED <<fired, sock, sendTCP>>
  <2>1. Outbound' = Outbound /\ Ascending(sendTCP)'
    BY <1>7, SameOutbound
  <2>2. /\ inbox' \in Seq(Events) /\ Queued' = CallsIn(q) /\ Ascending(inbox)'
        /\ Ends(inbox) => Ends(inbox)'
    BY <1>4, <1>7, MaybeDisconnect
  <2>3. TypeOK'
    BY <1>2, <1>3, <1>7, <2>2 DEF RInv, TypeOK, registries
  <2>4. AnswersInOrder' /\ CallAccountedFor' /\ CallsMade'
    BY <1>2, <1>4, <1>7, <2>1, <2>2, StillInOrder, StillAccounted
  <2>5. EndInSight'
    BY <1>2, <1>7, <2>2 DEF RInv, EndInSight
  <2> QED  BY <2>3, <2>4, <2>5 DEF RInv
<1>8. CASE status # "none" /\ PushTCP(Answer(c, status), q) /\ UNCHANGED silent
  <2>1. Answer(c, status) \in Frames /\ Answer(c, status).cid = c
    BY <1>3, <1>6, <1>8, EventTypes
  <2>2. /\ inbox' \in Seq(Events) /\ Queued' = CallsIn(q) /\ Ascending(inbox)'
        /\ Ends(inbox) => Ends(inbox)'
        /\ ~sock => ~sock'
        /\ fired' \in BOOLEAN /\ sock' \in BOOLEAN
        /\ fired' => ~sock' \/ Ends(inbox)'
        /\ sendTCP' \in Seq(Frames) /\ Len(sendTCP') <= SendDepth
        /\ \/ sendTCP' = sendTCP /\ (~sock' \/ Ends(inbox)')
           \/ sendTCP' = Append(sendTCP, Answer(c, status))
    BY <1>4, <1>5, <1>8, <2>1, PushFacts
  <2>3. TypeOK'
    BY <1>2, <1>8, <2>2 DEF RInv, TypeOK, registries
  <2>4. EndInSight'
    BY <1>2, <2>2 DEF RInv, EndInSight
  <2>5. CASE sendTCP' = sendTCP /\ (~sock' \/ Ends(inbox)')
    <3>1. Outbound' = Outbound /\ Ascending(sendTCP)'
      BY <2>5, SameOutbound
    <3>2. AnswersInOrder' /\ CallAccountedFor' /\ CallsMade'
      BY <1>2, <1>4, <1>8, <2>2, <2>5, <3>1, StillInOrder, StillAccounted
    <3> QED  BY <2>3, <2>4, <3>2 DEF RInv
  <2>6. CASE sendTCP' = Append(sendTCP, Answer(c, status))
    <3>1. /\ sendTCP \in Seq(Frames) /\ Ascending(sendTCP)
          /\ \A d \in CallsIn(sendTCP) : d < c
      BY <1>4 DEF RInv, TypeOK, AnswersInOrder, Outbound
    <3>2. CallsIn(sendTCP') = CallsIn(sendTCP) \cup {c} /\ Ascending(sendTCP')
      BY <1>3, <2>1, <2>6, <3>1, CallsAppend
    <3>3. Outbound' = Outbound \cup {c} /\ Ascending(sendTCP)'
      BY <3>2 DEF Outbound, CallsIn, Ascending
    <3>4. AnswersInOrder'
      BY <1>2, <1>4, <2>2, <3>3 DEF RInv, AnswersInOrder, Answered
    <3>5. CallAccountedFor' /\ CallsMade'
      BY <1>2, <1>4, <1>8, <2>2, <3>3, StillAccounted
    <3> QED  BY <2>3, <2>4, <3>4, <3>5 DEF RInv
  <2> QED  BY <2>2, <2>5, <2>6
<1> QED  BY <1>1, <1>7, <1>8 DEF SendRPC

\* The writer delivers the first answer, which is behind all delivered ones.
LEMMA WriteKeeps ==
    ASSUME RInv, Write
    PROVE  RInv'
<1> DEFINE h == Head(sendTCP).cid
<1>1. /\ UNCHANGED <<inbox, registries, registered, fired, sock, reading, silent>>
      /\ sendTCP # <<>> /\ sendTCP' = Tail(sendTCP)
      /\ sendTCP \in Seq(Frames) /\ Ascending(sendTCP) /\ Len(sendTCP) <= SendDepth
      /\ call \in [Cids -> {"unsent", "pending", "ok", "error"}]
  BY DEF Write, RInv, TypeOK, AnswersInOrder
<1>2. /\ Queued' = Queued /\ Ascending(inbox)' /\ inbox' \in Seq(Events)
      /\ Ends(inbox)' <=> Ends(inbox)
  BY <1>1, SameInbox
<1>3. /\ CallsIn(sendTCP) = CallsIn(sendTCP') \cup ({h} \ {0})
      /\ Ascending(sendTCP')
      /\ h # 0 => \A d \in CallsIn(sendTCP') : h < d
  BY <1>1, CallsTail
<1>4. /\ sendTCP' \in Seq(Frames) /\ Len(sendTCP') <= SendDepth
      /\ h \in 0 .. MaxCalls /\ Head(sendTCP).status \in {"ok", "error"}
  <2>1. /\ sendTCP' \in Seq(Frames) /\ Len(sendTCP') = Len(sendTCP) - 1 /\ Len(sendTCP) \in Nat
        /\ Head(sendTCP) \in Frames
    BY <1>1, TailAt
  <2> QED  BY <1>1, <2>1, RpcAssumption DEF Frames
<1>5. Outbound = Outbound' \cup ({h} \ {0}) /\ Ascending(sendTCP)'
      /\ (h # 0 => \A d \in Outbound' : h < d)
  BY <1>3 DEF Outbound, CallsIn, Ascending
<1> HIDE DEF h
<1>6. CASE ~sock
  <2>1. writing' = FALSE /\ call' = call
    BY <1>6 DEF Write
  <2>2. TypeOK'
    BY <1>1, <1>2, <1>4, <2>1 DEF RInv, TypeOK, registries
  <2>3. AnswersInOrder' /\ CallAccountedFor' /\ CallsMade'
    BY <1>1, <1>2, <1>5, <1>6, <2>1, StillInOrder, StillAccounted
  <2> QED  BY <1>1, <1>2, <2>2, <2>3 DEF RInv, EndInSight
<1>7. CASE sock
  <2>1. /\ writing' = writing
        /\ call' = [c \in Cids |-> IF c = h THEN Head(sendTCP).status ELSE call[c]]
    BY <1>7 DEF Write, h
  <2>2. /\ call' \in [Cids -> {"unsent", "pending", "ok", "error"}]
        /\ \A c \in Cids : c # h => call'[c] = call[c]
        /\ h \in Cids => call'[h] \in {"ok", "error"}
    BY <1>1, <1>4, <2>1
  <2>3. TypeOK'
    BY <1>1, <1>2, <1>4, <2>1, <2>2 DEF RInv, TypeOK, registries
  <2>4. Answered' \subseteq Answered \cup ({h} \ {0})
    <3>1. 0 \notin Cids
      BY EventTypes
    <3> QED  BY <2>2, <3>1 DEF Answered
  <2>5. h # 0 => h \in Outbound
    BY <1>5
  <2>6. AnswersInOrder'
    BY <1>2, <1>5, <2>4, <2>5 DEF RInv, AnswersInOrder
  <2>7. h \notin Queued \cup Outbound'
    <3>1. 0 \notin Queued \cup Outbound'
      BY DEF Queued, Outbound, CallsIn
    <3>2. h # 0 => \A d \in Queued \cup Outbound' : h < d
      BY <1>5, <2>5 DEF RInv, AnswersInOrder
    <3>3. h \in Nat
      BY <1>4, RpcAssumption
    <3> QED  BY <3>1, <3>2, <3>3
  <2>8. CallsMade'
    <3>1. \A c \in Cids : call'[c] # "unsent" <=> call[c] # "unsent"
      <4>1. h \in Cids => call[h] = "pending"
        <5>1. h \in Cids => h # 0
          BY EventTypes
        <5> QED  BY <2>5, <5>1 DEF RInv, CallsMade
      <4> QED  BY <2>2, <4>1
    <3>2. \A c \in Queued' \cup Outbound' : c \in Cids /\ call'[c] = "pending"
      BY <1>2, <1>5, <2>2, <2>7 DEF RInv, CallsMade
    <3> QED  BY <3>1, <3>2 DEF RInv, CallsMade
  <2>9. CallAccountedFor'
    <3> SUFFICES ASSUME NEW c \in Cids, call'[c] = "pending"
                 PROVE  c \in Queued' \cup Outbound' \/ ~sock' \/ Ends(inbox)' \/ c \in silent'
      BY DEF CallAccountedFor
    <3>1. c # h /\ call[c] = "pending"
      BY <2>2
    <3>2. c \in Queued \cup Outbound \/ ~sock \/ Ends(inbox) \/ c \in silent
      BY <3>1 DEF RInv, CallAccountedFor
    <3> QED  BY <1>1, <1>2, <1>5, <3>1, <3>2
  <2>10. EndInSight'
    BY <1>1, <1>2 DEF RInv, EndInSight
  <2> QED  BY <2>3, <2>6, <2>8, <2>9, <2>10 DEF RInv
<1> QED  BY <1>6, <1>7

-----------------------------------------------------------------------------

\* It holds when the session has just become ready.
LEMMA InitRInv == Init => RInv
<1> SUFFICES ASSUME Init PROVE RInv
  OBVIOUS
<1>1. TypeOK
  <2>1. Len(sendTCP) <= SendDepth /\ sendTCP \in Seq(Frames) /\ inbox \in Seq(Events)
    BY RpcAssumption DEF Init
  <2> QED  BY <2>1 DEF Init, TypeOK
<1>2. Queued = {} /\ Outbound = {} /\ Answered = {} /\ Ascending(inbox) /\ Ascending(sendTCP)
  BY DEF Init, Queued, Outbound, Answered, CallsIn, Ascending
<1>3. AnswersInOrder /\ CallsMade
  BY <1>2 DEF Init, AnswersInOrder, CallsMade
<1>4. CallAccountedFor /\ EndInSight
  BY DEF Init, CallAccountedFor, EndInSight
<1> QED  BY <1>1, <1>3, <1>4 DEF RInv

\* All of it is preserved by every step of client, goroutines and game.
THEOREM RpcInvariant == Spec => []RInv
<1>1. RInv /\ UNCHANGED vars => RInv'
  <2> SUFFICES ASSUME RInv, UNCHANGED vars PROVE RInv'
    OBVIOUS
  <2>1. UNCHANGED <<call, inbox, handlers, rpcHandlers, registered, fired, sock, reading, writing,
                    sendTCP, silent>>
    BY DEF vars
  <2>2. TypeOK'
    BY <2>1 DEF RInv, TypeOK
  <2>3. Queued' = Queued /\ Outbound' = Outbound /\ Ascending(inbox)' /\ Ascending(sendTCP)'
        /\ (Ends(inbox)' <=> Ends(inbox))
    BY <2>1, SameInbox, SameOutbound
  <2>4. AnswersInOrder' /\ CallAccountedFor' /\ CallsMade'
    BY <2>1, <2>3, StillInOrder, StillAccounted
  <2>5. EndInSight'
    BY <2>1, <2>3 DEF RInv, EndInSight
  <2> QED  BY <2>2, <2>4, <2>5 DEF RInv
<1>2. RInv /\ [Next]_vars => RInv'
  BY <1>1, RegistrationKeeps, SendGameKeeps, CallKeeps, ConnBreaksKeeps, ReadFailsKeeps,
     DropStaleKeeps, HandleRequestKeeps, HandleGameKeeps, CleanupKeeps, SendKeeps,
     DisconnectKeeps, WriteKeeps DEF Next, TickStep
<1> QED  BY InitRInv, <1>2, PTL DEF Spec

\* Every variable keeps its type, and the outbound channel its bound.
THEOREM RpcTypeCorrect == Spec => []TypeOK
<1>1. RInv => TypeOK
  BY DEF RInv
<1> QED  BY RpcInvariant, <1>1, PTL

\* Whatever handlers do and whenever the connection ends, dispatchRPC and the
\* writer answer calls once and in the order in which they were made.
THEOREM CallsAnsweredInOrder == Spec => []AnswersInOrder
<1>1. RInv => AnswersInOrder
  BY DEF RInv
<1> QED  BY RpcInvariant, <1>1, PTL

\* No pending call is forgotten while its connection stays open, except one
\* whose RpcResponse did not marshal.
THEOREM CallsAccountedFor == Spec => []CallAccountedFor
<1>1. RInv => CallAccountedFor
  BY DEF RInv
<1> QED  BY RpcInvariant, <1>1, PTL
=============================================================================
