----------------------------- MODULE Keepalive ------------------------------
(***************************************************************************)
(* The ping timeout against the clock, for one session and its client.     *)
(* Module Server counts silence in ticks and lets the client do anything;  *)
(* here the pings, the datagrams in flight and their delays are there too, *)
(* so that it can be said when a timeout is right and how late it is.      *)
(*                                                                         *)
(* Times are differences to tc.now, the time the ticker gave to the        *)
(* current tick, in some unit.  Ticks are unevenly spaced: the ticker      *)
(* drops ticks while a tick is long.  A tick also starts later than its    *)
(* tc.now, so that it may already drain what arrives after that time.      *)
(*                                                                         *)
(* KeptQuiet, PingCounts and EveryTick are faulty forms of the operator    *)
(* after each, and not part of the specification.                          *)
(***************************************************************************)
EXTENDS Integers, FiniteSets

CONSTANTS PingInterval,  \* Config.PingInterval
          PingTimeout,   \* Config.PingTimeout
          MaxGap,        \* the longest time from tc.now to the next tc.now
          MaxLag,        \* the longest a tick runs behind its tc.now
          Rtt,           \* the longest a datagram or pong is under way
          MaxLoss        \* the most pings in a row that stay unanswered

\* The configuration leaves room for MaxLoss lost pings.  Nothing in the code
\* makes it so: NewServer does not even compare interval and timeout.
ASSUME KeepaliveAssumption ==
    /\ PingInterval \in Nat \ {0}
    /\ PingTimeout \in Nat \ {0}
    /\ MaxGap \in Nat \ {0}
    /\ MaxLag \in Nat
    /\ Rtt \in Nat \ {0}
    /\ MaxLoss \in Nat
    /\ (MaxLoss + 1) * (PingInterval + MaxGap) + Rtt <= PingTimeout

VARIABLES
    status,     \* of the session
    client,     \* answers pings, has lost its UDP path, or is dead
    age,        \* tc.now less lastSeenUnixNano
    sincePing,  \* tc.now less lastPingBatchAt
    udp,        \* time to arrival of each datagram from the paired address
    tcp,        \* time to arrival of each Pong sent over TCP
    losses,     \* pings in a row that will not be answered
    udpQuiet,   \* history: time since a datagram was drained, or the pairing
    tcpQuiet,   \* history: time since a Pong over TCP was drained
    deadFor     \* history: time since the client died

vars == <<status, client, age, sincePing, udp, tcp, losses, udpQuiet, tcpQuiet, deadFor>>

\* The histories stop growing here, past everything they are compared with.
Never == PingTimeout + MaxLag + Rtt + MaxGap + 1
Later(t, d) == IF t + d < Never THEN t + d ELSE Never

TypeOK ==
    /\ status \in {"awaitingUDP", "ready", "ending"}
    /\ client \in {"awake", "tcpOnly", "dead"}
    /\ age \in -MaxLag .. PingTimeout + MaxGap
    /\ sincePing \in 0 .. PingInterval
    /\ udp \subseteq 1 .. Rtt
    /\ tcp \subseteq 1 .. Rtt
    /\ losses \in 0 .. MaxLoss
    /\ udpQuiet \in 0 .. Never
    /\ tcpQuiet \in 0 .. Never
    /\ deadFor \in 0 .. Never

\* The session has logged in.  The batches of pings are those of the server,
\* whenever its last one was.
Init ==
    /\ status = "awaitingUDP"
    /\ client = "awake"
    /\ age = 0
    /\ sincePing \in 0 .. PingInterval
    /\ udp = {}
    /\ tcp = {}
    /\ losses = 0
    /\ udpQuiet = 0
    /\ tcpQuiet = Never
    /\ deadFor = 0

-----------------------------------------------------------------------------
(* The client *)

\* A datagram of any kind on its way: lastSeen does not depend on the kind.
SendDatagram ==
    /\ status = "ready" /\ client = "awake"
    /\ \E r \in 1 .. Rtt : udp' = udp \cup {r}
    /\ UNCHANGED <<status, client, age, sincePing, tcp, losses, udpQuiet, tcpQuiet, deadFor>>

\* A Pong over TCP, asked for or not.
SendTcpPong ==
    /\ status = "ready" /\ client # "dead"
    /\ \E r \in 1 .. Rtt : tcp' = tcp \cup {r}
    /\ UNCHANGED <<status, client, age, sincePing, udp, losses, udpQuiet, tcpQuiet, deadFor>>

\* The client's address changes, or nothing comes through: the server pings
\* and hears an address at which no one is, but TCP goes on.
PathBreaks ==
    /\ status = "ready" /\ client = "awake"
    /\ client' = "tcpOnly"
    /\ UNCHANGED <<status, age, sincePing, udp, tcp, losses, udpQuiet, tcpQuiet, deadFor>>

ClientDies ==
    /\ status = "ready" /\ client # "dead"
    /\ client' = "dead"
    /\ UNCHANGED <<status, age, sincePing, udp, tcp, losses, udpQuiet, tcpQuiet, deadFor>>

-----------------------------------------------------------------------------
(* One tick, d after the one before: drain, then runPingTick *)

\* What is drained: all that has arrived by the new tc.now, and maybe some of
\* what arrives while the tick has not started.
Drained(inFlight, d) == {D \in SUBSET inFlight : {r \in inFlight : r <= d} \subseteq D}
Underway(inFlight, D, d) == {r - d : r \in inFlight \ D}

\* lastSeenUnixNano after the drain: dispatchMessage stores tc.now for each
\* datagram from the paired address, and handlePong for each Pong.
KeptQuiet(heardUdp, heardTcp, d) == IF heardTcp THEN 0 ELSE age + d
AgeAfter(heardUdp, heardTcp, d) == IF heardUdp \/ heardTcp THEN 0 ELSE age + d

Expired(a) == a > PingTimeout

PingDue(d) == sincePing + d >= PingInterval

\* The ping of a session, if one is sent: an awake client's Pong comes in
\* time, unless one of the two datagrams is lost or the queue refuses it.
PingCounts(a, flight, d) ==
    /\ age' = IF PingDue(d) THEN 0 ELSE a
    /\ losses' = losses
    /\ udp' = flight
SendPing(a, flight, d) ==
    /\ age' = a
    /\ IF PingDue(d) /\ client = "awake"
       THEN \/ losses' = 0 /\ \E r \in 1 .. Rtt : udp' = flight \cup {r}
            \/ losses < MaxLoss /\ losses' = losses + 1 /\ udp' = flight
       ELSE losses' = losses /\ udp' = flight

\* lastPingBatchAt is not stored.
EveryTick(d) == sincePing' = sincePing + d
PingBatch(d) == sincePing' = IF PingDue(d) THEN 0 ELSE sincePing + d

\* handleUDPHandshake stores time.Now(), which is later than tc.now, and
\* runPingTick of the same tick finds the session ready.
PairingTick(d) ==
    /\ status = "awaitingUDP"
    /\ status' = "ready"
    /\ \E lag \in 0 .. MaxLag : SendPing(-lag, {}, d)
    /\ PingBatch(d)
    /\ UNCHANGED <<client, tcp, udpQuiet, tcpQuiet, deadFor>>

\* runPingTick schedules the disconnect of a session past its timeout, and
\* pings the others if the batch is due.
ReadyTick(d) ==
    /\ status = "ready"
    /\ \E D \in Drained(udp, d), E \in Drained(tcp, d) :
          LET a == AgeAfter(D # {}, E # {}, d) IN
          /\ udpQuiet' = IF D # {} THEN 0 ELSE Later(udpQuiet, d)
          /\ tcpQuiet' = IF E # {} THEN 0 ELSE Later(tcpQuiet, d)
          /\ tcp' = Underway(tcp, E, d)
          /\ \/ /\ ~Expired(a)
                /\ SendPing(a, Underway(udp, D, d), d)
                /\ UNCHANGED status
             \/ /\ Expired(a)
                /\ status' = "ending"
                /\ age' = a
                /\ udp' = Underway(udp, D, d)
                /\ UNCHANGED losses
    /\ deadFor' = IF client = "dead" THEN Later(deadFor, d) ELSE 0
    /\ PingBatch(d)
    /\ UNCHANGED client

\* A tick that does not concern the session: it is not paired yet, or its
\* disconnect is on its way and the rest is the matter of module Server.
OtherTick(d) ==
    /\ status # "ready"
    /\ PingBatch(d)
    /\ UNCHANGED <<status, client, age, udp, tcp, losses, udpQuiet, tcpQuiet, deadFor>>

-----------------------------------------------------------------------------

Next ==
    \/ SendDatagram \/ SendTcpPong \/ PathBreaks \/ ClientDies
    \/ \E d \in 1 .. MaxGap : PairingTick(d) \/ ReadyTick(d) \/ OtherTick(d)

Spec == Init /\ [][Next]_vars

-----------------------------------------------------------------------------
(* Properties *)

\* A client that answers is never disconnected as a zombie, however ticks
\* and batches fall, as long as no more than MaxLoss of its pings in a row
\* are lost on the way out, on the way back or in the full event queue.
NoFalseTimeout == status = "ending" => client # "awake"

\* A session that runPingTick ends has been silent for more than PingTimeout
\* on both planes: a datagram of any kind and a Pong over TCP each keep it,
\* whatever the other plane does.
TimedOutOnlyIfSilent ==
    status = "ending" => udpQuiet > PingTimeout /\ tcpQuiet > PingTimeout

\* A dead client is noticed: its session is not kept longer than PingTimeout
\* and the time that what it sent last needs to arrive and be drained.
DeathNoticed ==
    status = "ready" /\ client = "dead" => deadFor <= PingTimeout + MaxLag + Rtt + MaxGap
=============================================================================
