-------------------------- MODULE KeepaliveProofs ---------------------------
(***************************************************************************)
(* Proofs about module Keepalive: for every interval, timeout, spacing of  *)
(* ticks, delay and number of lost pings that leave the timeout room.      *)
(***************************************************************************)
EXTENDS Keepalive, TLAPS

\* The longest time between two batches of pings.
Period == PingInterval + MaxGap

\* The session of a client that answers has been heard no longer ago than
\* its lost pings explain: or else a Pong is under way, and comes in time.
HeardRecently ==
    status = "ready" /\ client = "awake" =>
        \/ age <= losses * Period + sincePing
        \/ \E r \in udp : age <= (MaxLoss + 1) * Period + Rtt - r

\* A session that is kept is within its timeout, one that is not is past it,
\* and neither plane has been heard more lately than the age says.
AgeIsSilence ==
    /\ status = "awaitingUDP" => age = 0 /\ udpQuiet = 0 /\ client = "awake"
    /\ status = "ready" => age <= PingTimeout
    /\ status = "ending" => age > PingTimeout
    /\ age <= udpQuiet /\ age <= tcpQuiet

\* What a dead client sent is under way for less than Rtt.
LastWords ==
    /\ client # "dead" => deadFor = 0
    /\ client = "dead" => \A r \in udp \cup tcp : deadFor + r <= Rtt
    /\ client = "dead" /\ status = "ready" => deadFor <= age + MaxLag + Rtt + MaxGap

KInv == TypeOK /\ NoFalseTimeout /\ HeardRecently /\ AgeIsSilence /\ LastWords

-----------------------------------------------------------------------------

\* Arithmetic.
LEMMA ScaleUp ==
    ASSUME NEW m \in Nat, NEW n \in Nat, m <= n, NEW p \in Nat
    PROVE  /\ m * p \in Nat /\ n * p \in Nat
           /\ m * p <= n * p
           /\ (m + 1) * p = m * p + p
<1>1. m * p \in Nat /\ n * p \in Nat
  OBVIOUS
<1>2. (m + 1) * p = m * p + p
  OBVIOUS
<1>3. PICK k \in Nat : n = m + k
  <2>1. n - m \in Nat /\ n = m + (n - m)
    OBVIOUS
  <2> QED  BY <2>1
<1>4. n * p = m * p + k * p /\ k * p \in Nat
  BY <1>3
<1> QED  BY <1>1, <1>2, <1>4

\* What the configuration gives, and what one more lost ping adds.
LEMMA PeriodFacts ==
    ASSUME NEW n \in 0 .. MaxLoss
    PROVE  /\ Period \in Nat
           /\ \A d \in 1 .. MaxGap : PingInterval + d <= Period
           /\ n * Period \in Nat
           /\ (n + 1) * Period = n * Period + Period
           /\ n * Period + Period <= (MaxLoss + 1) * Period
           /\ (MaxLoss + 1) * Period \in Nat
           /\ (MaxLoss + 1) * Period + Rtt <= PingTimeout
<1>1. Period \in Nat /\ \A d \in 1 .. MaxGap : PingInterval + d <= Period
  BY KeepaliveAssumption DEF Period
<1>2. (MaxLoss + 1) * Period + Rtt <= PingTimeout
  BY KeepaliveAssumption DEF Period
<1>3. n \in Nat /\ n + 1 \in Nat /\ MaxLoss + 1 \in Nat /\ n <= n + 1 /\ n + 1 <= MaxLoss + 1
  BY KeepaliveAssumption
<1>4. n * Period \in Nat /\ (n + 1) * Period = n * Period + Period
  BY <1>1, <1>3, ScaleUp
<1>5. (MaxLoss + 1) * Period \in Nat /\ (n + 1) * Period <= (MaxLoss + 1) * Period
  BY <1>1, <1>3, ScaleUp
<1> QED  BY <1>1, <1>2, <1>4, <1>5

\* The histories grow no faster than time, and as fast where it matters.
LEMMA LaterFacts ==
    ASSUME NEW t \in 0 .. Never, NEW d \in 1 .. MaxGap
    PROVE  /\ Later(t, d) \in 0 .. Never /\ Later(t, d) <= t + d
           /\ Later(t, d) = t + d \/ Later(t, d) = Never
<1>1. Never \in Nat /\ d \in Nat
  BY KeepaliveAssumption DEF Never
<1> QED  BY <1>1 DEF Later

\* What a drain leaves under way: nothing that has arrived, and the rest
\* nearer by d.
LEMMA DrainFacts ==
    ASSUME NEW F \in SUBSET (1 .. Rtt), NEW d \in 1 .. MaxGap, NEW D \in Drained(F, d)
    PROVE  /\ D \subseteq F
           /\ Underway(F, D, d) \subseteq 1 .. Rtt
           /\ \A q \in Underway(F, D, d) : q + d \in F
           /\ D = {} => \A r \in F : r > d /\ r - d \in Underway(F, D, d)
<1>1. D \subseteq F /\ \A r \in F : r <= d => r \in D
  BY DEF Drained
<1>2. Rtt \in Nat /\ d \in Nat \ {0} /\ \A r \in F : r \in 1 .. Rtt
  BY KeepaliveAssumption
<1>3. ASSUME NEW q \in Underway(F, D, d)
      PROVE  q \in 1 .. Rtt /\ q + d \in F
  <2>1. PICK r \in F \ D : q = r - d
    BY DEF Underway
  <2>2. r > d
    BY <1>1, <1>2, <2>1
  <2>3. q + d = r /\ q \in 1 .. Rtt
    BY <1>2, <2>1, <2>2
  <2> QED  BY <2>1, <2>3
<1>4. ASSUME D = {}, NEW r \in F
      PROVE  r > d /\ r - d \in Underway(F, D, d)
  <2>1. r > d
    BY <1>1, <1>2, <1>4
  <2> QED  BY <2>1, <1>4 DEF Underway
<1> QED  BY <1>1, <1>3, <1>4

\* The batch's clock never passes the interval.
LEMMA BatchFacts ==
    ASSUME TypeOK, NEW d \in 1 .. MaxGap, PingBatch(d)
    PROVE  /\ sincePing' \in 0 .. PingInterval
           /\ PingDue(d) => sincePing' = 0 /\ sincePing + d <= PingInterval + d
           /\ ~PingDue(d) => sincePing' = sincePing + d
BY KeepaliveAssumption DEF TypeOK, PingBatch, PingDue

-----------------------------------------------------------------------------

\* It holds when the session has logged in.
LEMMA InitKInv == Init => KInv
<1> SUFFICES ASSUME Init PROVE KInv
  OBVIOUS
<1>1. Never \in Nat
  BY KeepaliveAssumption DEF Never
<1>2. TypeOK
  BY <1>1, KeepaliveAssumption DEF Init, TypeOK
<1> QED
  BY <1>1, <1>2 DEF Init, KInv, NoFalseTimeout, HeardRecently, AgeIsSilence, LastWords

\* A session that pairs is pinged in the same tick, maybe.
LEMMA PairingKeeps ==
    ASSUME KInv, NEW d \in 1 .. MaxGap, PairingTick(d)
    PROVE  KInv'
<1> USE DEF KInv
<1>1. PICK lag \in 0 .. MaxLag : SendPing(-lag, {}, d)
  BY DEF PairingTick
<1>2. /\ status' = "ready" /\ client' = client /\ client = "awake"
      /\ tcp' = tcp /\ udpQuiet' = udpQuiet /\ udpQuiet = 0
      /\ tcpQuiet' = tcpQuiet /\ deadFor' = deadFor /\ age' = -lag
  BY <1>1 DEF PairingTick, AgeIsSilence, SendPing
<1>3. losses' \in 0 .. MaxLoss /\ udp' \subseteq 1 .. Rtt
  BY <1>1, KeepaliveAssumption DEF SendPing, TypeOK
<1>4. sincePing' \in 0 .. PingInterval
  BY BatchFacts DEF PairingTick
<1>5. TypeOK'
  BY <1>2, <1>3, <1>4, KeepaliveAssumption DEF TypeOK
<1>6. HeardRecently'
  <2>1. losses' * Period \in Nat
    BY <1>3, PeriodFacts
  <2>2. age' <= losses' * Period + sincePing'
    BY <1>2, <1>4, <2>1, KeepaliveAssumption
  <2>3. Period' = Period
    BY DEF Period
  <2> QED  BY <2>2, <2>3 DEF HeardRecently
<1>7. AgeIsSilence'
  <2>1. tcpQuiet \in Nat
    BY KeepaliveAssumption DEF TypeOK, Never
  <2> QED  BY <1>2, <2>1, KeepaliveAssumption DEF AgeIsSilence
<1>8. LastWords' /\ NoFalseTimeout'
  BY <1>2 DEF LastWords, NoFalseTimeout
<1> QED  BY <1>5, <1>6, <1>7, <1>8

\* A tick of a session that is ready.
LEMMA ReadyKeeps ==
    ASSUME KInv, NEW d \in 1 .. MaxGap, ReadyTick(d)
    PROVE  KInv'
<1> USE DEF KInv
<1>1. PICK D \in Drained(udp, d), E \in Drained(tcp, d) :
        LET a == AgeAfter(D # {}, E # {}, d) IN
        /\ udpQuiet' = IF D # {} THEN 0 ELSE Later(udpQuiet, d)
        /\ tcpQuiet' = IF E # {} THEN 0 ELSE Later(tcpQuiet, d)
        /\ tcp' = Underway(tcp, E, d)
        /\ \/ /\ ~Expired(a)
              /\ SendPing(a, Underway(udp, D, d), d)
              /\ UNCHANGED status
           \/ /\ Expired(a)
              /\ status' = "ending"
              /\ age' = a
              /\ udp' = Underway(udp, D, d)
              /\ UNCHANGED losses
  BY DEF ReadyTick
<1> DEFINE heard == D # {} \/ E # {}
           flight == Underway(udp, D, d)
<1>2. /\ status = "ready" /\ client' = client /\ PingBatch(d)
      /\ deadFor' = IF client = "dead" THEN Later(deadFor, d) ELSE 0
  BY DEF ReadyTick
<1>3. age' = (IF heard THEN 0 ELSE age + d)
  BY <1>1 DEF AgeAfter, SendPing
<1>4. \/ status' = "ready" /\ age' <= PingTimeout /\ SendPing(age', flight, d)
      \/ status' = "ending" /\ age' > PingTimeout /\ udp' = flight /\ losses' = losses
  <2>1. age' \in Int
    BY <1>3, KeepaliveAssumption DEF TypeOK
  <2> QED  BY <1>1, <1>2, <1>3, <2>1, KeepaliveAssumption DEF AgeAfter, Expired, SendPing
<1>5. /\ flight \subseteq 1 .. Rtt
      /\ \A q \in flight : q + d \in udp
      /\ D = {} => \A r \in udp : r > d /\ r - d \in flight
      /\ D \subseteq udp
  BY DrainFacts DEF TypeOK
<1>6. /\ tcp' \subseteq 1 .. Rtt
      /\ \A q \in tcp' : q + d \in tcp
      /\ E \subseteq tcp
  BY <1>1, DrainFacts DEF TypeOK
<1>7. /\ losses' \in 0 .. MaxLoss
      /\ udp' \subseteq 1 .. Rtt
      /\ flight \subseteq udp'
      /\ client # "awake" => udp' = flight
  BY <1>4, <1>5, KeepaliveAssumption DEF TypeOK, SendPing
<1>8. sincePing' \in 0 .. PingInterval
  BY <1>2, BatchFacts
<1>9. /\ d \in Nat \ {0} /\ d <= MaxGap /\ MaxGap \in Nat /\ MaxLag \in Nat /\ Rtt \in Nat
      /\ PingTimeout \in Nat /\ Never \in Nat /\ age \in Int /\ age' \in Int
      /\ -MaxLag <= age /\ age <= PingTimeout
  BY <1>2, <1>3, KeepaliveAssumption DEF TypeOK, AgeIsSilence, Never
<1>10. /\ udpQuiet \in Nat /\ udpQuiet' \in 0 .. Never
       /\ D # {} \/ udpQuiet' = udpQuiet + d \/ udpQuiet' = Never
       /\ tcpQuiet \in Nat /\ tcpQuiet' \in 0 .. Never
       /\ E # {} \/ tcpQuiet' = tcpQuiet + d \/ tcpQuiet' = Never
  BY <1>1, <1>9, LaterFacts DEF TypeOK
<1>11. deadFor \in Nat /\ deadFor' \in 0 .. Never /\ deadFor' <= deadFor + d
  BY <1>2, <1>9, LaterFacts DEF TypeOK
<1>12. TypeOK'
  <2>1. age' \in -MaxLag .. PingTimeout + MaxGap
    BY <1>3, <1>9
  <2>2. status' \in {"awaitingUDP", "ready", "ending"} /\ client' \in {"awake", "tcpOnly", "dead"}
    BY <1>2, <1>4 DEF TypeOK
  <2> QED  BY <1>6, <1>7, <1>8, <1>10, <1>11, <2>1, <2>2 DEF TypeOK, Never
<1>13. client = "awake" =>
          /\ age' <= PingTimeout
          /\ status' = "ready" =>
                \/ age' <= losses' * Period + sincePing'
                \/ \E r \in udp' : age' <= (MaxLoss + 1) * Period + Rtt - r
  <2> SUFFICES ASSUME client = "awake"
               PROVE  /\ age' <= PingTimeout
                      /\ status' = "ready" =>
                            \/ age' <= losses' * Period + sincePing'
                            \/ \E r \in udp' : age' <= (MaxLoss + 1) * Period + Rtt - r
    OBVIOUS
  <2>1. /\ Period \in Nat /\ PingInterval + d <= Period
        /\ losses * Period \in Nat
        /\ (losses + 1) * Period = losses * Period + Period
        /\ losses * Period + Period <= (MaxLoss + 1) * Period
        /\ (MaxLoss + 1) * Period \in Nat
        /\ (MaxLoss + 1) * Period + Rtt <= PingTimeout
    BY PeriodFacts DEF TypeOK
  <2>2. losses' * Period \in Nat
    BY <1>7, PeriodFacts
  <2>3. CASE heard
    <3>1. age' = 0 /\ sincePing' \in Nat
      BY <2>3, <1>3, <1>8, KeepaliveAssumption
    <3> QED  BY <3>1, <2>2, <1>9
  <2>4. CASE ~heard /\ \E r \in udp : age <= (MaxLoss + 1) * Period + Rtt - r
    <3>1. PICK r \in udp : age <= (MaxLoss + 1) * Period + Rtt - r
      BY <2>4
    <3>2. r - d \in udp' /\ r - d \in 1 .. Rtt /\ r \in Nat
      BY <2>4, <1>5, <1>7, <1>9 DEF TypeOK
    <3>3. age' = age + d
      BY <2>4, <1>3
    <3>4. age' <= (MaxLoss + 1) * Period + Rtt - (r - d)
      BY <3>1, <3>2, <3>3, <2>1, <1>9
    <3>5. age' <= PingTimeout
      BY <3>4, <3>2, <2>1, <1>9
    <3> QED  BY <3>2, <3>4, <3>5
  <2>5. CASE ~heard /\ age <= losses * Period + sincePing
    <3>1. age' = age + d /\ sincePing \in 0 .. PingInterval /\ PingInterval \in Nat
      BY <2>5, <1>3, KeepaliveAssumption DEF TypeOK
    <3>2. age' <= losses * Period + sincePing + d /\ sincePing + d <= Period
      BY <3>1, <2>1, <2>5, <1>9
    <3>3. age' <= PingTimeout
      BY <3>1, <3>2, <2>1, <1>9
    <3>4. SendPing(age', flight, d) /\ status' = "ready"
      BY <3>3, <1>4, <1>9
    <3>5. CASE ~PingDue(d)
      <4>1. losses' = losses
        BY <3>4, <3>5 DEF SendPing
      <4>2. sincePing' = sincePing + d
        BY <3>5, <1>2, BatchFacts
      <4> QED  BY <4>1, <4>2, <3>1, <3>2, <3>3, <2>1, <1>9
    <3>6. CASE PingDue(d) /\ losses' = losses + 1
      <4>1. losses' * Period = losses * Period + Period
        BY <3>6, <2>1
      <4>2. sincePing' = 0
        BY <3>6, <1>2, BatchFacts
      <4> QED  BY <4>1, <4>2, <3>1, <3>2, <3>3, <2>1, <1>9
    <3>7. CASE PingDue(d) /\ \E r \in 1 .. Rtt : udp' = flight \cup {r}
      <4>1. PICK r \in 1 .. Rtt : udp' = flight \cup {r}
        BY <3>7
      <4>2. age' <= (MaxLoss + 1) * Period + Rtt - r
        BY <4>1, <3>1, <3>2, <2>1, <1>9
      <4> QED  BY <4>1, <4>2, <3>3
    <3> QED  BY <3>4, <3>5, <3>6, <3>7 DEF SendPing
  <2> QED  BY <2>3, <2>4, <2>5, <1>2 DEF HeardRecently
<1>14. NoFalseTimeout'
  BY <1>2, <1>4, <1>9, <1>13 DEF NoFalseTimeout
<1>15. HeardRecently'
  <2>1. Period' = Period
    BY DEF Period
  <2> QED  BY <1>2, <1>13, <2>1 DEF HeardRecently
<1>16. AgeIsSilence'
  <2>1. age <= udpQuiet /\ age <= tcpQuiet
    BY DEF AgeIsSilence
  <2>2. CASE heard
    BY <2>2, <1>2, <1>3, <1>4, <1>9, <1>10 DEF AgeIsSilence
  <2>3. CASE ~heard
    <3>1. age' = age + d /\ age + d < Never
      BY <2>3, <1>3, <1>9 DEF Never
    <3>2. age' <= udpQuiet' /\ age' <= tcpQuiet'
      BY <3>1, <2>1, <2>3, <1>9, <1>10
    <3> QED  BY <3>2, <1>4 DEF AgeIsSilence
  <2> QED  BY <2>2, <2>3
<1>17. LastWords'
  <2>1. CASE client # "dead"
    BY <2>1, <1>2 DEF LastWords
  <2>2. CASE client = "dead"
    <3>1. ASSUME NEW r \in 1 .. Rtt, r \in udp' \cup tcp' PROVE deadFor' + r <= Rtt
      <4>1. r + d \in udp \cup tcp
        BY <3>1, <2>2, <1>5, <1>6, <1>7
      <4>2. deadFor + (r + d) <= Rtt
        BY <4>1, <2>2 DEF LastWords
      <4>3. /\ deadFor' \in Int /\ deadFor \in Int /\ r \in Int /\ d \in Int /\ Rtt \in Int
            /\ deadFor' <= deadFor + d
        BY <1>9, <1>11
      <4> HIDE DEF heard, flight, KInv
      <4>4. \A x, y \in Int : y + (r + d) <= Rtt /\ x <= y + d => x + r <= Rtt
        BY <4>3
      <4> QED  BY <4>2, <4>3, <4>4
    <3>2. heard => deadFor <= Rtt
      <4> SUFFICES ASSUME heard PROVE deadFor <= Rtt
        OBVIOUS
      <4>1. PICK r \in udp \cup tcp : r \in D \cup E
        BY <1>5, <1>6
      <4>2. deadFor + r <= Rtt /\ r \in 1 .. Rtt
        BY <4>1, <2>2 DEF LastWords, TypeOK
      <4> QED  BY <4>2, <1>9, <1>11
    <3>3. deadFor' <= age' + MaxLag + Rtt + MaxGap
      BY <3>2, <2>2, <1>2, <1>3, <1>9, <1>11 DEF LastWords
    <3> QED  BY <3>1, <3>3, <2>2, <1>2, <1>6, <1>7 DEF LastWords
  <2> QED  BY <2>1, <2>2
<1> QED  BY <1>12, <1>14, <1>15, <1>16, <1>17

\* What the client sends and suffers, and the ticks that pass a session by.
LEMMA OthersKeep ==
    ASSUME KInv,
           \/ SendDatagram \/ SendTcpPong \/ PathBreaks \/ ClientDies
           \/ \E d \in 1 .. MaxGap : OtherTick(d)
           \/ UNCHANGED vars
    PROVE  KInv'
<1> USE DEF KInv
<1>0. Period' = Period /\ Never' = Never /\ MaxLag \in Nat /\ Rtt \in Nat /\ MaxGap \in Nat
  BY KeepaliveAssumption DEF Period, Never
<1>1. CASE SendDatagram
  <2>1. TypeOK'
    BY <1>1, <1>0 DEF SendDatagram, TypeOK
  <2> QED
    BY <1>1, <1>0, <2>1 DEF SendDatagram, NoFalseTimeout, HeardRecently, AgeIsSilence, LastWords
<1>2. CASE SendTcpPong
  <2>1. TypeOK'
    BY <1>2, <1>0 DEF SendTcpPong, TypeOK
  <2> QED
    BY <1>2, <1>0, <2>1 DEF SendTcpPong, NoFalseTimeout, HeardRecently, AgeIsSilence, LastWords
<1>3. CASE PathBreaks
  <2>1. TypeOK'
    BY <1>3, <1>0 DEF PathBreaks, TypeOK
  <2> QED
    BY <1>3, <1>0, <2>1 DEF PathBreaks, NoFalseTimeout, HeardRecently, AgeIsSilence, LastWords
<1>4. CASE ClientDies
  <2>1. TypeOK'
    BY <1>4, <1>0 DEF ClientDies, TypeOK
  <2>2. LastWords'
    <3>1. /\ deadFor = 0 /\ client' = "dead" /\ -MaxLag <= age /\ age \in Int
          /\ \A r \in udp \cup tcp : r \in 1 .. Rtt
      BY <1>4, KeepaliveAssumption DEF ClientDies, LastWords, TypeOK
    <3> QED  BY <1>4, <1>0, <3>1 DEF ClientDies, LastWords
  <2> QED
    BY <1>4, <1>0, <2>1, <2>2 DEF ClientDies, NoFalseTimeout, HeardRecently, AgeIsSilence
<1>5. ASSUME NEW d \in 1 .. MaxGap, OtherTick(d) PROVE KInv'
  <2>1. sincePing' \in 0 .. PingInterval
    BY <1>5, BatchFacts DEF OtherTick
  <2>2. TypeOK'
    BY <1>5, <1>0, <2>1 DEF OtherTick, TypeOK
  <2> QED
    BY <1>5, <1>0, <2>2 DEF OtherTick, NoFalseTimeout, HeardRecently, AgeIsSilence, LastWords
<1>6. CASE UNCHANGED vars
  BY <1>6, <1>0 DEF vars, TypeOK, NoFalseTimeout, HeardRecently, AgeIsSilence, LastWords
<1> QED  BY <1>1, <1>2, <1>3, <1>4, <1>5, <1>6

\* All of it is preserved by every step, for any configuration with room.
THEOREM KeepaliveInvariant == Spec => []KInv
<1>1. KInv /\ [Next]_vars => KInv'
  BY PairingKeeps, ReadyKeeps, OthersKeep DEF Next
<1> QED  BY InitKInv, <1>1, PTL DEF Spec

\* The age that runPingTick compares with PingTimeout never exceeds it by more
\* than one gap between ticks, and no more than the clocks' lag is it negative.
THEOREM KeepaliveTypeCorrect == Spec => []TypeOK
<1>1. KInv => TypeOK
  BY DEF KInv
<1> QED  BY KeepaliveInvariant, <1>1, PTL

\* runPingTick never ends the session of a client that answers, if the
\* timeout leaves room for as many lost pings in a row as there are.
THEOREM AnsweringClientsStay == Spec => []NoFalseTimeout
<1>1. KInv => NoFalseTimeout
  BY DEF KInv
<1> QED  BY KeepaliveInvariant, <1>1, PTL

\* runPingTick ends no session that was heard within PingTimeout, by a
\* datagram or by a Pong over TCP.
THEOREM OnlySilentSessionsEnd == Spec => []TimedOutOnlyIfSilent
<1>1. KInv => TimedOutOnlyIfSilent
  <2> SUFFICES ASSUME KInv, status = "ending"
               PROVE  udpQuiet > PingTimeout /\ tcpQuiet > PingTimeout
    BY DEF TimedOutOnlyIfSilent
  <2>1. /\ age > PingTimeout /\ age <= udpQuiet /\ age <= tcpQuiet
        /\ age \in Int /\ udpQuiet \in Int /\ tcpQuiet \in Int
    BY KeepaliveAssumption DEF KInv, AgeIsSilence, TypeOK, Never
  <2> QED  BY <2>1, KeepaliveAssumption
<1> QED  BY KeepaliveInvariant, <1>1, PTL

\* A dead client's session is ended no later than the timeout, counted from
\* the last thing it sent, and one tick.
THEOREM DeadClientsAreNoticed == Spec => []DeathNoticed
<1>1. KInv => DeathNoticed
  <2> SUFFICES ASSUME KInv, status = "ready", client = "dead"
               PROVE  deadFor <= PingTimeout + MaxLag + Rtt + MaxGap
    BY DEF DeathNoticed
  <2>1. /\ age <= PingTimeout /\ deadFor <= age + MaxLag + Rtt + MaxGap
        /\ age \in Int /\ deadFor \in Int
    BY KeepaliveAssumption DEF KInv, AgeIsSilence, LastWords, TypeOK, Never
  <2> QED  BY <2>1, KeepaliveAssumption
<1> QED  BY KeepaliveInvariant, <1>1, PTL
=============================================================================
