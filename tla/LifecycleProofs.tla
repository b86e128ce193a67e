-------------------------- MODULE LifecycleProofs ---------------------------
(***************************************************************************)
(* Proofs about module Lifecycle, for any number of calls of Run, before,  *)
(* during and after each other, and of connections.                        *)
(***************************************************************************)
EXTENDS Lifecycle, TLAPS

Starting == {"called", "listenTCP", "listenUDP"}
Ending == {"first", "second", "third"}

\* The Run that holds s.running.
Active(r) == phase[r] \in {"listenTCP", "listenUDP", "wait"} \cup Ending

\* CompareAndSwap admits one Run at a time, and while its goroutines run
\* s.udpConn is its socket.
OneActive ==
    /\ \A r \in Runs : Active(r) => running
    /\ \A q, r \in Runs : Active(q) /\ Active(r) => q = r
    /\ \A r \in Runs : phase[r] = "wait" => udpConn = r

\* How far the goroutines of a Run are, and what that says of its sockets.
Goroutines ==
    \A r \in Runs :
        /\ phase[r] \in Starting =>
              /\ accept[r] = "none" /\ readUDP[r] = "none" /\ tick[r] = "none"
              /\ watchTCP[r] = "none" /\ watchUDP[r] = "none"
              /\ socket[r] = "none" /\ ~firstErr[r]
        /\ phase[r] \in Ending \cup {"returned"} =>
              /\ accept[r] \in {"none", "done"} /\ readUDP[r] \in {"none", "done"}
              /\ tick[r] \in {"none", "done"}
        /\ listener[r] = "open" =>
              phase[r] \in {"listenUDP", "wait"} /\ accept[r] \in {"none", "accepting"}
        /\ socket[r] = "open" => watchUDP[r] = "waiting"
        /\ socket[r] # "none" \/ watchUDP[r] # "none" => readUDP[r] # "none"
        /\ phase[r] = "wait" => readUDP[r] # "none"
        /\ firstErr[r] => readUDP[r] = "done"

\* runCtx ends for a reason, and a Run that was waited for has one to tell.
Reasons ==
    \A r \in Runs :
        /\ phase[r] \in Starting \cup {"wait"} => (runCtx[r] => ctx[r] \/ firstErr[r])
        /\ phase[r] = "wait" /\ tick[r] = "done" => runCtx[r]
        /\ phase[r] = "wait" => tick[r] # "none"
        /\ phase[r] = "third" => runCtx[r]
        /\ phase[r] = "returned" => runCtx[r] \/ socket[r] = "none"
        /\ firstErr[r] /\ phase[r] # "wait" => result[r] = "udpError"
        /\ result[r] # "nil" /\ (result[r] = "ctxErr" => ctx[r])

\* A connection is served only while its accept loop waits for it.
Served ==
    \A c \in Conns :
        /\ serve[c] # "new" => of[c] \in Runs
        /\ serve[c] \in {"serving", "closing"} => accept[of[c]] \in {"accepting", "waiting"}
        /\ session[c] = "live" => serve[c] = "serving"

LInv == TypeOK /\ OneActive /\ Goroutines /\ Reasons /\ Served

\* It holds before the first Run.
LEMMA InitLInv == Init => LInv
<1> SUFFICES ASSUME Init PROVE LInv
  OBVIOUS
<1>1. TypeOK
  BY DEF Init, TypeOK
<1>2. OneActive
  BY DEF Init, OneActive, Active, Ending
<1>3. Goroutines
  BY DEF Init, Goroutines, Starting, Ending
<1>4. Reasons
  BY DEF Init, Reasons, Starting
<1>5. Served
  BY DEF Init, Served
<1> QED  BY <1>1, <1>2, <1>3, <1>4, <1>5 DEF LInv

\* Types, one action after the other.
LEMMA TypeStep == ASSUME TypeOK, [Next]_vars PROVE TypeOK'
<1> USE DEF TypeOK
<1>1. ASSUME NEW r \in Runs, CancelCtx(r) PROVE TypeOK'
  BY <1>1 DEF CancelCtx, connVars, goVars
<1>2. ASSUME NEW r \in Runs, Begin(r) PROVE TypeOK'
  <2>1. runCtx' \in [Runs -> BOOLEAN]
    BY <1>2 DEF Begin
  <2>2. running' \in BOOLEAN
    BY <1>2 DEF Begin
  <2>3. \A q \in Runs :
          result'[q] = "none" <=> phase'[q] \in {"called", "listenTCP", "listenUDP", "wait"}
    BY <1>2 DEF Begin
  <2> QED  BY <1>2, <2>1, <2>2, <2>3 DEF Begin, connVars, goVars
<1>3. ASSUME NEW r \in Runs, ListenTCP(r) PROVE TypeOK'
  BY <1>3 DEF ListenTCP, ListenFails, connVars, goVars
<1>4. ASSUME NEW r \in Runs, ListenUDP(r) PROVE TypeOK'
  <2>1. CASE UNCHANGED <<udpConn, socket, goVars>>
    BY <1>4, <2>1 DEF ListenUDP, ListenFails, CloseListener, connVars, goVars
  <2>2. CASE UNCHANGED <<listener, result>>
    <3>1. \A q \in Runs :
            result'[q] = "none" <=> phase'[q] \in {"called", "listenTCP", "listenUDP", "wait"}
      BY <1>4, <2>2 DEF ListenUDP, ListenFails
    <3> QED  BY <1>4, <2>2, <3>1 DEF ListenUDP, ListenFails, CloseListener, connVars, goVars
  <2> QED  BY <1>4, <2>1, <2>2 DEF ListenUDP
<1>5. ASSUME NEW r \in Runs, Waited(r) PROVE TypeOK'
  BY <1>5 DEF Waited, connVars, goVars
<1>6. ASSUME NEW r \in Runs, RunDeferred(r) PROVE TypeOK'
  BY <1>6 DEF RunDeferred, After, Deferred, connVars, goVars
<1>7. ASSUME NEW r \in Runs, CloseTCP(r) PROVE TypeOK'
  BY <1>7 DEF CloseTCP, CloseListener, connVars, runVars
<1>8. ASSUME NEW r \in Runs, CloseUDP(r) PROVE TypeOK'
  BY <1>8 DEF CloseUDP, connVars, runVars
<1>9. ASSUME NEW r \in Runs, ReadUDPEnds(r) PROVE TypeOK'
  <2>1. CASE RecordErr(r)
    <3>1. firstErr' \in [Runs -> BOOLEAN]
      BY <2>1 DEF RecordErr
    <3>2. runCtx' \in [Runs -> BOOLEAN]
      BY <2>1 DEF RecordErr
    <3> QED  BY <1>9, <3>1, <3>2 DEF ReadUDPEnds, connVars
  <2>2. CASE UNCHANGED <<firstErr, runCtx>>
    BY <1>9, <2>2 DEF ReadUDPEnds, connVars
  <2> QED  BY <1>9, <2>1, <2>2 DEF ReadUDPEnds
<1>10. ASSUME NEW r \in Runs, AcceptEnds(r) PROVE TypeOK'
  BY <1>10 DEF AcceptEnds, connVars, runVars
<1>11. ASSUME NEW r \in Runs, AcceptReturns(r) PROVE TypeOK'
  BY <1>11 DEF AcceptReturns, connVars, runVars
<1>12. ASSUME NEW r \in Runs, TickStops(r) PROVE TypeOK'
  BY <1>12 DEF TickStops, connVars, runVars
<1>13. ASSUME NEW r \in Runs, NEW c \in Conns, TickCleansUp(r, c) PROVE TypeOK'
  BY <1>13 DEF TickCleansUp, runVars, goVars
<1>14. ASSUME NEW r \in Runs, NEW c \in Conns, Dial(c, r) PROVE TypeOK'
  BY <1>14 DEF Dial, runVars, goVars
<1>15. ASSUME NEW c \in Conns, AcceptConn(c) PROVE TypeOK'
  BY <1>15 DEF AcceptConn, runVars, goVars
<1>16. ASSUME NEW c \in Conns, DialEnds(c) PROVE TypeOK'
  BY <1>16 DEF DialEnds, runVars, goVars
<1>17. ASSUME NEW c \in Conns, ReaderEnds(c) PROVE TypeOK'
  BY <1>17 DEF ReaderEnds, runVars, goVars
<1>18. ASSUME NEW c \in Conns, ServeReturns(c) PROVE TypeOK'
  BY <1>18 DEF ServeReturns, runVars, goVars
<1>19. CASE UNCHANGED vars
  BY <1>19 DEF vars, runVars, goVars, connVars
<1> QED
  BY <1>1, <1>2, <1>3, <1>4, <1>5, <1>6, <1>7, <1>8, <1>9, <1>10, <1>11, <1>12, <1>13,
     <1>14, <1>15, <1>16, <1>17, <1>18, <1>19 DEF Next, RunStep

\* One Run holds s.running, from its CompareAndSwap to its last deferred
\* function.
LEMMA OneActiveStep == ASSUME LInv, [Next]_vars PROVE OneActive'
<1> USE DEF LInv, OneActive, Active, Ending, TypeOK
<1>1. ASSUME NEW r \in Runs, Begin(r) PROVE OneActive'
  <2>1. CASE running
    BY <1>1, <2>1 DEF Begin, MayStart
  <2>2. CASE ~running
    <3>1. phase'[r] = "listenTCP" /\ \A q \in Runs : q # r => ~Active(q) /\ phase'[q] = phase[q]
      BY <1>1, <2>2 DEF Begin, MayStart
    <3>2. running'
      BY <1>1, <2>2 DEF Begin, MayStart
    <3> QED  BY <1>1, <3>1, <3>2 DEF Begin
  <2> QED  BY <2>1, <2>2
<1>2. ASSUME NEW r \in Runs, ListenTCP(r) PROVE OneActive'
  BY <1>2 DEF ListenTCP, ListenFails
<1>3. ASSUME NEW r \in Runs, ListenUDP(r) PROVE OneActive'
  BY <1>3 DEF ListenUDP, ListenFails
<1>4. ASSUME NEW r \in Runs, Waited(r) PROVE OneActive'
  BY <1>4 DEF Waited
<1>5. ASSUME NEW r \in Runs, RunDeferred(r) PROVE OneActive'
  <2>1. phase[r] \in Ending
    BY <1>5 DEF RunDeferred, After
  <2>2. \A q \in Runs : q # r => ~Active(q) /\ phase'[q] = phase[q]
    BY <1>5, <2>1 DEF RunDeferred
  <2>3. phase'[r] = After[phase[r]] /\ phase'[r] # "wait"
    BY <1>5, <2>1 DEF RunDeferred, After
  <2>4. phase'[r] # "returned" => running'
    BY <1>5, <2>1 DEF RunDeferred, After, Deferred
  <2>5. phase'[r] \in {"second", "third", "returned"}
    BY <2>1, <2>3 DEF After
  <2> QED  BY <2>2, <2>3, <2>4, <2>5
<1>6. ASSUME UNCHANGED <<phase, running, udpConn>> PROVE OneActive'
  BY <1>6
<1>7. ASSUME NEW r \in Runs,
             CancelCtx(r) \/ CloseTCP(r) \/ CloseUDP(r) \/ ReadUDPEnds(r)
                \/ AcceptEnds(r) \/ AcceptReturns(r) \/ TickStops(r)
      PROVE  UNCHANGED <<phase, running, udpConn>>
  BY <1>7 DEF CancelCtx, CloseTCP, CloseUDP, ReadUDPEnds, AcceptEnds, AcceptReturns, TickStops,
              runVars
<1>8. ASSUME NEW c \in Conns,
             \/ \E r \in Runs : TickCleansUp(r, c) \/ Dial(c, r)
             \/ AcceptConn(c) \/ DialEnds(c) \/ ReaderEnds(c) \/ ServeReturns(c)
      PROVE  UNCHANGED <<phase, running, udpConn>>
  BY <1>8 DEF TickCleansUp, Dial, AcceptConn, DialEnds, ReaderEnds, ServeReturns, runVars
<1>9. CASE UNCHANGED vars
  BY <1>9 DEF vars, runVars
<1> QED
  BY <1>1, <1>2, <1>3, <1>4, <1>5, <1>6, <1>7, <1>8, <1>9 DEF Next, RunStep

\* Goroutines and sockets of a Run move together, and only between the
\* phases that start and wait for them.
LEMMA GoroutinesStep == ASSUME LInv, [Next]_vars PROVE Goroutines'
<1> USE DEF LInv, Goroutines, Starting, Ending, TypeOK
<1>1. ASSUME NEW r \in Runs, CancelCtx(r) PROVE Goroutines'
  BY <1>1 DEF CancelCtx, goVars
<1>2. ASSUME NEW r \in Runs, Begin(r) PROVE Goroutines'
  BY <1>2 DEF Begin, goVars
<1>3. ASSUME NEW r \in Runs, ListenTCP(r) PROVE Goroutines'
  BY <1>3 DEF ListenTCP, ListenFails, goVars
<1>4. ASSUME NEW r \in Runs, ListenUDP(r) PROVE Goroutines'
  BY <1>4 DEF ListenUDP, ListenFails, CloseListener, goVars
<1>5. ASSUME NEW r \in Runs, Waited(r) PROVE Goroutines'
  BY <1>5 DEF Waited, goVars
<1>6. ASSUME NEW r \in Runs, RunDeferred(r) PROVE Goroutines'
  BY <1>6 DEF RunDeferred, After, goVars
<1>7. ASSUME NEW r \in Runs, CloseTCP(r) PROVE Goroutines'
  BY <1>7 DEF CloseTCP, CloseListener, runVars
<1>8. ASSUME NEW r \in Runs, CloseUDP(r) PROVE Goroutines'
  BY <1>8 DEF CloseUDP, runVars
<1>9. ASSUME NEW r \in Runs, ReadUDPEnds(r) PROVE Goroutines'
  BY <1>9 DEF ReadUDPEnds, RecordErr
<1>10. ASSUME NEW r \in Runs, AcceptEnds(r) PROVE Goroutines'
  BY <1>10 DEF AcceptEnds, runVars
<1>11. ASSUME NEW r \in Runs, AcceptReturns(r) PROVE Goroutines'
  BY <1>11 DEF AcceptReturns, runVars
<1>12. ASSUME NEW r \in Runs, TickStops(r) PROVE Goroutines'
  BY <1>12 DEF TickStops, runVars
<1>13. ASSUME UNCHANGED <<runVars, listener, socket, goVars>> PROVE Goroutines'
  BY <1>13 DEF runVars, goVars
<1>14. ASSUME NEW c \in Conns,
              \/ \E r \in Runs : TickCleansUp(r, c) \/ Dial(c, r)
              \/ AcceptConn(c) \/ DialEnds(c) \/ ReaderEnds(c) \/ ServeReturns(c)
       PROVE  UNCHANGED <<runVars, listener, socket, goVars>>
  BY <1>14 DEF TickCleansUp, Dial, AcceptConn, DialEnds, ReaderEnds, ServeReturns
<1>15. CASE UNCHANGED vars
  BY <1>13, <1>15 DEF vars
<1> QED
  BY <1>1, <1>2, <1>3, <1>4, <1>5, <1>6, <1>7, <1>8, <1>9, <1>10, <1>11, <1>12, <1>13,
     <1>14, <1>15 DEF Next, RunStep

\* runCtx is only ended with a reason, and the result names it.
LEMMA ReasonsStep == ASSUME LInv, [Next]_vars PROVE Reasons'
<1> USE DEF LInv, Reasons, Starting, TypeOK
<1>1. ASSUME NEW r \in Runs, CancelCtx(r) PROVE Reasons'
  BY <1>1 DEF CancelCtx, goVars
<1>2. ASSUME NEW r \in Runs, Begin(r) PROVE Reasons'
  BY <1>2 DEF Begin, goVars, Goroutines
<1>3. ASSUME NEW r \in Runs, ListenTCP(r) PROVE Reasons'
  BY <1>3 DEF ListenTCP, ListenFails, goVars, Goroutines
<1>4. ASSUME NEW r \in Runs, ListenUDP(r) PROVE Reasons'
  BY <1>4 DEF ListenUDP, ListenFails, goVars, Goroutines
<1>5. ASSUME NEW r \in Runs, Waited(r) PROVE Reasons'
  BY <1>5 DEF Waited, goVars
<1>6. ASSUME NEW r \in Runs, RunDeferred(r) PROVE Reasons'
  <2>1. /\ phase[r] \in {"first", "second", "third"} /\ phase' = [phase EXCEPT ![r] = After[@]]
        /\ UNCHANGED <<result, ctx, firstErr, socket, tick>>
    BY <1>6 DEF RunDeferred, After, goVars
  <2>2. \A q \in Runs : q # r => runCtx'[q] = runCtx[q] /\ phase'[q] = phase[q]
    BY <1>6 DEF RunDeferred
  <2>3. runCtx[r] \/ phase[r] = "second" => runCtx'[r]
    <3>1. phase[r] = "second" => Deferred[phase[r]] = "cancel"
      BY DEF Deferred
    <3>2. runCtx'[r] = (runCtx[r] \/ Deferred[phase[r]] = "cancel")
      BY <1>6 DEF RunDeferred
    <3> QED  BY <3>1, <3>2
  <2>4. /\ phase'[r] \in {"second", "third", "returned"}
        /\ phase'[r] = "third" => phase[r] = "second"
        /\ phase'[r] = "returned" => phase[r] = "third"
    BY <2>1 DEF After
  <2> QED  BY <2>1, <2>2, <2>3, <2>4
<1>7. ASSUME NEW r \in Runs, ReadUDPEnds(r) PROVE Reasons'
  BY <1>7 DEF ReadUDPEnds, RecordErr, Goroutines, Ending
<1>8. ASSUME NEW r \in Runs, TickStops(r) PROVE Reasons'
  BY <1>8 DEF TickStops, runVars
<1>9. ASSUME UNCHANGED <<runVars, runCtx, tick, socket>> PROVE Reasons'
  BY <1>9 DEF runVars
<1>10. ASSUME NEW r \in Runs,
              CloseTCP(r) \/ AcceptEnds(r) \/ AcceptReturns(r)
       PROVE  UNCHANGED <<runVars, runCtx, tick, socket>>
  BY <1>10 DEF CloseTCP, AcceptEnds, AcceptReturns
<1>11. ASSUME NEW c \in Conns,
              \/ \E r \in Runs : TickCleansUp(r, c) \/ Dial(c, r)
              \/ AcceptConn(c) \/ DialEnds(c) \/ ReaderEnds(c) \/ ServeReturns(c)
       PROVE  UNCHANGED <<runVars, runCtx, tick, socket>>
  BY <1>11 DEF TickCleansUp, Dial, AcceptConn, DialEnds, ReaderEnds, ServeReturns, goVars
<1>12. CASE UNCHANGED vars
  BY <1>9, <1>12 DEF vars, goVars
<1>13. ASSUME NEW r \in Runs, CloseUDP(r) PROVE Reasons'
  BY <1>13 DEF CloseUDP, runVars
<1> QED
  BY <1>1, <1>2, <1>3, <1>4, <1>5, <1>6, <1>7, <1>8, <1>9, <1>10, <1>11, <1>12, <1>13
     DEF Next, RunStep

\* The accept loop outlives the connections it counts.
LEMMA ServedStep == ASSUME LInv, [Next]_vars PROVE Served'
<1> USE DEF LInv, Served, TypeOK
<1>1. ASSUME NEW r \in Runs, ListenUDP(r) PROVE Served'
  BY <1>1 DEF ListenUDP, connVars, goVars, Goroutines, Starting
<1>2. ASSUME NEW r \in Runs, AcceptEnds(r) PROVE Served'
  BY <1>2 DEF AcceptEnds, connVars
<1>3. ASSUME NEW r \in Runs, AcceptReturns(r) PROVE Served'
  BY <1>3 DEF AcceptReturns, connVars
<1>4. ASSUME NEW r \in Runs, NEW c \in Conns, TickCleansUp(r, c) PROVE Served'
  BY <1>4 DEF TickCleansUp, goVars
<1>5. ASSUME NEW r \in Runs, NEW c \in Conns, Dial(c, r) PROVE Served'
  BY <1>5 DEF Dial, goVars
<1>6. ASSUME NEW c \in Conns, AcceptConn(c) PROVE Served'
  BY <1>6 DEF AcceptConn, goVars
<1>7. ASSUME NEW c \in Conns, DialEnds(c) PROVE Served'
  BY <1>7 DEF DialEnds, goVars
<1>8. ASSUME NEW c \in Conns, ReaderEnds(c) PROVE Served'
  BY <1>8 DEF ReaderEnds, goVars
<1>9. ASSUME NEW c \in Conns, ServeReturns(c) PROVE Served'
  BY <1>9 DEF ServeReturns, goVars
<1>10. ASSUME UNCHANGED <<connVars, accept>> PROVE Served'
  BY <1>10 DEF connVars
<1>11. ASSUME NEW r \in Runs,
              \/ CancelCtx(r) \/ Begin(r) \/ ListenTCP(r) \/ Waited(r) \/ RunDeferred(r)
              \/ CloseTCP(r) \/ CloseUDP(r) \/ ReadUDPEnds(r) \/ TickStops(r)
       PROVE  UNCHANGED <<connVars, accept>>
  BY <1>11 DEF CancelCtx, Begin, ListenTCP, Waited, RunDeferred, CloseTCP, CloseUDP, ReadUDPEnds,
               TickStops, goVars
<1>12. CASE UNCHANGED vars
  BY <1>10, <1>12 DEF vars, goVars
<1> QED
  BY <1>1, <1>2, <1>3, <1>4, <1>5, <1>6, <1>7, <1>8, <1>9, <1>10, <1>11, <1>12
     DEF Next, RunStep

-----------------------------------------------------------------------------

\* Calls of Run in any number and order keep the whole invariant.
THEOREM LifecycleInvariant == Spec => []LInv
<1>1. LInv /\ [Next]_vars => LInv'
  <2> SUFFICES ASSUME LInv, [Next]_vars PROVE LInv'
    OBVIOUS
  <2>1. TypeOK'
    BY TypeStep DEF LInv
  <2> QED
    BY <2>1, OneActiveStep, GoroutinesStep, ReasonsStep, ServedStep DEF LInv
<1> QED  BY InitLInv, <1>1, PTL DEF Spec

\* Every variable keeps its type, and a Run has a result exactly from the
\* return statement of Run on.
THEOREM LifecycleTypeCorrect == Spec => []TypeOK
<1>1. LInv => TypeOK
  BY DEF LInv
<1> QED  BY LifecycleInvariant, <1>1, PTL

\* The CompareAndSwap of Run, and the order of its deferred functions, leave
\* one tick loop at a time, which sends with the socket of its own Run.
THEOREM TickLoopIsAlone == Spec => []OneTickLoop
<1>1. LInv => OneTickLoop
  <2> SUFFICES ASSUME LInv, NEW r \in Runs, tick[r] = "looping"
               PROVE  udpConn = r /\ \A q \in Runs : tick[q] = "looping" => q = r
    BY DEF OneTickLoop
  <2>1. \A q \in Runs : tick[q] = "looping" => phase[q] = "wait"
    BY DEF LInv, Goroutines, Starting, Ending, TypeOK
  <2> QED  BY <2>1 DEF LInv, OneActive, Active
<1> QED  BY LifecycleInvariant, <1>1, PTL

\* A Run that has returned left no goroutine it waits for, no served
\* connection and no TCP listener, and a UDP socket only with its watcher
\* about to close it.
THEOREM RunLeavesQuiet == Spec => []ReturnedIsQuiet
<1>1. LInv => ReturnedIsQuiet
  <2> SUFFICES ASSUME LInv, NEW r \in Runs, phase[r] = "returned"
               PROVE  /\ accept[r] \in {"none", "done"} /\ readUDP[r] \in {"none", "done"}
                      /\ tick[r] \in {"none", "done"}
                      /\ listener[r] # "open"
                      /\ socket[r] = "open" => watchUDP[r] = "waiting" /\ runCtx[r]
                      /\ \A c \in Conns : of[c] = r =>
                            serve[c] \notin {"serving", "closing"} /\ session[c] # "live"
    BY DEF ReturnedIsQuiet
  <2>1. /\ accept[r] \in {"none", "done"} /\ readUDP[r] \in {"none", "done"}
        /\ tick[r] \in {"none", "done"} /\ listener[r] # "open"
    BY DEF LInv, Goroutines, Ending
  <2>2. socket[r] = "open" => watchUDP[r] = "waiting" /\ runCtx[r]
    BY DEF LInv, Goroutines, Reasons
  <2> QED  BY <2>1, <2>2 DEF LInv, Served
<1> QED  BY LifecycleInvariant, <1>1, PTL

\* Run never returns nil, ctx.Err() only after a cancellation, and the error
\* of the UDP reader whenever there was one.
THEOREM ResultsAreExplained == Spec => []ResultExplained
<1>1. LInv => ResultExplained
  BY DEF LInv, Reasons, ResultExplained
<1> QED  BY LifecycleInvariant, <1>1, PTL
=============================================================================
