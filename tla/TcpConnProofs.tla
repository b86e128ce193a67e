---------------------------- MODULE TcpConnProofs ----------------------------
(***************************************************************************)
(* Theorems about module TcpConn, for every queue depth.                   *)
(***************************************************************************)
EXTENDS TcpConn, TLAPS

\* The order of cleanupSession: the socket is closed first, and never reopens.
CleanupOrder ==
    /\ event \in {"cleaning", "cleaned"} => ~sock
    /\ tick \in {"closeChan", "nilField"} => event = "cleaning"
    /\ event = "cleaning" => tick \in {"closeChan", "nilField"}

Inv == TypeOK /\ CleanupOrder

\* serveTCPConn starts its goroutines in a state that satisfies Inv.
LEMMA InitInv == Init => Inv
<1> SUFFICES ASSUME Init PROVE Inv
  OBVIOUS
<1>1. buf \in Seq(1 .. MaxPushes) /\ Len(buf) <= SendDepth
  BY TcpConnAssumption DEF Init
<1>2. ctxDone \in BOOLEAN /\ sock \in BOOLEAN /\ chanClosed \in BOOLEAN
  BY Zenon DEF Init
<1>3. held \in 0 .. MaxPushes /\ pushed \in 0 .. MaxPushes /\ delivered \in 0 .. MaxPushes
  BY TcpConnAssumption DEF Init
<1>4. TypeOK
  <2>1. /\ serve = "reading" /\ watcher = "waiting" /\ writer = "loop" /\ on = "chan"
        /\ field = "chan" /\ event = "none" /\ tick = "run"
    BY DEF Init
  <2> QED
    BY <1>1, <1>2, <1>3, <2>1 DEF TypeOK
<1>5. CleanupOrder
  BY DEF Init, CleanupOrder
<1> QED
  BY <1>4, <1>5 DEF Inv

\* Every step of the connection's goroutines keeps the types.
LEMMA NextTypeOK == TypeOK /\ [Next]_vars => TypeOK'
<1> SUFFICES ASSUME TypeOK, [Next]_vars PROVE TypeOK'
  OBVIOUS
<1> USE DEF TypeOK, writerVars, chanVars
<1>1. CASE Cancel
  BY <1>1 DEF Cancel
<1>2. CASE ReaderReturns
  BY <1>2 DEF ReaderReturns, PushDisconnect
<1>3. CASE ServeCloses
  BY <1>3 DEF ServeCloses
<1>4. CASE ServeReturns
  BY <1>4 DEF ServeReturns
<1>5. CASE Watch
  <2>1. CASE UNCHANGED sock
    BY <1>5, <2>1 DEF Watch
  <2>2. CASE sock' = FALSE
    BY <1>5, <2>2 DEF Watch
  <2> QED  BY <1>5, <2>1, <2>2 DEF Watch
<1>6. CASE EnterSelect
  BY <1>6 DEF EnterSelect
<1>7. CASE SelectCtx
  BY <1>7 DEF SelectCtx
<1>8. CASE SelectFrame
  <2>1. /\ Head(buf) \in 1 .. MaxPushes
        /\ Tail(buf) \in Seq(1 .. MaxPushes)
        /\ Len(Tail(buf)) <= SendDepth
    BY <1>8, TcpConnAssumption DEF SelectFrame
  <2> QED
    BY <1>8, <2>1 DEF SelectFrame
<1>9. CASE SelectClosed
  BY <1>9 DEF SelectClosed
<1>10. CASE WriteFrame
  BY <1>10, TcpConnAssumption DEF WriteFrame
<1>11. CASE WriteFails
  BY <1>11, TcpConnAssumption DEF WriteFails
<1>12. CASE PushTCP
  <2>1. CASE HasRoom /\ buf' = Append(buf, pushed + 1)
    <3>1. /\ pushed + 1 \in 1 .. MaxPushes
          /\ buf' \in Seq(1 .. MaxPushes)
          /\ Len(buf') = Len(buf) + 1
          /\ pushed' = pushed + 1
      BY <1>12, <2>1, TcpConnAssumption DEF PushTCP
    <3> QED
      BY <1>12, <2>1, <3>1, TcpConnAssumption DEF PushTCP, HasRoom
  <2>2. CASE ~HasRoom
    <3>1. sock' \in BOOLEAN
      BY <1>12, <2>2, Zenon DEF PushTCP
    <3> QED
      BY <1>12, <2>2, <3>1 DEF PushTCP, PushDisconnect
  <2> QED
    BY <1>12, <2>1, <2>2 DEF PushTCP
<1>13. CASE ScheduleDisconnect
  <2>1. sock' \in BOOLEAN
    BY <1>13, Zenon DEF ScheduleDisconnect
  <2> QED
    BY <1>13, <2>1 DEF ScheduleDisconnect, PushDisconnect
<1>14. CASE CleanupSocket
  BY <1>14 DEF CleanupSocket
<1>15. CASE CleanupChan
  BY <1>15 DEF CleanupChan
<1>16. CASE CleanupField
  BY <1>16 DEF CleanupField
<1>17. CASE TickStops
  BY <1>17 DEF TickStops
<1>18. CASE UNCHANGED vars
  BY <1>18 DEF vars
<1> QED
  BY <1>1, <1>2, <1>3, <1>4, <1>5, <1>6, <1>7, <1>8, <1>9, <1>10, <1>11, <1>12, <1>13, <1>14,
     <1>15, <1>16, <1>17, <1>18 DEF Next, Serve, Select, Tick, Ended

\* Every step keeps the order in which cleanupSession closes things.
LEMMA NextCleanupOrder == TypeOK /\ CleanupOrder /\ [Next]_vars => CleanupOrder'
<1> SUFFICES ASSUME TypeOK, CleanupOrder, [Next]_vars PROVE CleanupOrder'
  OBVIOUS
<1> USE DEF CleanupOrder, writerVars, chanVars
<1>1. CASE Cancel \/ ServeReturns \/ EnterSelect \/ SelectCtx \/ SelectFrame \/ SelectClosed
           \/ WriteFrame \/ WriteFails \/ UNCHANGED vars
  BY <1>1 DEF Cancel, ServeReturns, EnterSelect, SelectCtx, SelectFrame, SelectClosed,
              WriteFrame, WriteFails, vars
<1>2. CASE ReaderReturns
  BY <1>2 DEF ReaderReturns, PushDisconnect
<1>3. CASE ServeCloses \/ Watch
  BY <1>3 DEF ServeCloses, Watch
<1>4. CASE PushTCP
  <2>1. event = "none" \/ (event' = event /\ tick' = tick)
    BY <1>4 DEF PushTCP, PushDisconnect
  <2>2. tick' = tick /\ event' \in {event, "queued", "refused"}
    BY <1>4 DEF PushTCP, PushDisconnect
  <2>3. ~sock => ~sock'
    BY <1>4, Zenon DEF PushTCP
  <2> QED
    BY <1>4, <2>1, <2>2, <2>3 DEF PushTCP
<1>5. CASE ScheduleDisconnect
  BY <1>5 DEF ScheduleDisconnect, PushDisconnect
<1>6. CASE CleanupSocket
  BY <1>6 DEF CleanupSocket
<1>7. CASE CleanupChan
  BY <1>7 DEF CleanupChan
<1>8. CASE CleanupField
  BY <1>8 DEF CleanupField, TypeOK
<1>9. CASE TickStops
  BY <1>9 DEF TickStops
<1> QED
  BY <1>1, <1>2, <1>3, <1>4, <1>5, <1>6, <1>7, <1>8, <1>9 DEF Next, Serve, Select, Tick, Ended

\* Inv holds in every reachable state.
LEMMA InvHolds == Spec => []Inv
<1>1. Inv /\ [Next]_vars => Inv'
  BY NextTypeOK, NextCleanupOrder DEF Inv
<1> QED
  BY <1>1, InitInv, PTL DEF Spec

\* The outbound channel never holds more than SendQueueDepth frames.
THEOREM ConnTypeCorrect == Spec => []TypeOK
<1>1. Inv => TypeOK
  BY DEF Inv
<1> QED
  BY <1>1, InvHolds, PTL

\* Whatever the writer was doing when its session was cleaned up, it writes
\* nothing to the client after OnDisconnect.
THEOREM WriterSilentAfterCleanup == Spec => SilentAfterCleanup
<1>1. Inv /\ [Next]_vars => [delivered' # delivered => event # "cleaned"]_vars
  <2> SUFFICES ASSUME Inv, Next, event = "cleaned" PROVE delivered' = delivered
    OBVIOUS
  <2> USE DEF writerVars, chanVars
  <2>1. ~sock
    BY DEF Inv, CleanupOrder
  <2>2. ~WriteFrame
    BY <2>1 DEF WriteFrame
  <2> QED
    BY <2>2 DEF Next, Cancel, Serve, ReaderReturns, ServeCloses, ServeReturns, Watch,
                EnterSelect, Select, SelectCtx, SelectFrame, SelectClosed, WriteFails,
                PushTCP, ScheduleDisconnect, Tick, CleanupSocket, CleanupChan, CleanupField,
                TickStops, Ended, vars
<1> QED
  BY <1>1, InvHolds, PTL DEF Spec, SilentAfterCleanup
=============================================================================
