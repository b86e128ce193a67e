------------------------------ MODULE TcpConn -------------------------------
(***************************************************************************)
(* The goroutines of one TCP connection, at the grain of their channel     *)
(* operations: serveTCPConn (which runs the reader), its watcher, the      *)
(* writer, and the part of the tick goroutine that pushes to the outbound  *)
(* channel and cleans the session up.  Module Server has the same          *)
(* connection with the writer's steps merged and no cancellation.          *)
(*                                                                         *)
(* sess.sendTCP is a plain field that the tick goroutine assigns and the   *)
(* writer loads without synchronisation.  It is one pointer, so a load     *)
(* returns the channel or nil.  The writer loads it once for each select   *)
(* it enters, and stays with that value while the select blocks.           *)
(*                                                                         *)
(* IgnoreCtx, LeaveOpen and LeaveChan are faulty forms of the operator     *)
(* after each, and not part of the specification.                          *)
(***************************************************************************)
EXTENDS Naturals, Sequences

CONSTANTS SendDepth,   \* Config.SendQueueDepth
          MaxPushes    \* bound: frames the tick pushes to this connection

ASSUME TcpConnAssumption ==
    /\ SendDepth \in Nat \ {0}
    /\ MaxPushes \in Nat

VARIABLES
    ctxDone,     \* Run's context is cancelled
    sock,        \* the connection is open
    serve,       \* serveTCPConn, reader included
    watcher,
    writer,
    on,          \* the channel the writer's current select waits on
    field,       \* sess.sendTCP
    chanClosed,  \* the channel has been closed
    buf,         \* the frames buffered in it
    held,        \* the frame the writer is writing
    event,       \* this session's eventDisconnect
    tick,        \* the tick goroutine
    pushed,      \* frames pushed so far, which numbers them
    delivered    \* the last frame written to the socket

vars == <<ctxDone, sock, serve, watcher, writer, on, field, chanClosed, buf,
          held, event, tick, pushed, delivered>>

writerVars == <<writer, on, held, delivered>>
chanVars   == <<field, chanClosed, buf, pushed>>

\* A frame is its number; 0 is no frame.
TypeOK ==
    /\ ctxDone \in BOOLEAN
    /\ sock \in BOOLEAN
    /\ serve \in {"reading", "closing", "waiting", "done"}
    /\ watcher \in {"waiting", "done"}
    /\ writer \in {"loop", "select", "writing", "done"}
    /\ on \in {"chan", "nil"}
    /\ field \in {"chan", "nil"}
    /\ chanClosed \in BOOLEAN
    /\ buf \in Seq(1 .. MaxPushes)
    /\ Len(buf) <= SendDepth
    /\ held \in 0 .. MaxPushes
    /\ event \in {"none", "queued", "refused", "cleaning", "cleaned"}
    /\ tick \in {"run", "closeChan", "nilField", "stopped"}
    /\ pushed \in 0 .. MaxPushes
    /\ delivered \in 0 .. MaxPushes

\* serveTCPConn has made the session and started the watcher and the writer.
Init ==
    /\ ctxDone = FALSE
    /\ sock = TRUE
    /\ serve = "reading"
    /\ watcher = "waiting"
    /\ writer = "loop"
    /\ on = "chan"
    /\ field = "chan"
    /\ chanClosed = FALSE
    /\ buf = <<>>
    /\ held = 0
    /\ event = "none"
    /\ tick = "run"
    /\ pushed = 0
    /\ delivered = 0

\* Run's context ends.
Cancel ==
    /\ ~ctxDone
    /\ ctxDone' = TRUE
    /\ UNCHANGED <<sock, serve, watcher, writerVars, chanVars, event, tick>>

\* disconnectOnce.Do(push): the queue, shared with everyone else, accepts the
\* event or is full.
PushDisconnect ==
    \/ event # "none" /\ UNCHANGED event
    \/ event = "none" /\ event' \in {"queued", "refused"}

-----------------------------------------------------------------------------
(* serveTCPConn and its watcher *)

\* runTCPReader returns: a read error, or a frame that met a full queue.
ReaderReturns ==
    /\ serve = "reading"
    /\ serve' = "closing"
    /\ PushDisconnect
    /\ UNCHANGED <<ctxDone, sock, watcher, writerVars, chanVars, tick>>

ServeCloses ==
    /\ serve = "closing"
    /\ serve' = "waiting"
    /\ sock' = FALSE
    /\ UNCHANGED <<ctxDone, watcher, writerVars, chanVars, event, tick>>

\* writerDone is closed; the deferred close(stopWatcher) runs.
ServeReturns ==
    /\ serve = "waiting"
    /\ writer = "done"
    /\ serve' = "done"
    /\ UNCHANGED <<ctxDone, sock, watcher, writerVars, chanVars, event, tick>>

\* A watcher that only waits for the connection to end.
IgnoreCtx ==
    /\ watcher = "waiting"
    /\ serve = "done"
    /\ watcher' = "done"
    /\ UNCHANGED <<ctxDone, sock, serve, writerVars, chanVars, event, tick>>

\* The watcher's select: close the connection on cancellation, or stop.
Watch ==
    /\ watcher = "waiting"
    /\ watcher' = "done"
    /\ \/ ctxDone /\ sock' = FALSE
       \/ serve = "done" /\ UNCHANGED sock
    /\ UNCHANGED <<ctxDone, serve, writerVars, chanVars, event, tick>>

-----------------------------------------------------------------------------
(* runTCPWriter *)

\* The channel operand of the select is evaluated.
EnterSelect ==
    /\ writer = "loop"
    /\ writer' = "select"
    /\ on' = field
    /\ UNCHANGED <<ctxDone, sock, serve, watcher, held, delivered, chanVars, event, tick>>

SelectCtx ==
    /\ writer = "select"
    /\ ctxDone
    /\ writer' = "done"
    /\ UNCHANGED <<ctxDone, sock, serve, watcher, on, held, delivered, chanVars, event, tick>>

SelectFrame ==
    /\ writer = "select"
    /\ on = "chan"
    /\ buf # <<>>
    /\ writer' = "writing"
    /\ held' = Head(buf)
    /\ buf' = Tail(buf)
    /\ UNCHANGED <<ctxDone, sock, serve, watcher, on, delivered, field, chanClosed, pushed,
                   event, tick>>

\* A closed channel yields ok = false once it is empty.
SelectClosed ==
    /\ writer = "select"
    /\ on = "chan"
    /\ buf = <<>>
    /\ chanClosed
    /\ writer' = "done"
    /\ UNCHANGED <<ctxDone, sock, serve, watcher, on, held, delivered, chanVars, event, tick>>

WriteFrame ==
    /\ writer = "writing"
    /\ sock
    /\ writer' = "loop"
    /\ delivered' = held
    /\ held' = 0
    /\ UNCHANGED <<ctxDone, sock, serve, watcher, on, chanVars, event, tick>>

\* The write fails: the socket is closed here, or the peer is gone.
WriteFails ==
    /\ writer = "writing"
    /\ writer' = "done"
    /\ held' = 0
    /\ UNCHANGED <<ctxDone, sock, serve, watcher, on, delivered, chanVars, event, tick>>

-----------------------------------------------------------------------------
(* The tick goroutine *)

\* The non-blocking send of pushTCP finds room in the channel.
HasRoom == Len(buf) < SendDepth

\* pushTCP; a full channel schedules the disconnect, and a refused event
\* closes the socket.
PushTCP ==
    /\ tick = "run"
    /\ field = "chan"
    /\ pushed < MaxPushes
    /\ \/ /\ HasRoom
          /\ buf' = Append(buf, pushed + 1)
          /\ pushed' = pushed + 1
          /\ UNCHANGED <<event, sock>>
       \/ /\ ~HasRoom
          /\ PushDisconnect
          /\ sock' = (sock /\ ~(event = "none" /\ event' = "refused"))
          /\ UNCHANGED <<buf, pushed>>
    /\ UNCHANGED <<ctxDone, serve, watcher, writerVars, field, chanClosed, tick>>

\* scheduleDisconnect for any other reason.
ScheduleDisconnect ==
    /\ tick = "run"
    /\ event = "none"
    /\ PushDisconnect
    /\ sock' = (sock /\ event' # "refused")
    /\ UNCHANGED <<ctxDone, serve, watcher, writerVars, chanVars, tick>>

LeaveOpen ==
    /\ tick = "run"
    /\ event = "queued"
    /\ tick' = "closeChan"
    /\ event' = "cleaning"
    /\ UNCHANGED <<ctxDone, sock, serve, watcher, writerVars, chanVars>>

\* cleanupSession, in three steps: close the socket, close the channel, clear
\* the field (and run OnDisconnect).
CleanupSocket ==
    /\ tick = "run"
    /\ event = "queued"
    /\ tick' = "closeChan"
    /\ event' = "cleaning"
    /\ sock' = FALSE
    /\ UNCHANGED <<ctxDone, serve, watcher, writerVars, chanVars>>

LeaveChan ==
    /\ tick = "closeChan"
    /\ tick' = "nilField"
    /\ UNCHANGED <<ctxDone, sock, serve, watcher, writerVars, chanVars, event>>

CleanupChan ==
    /\ tick = "closeChan"
    /\ tick' = "nilField"
    /\ chanClosed' = TRUE
    /\ UNCHANGED <<ctxDone, sock, serve, watcher, writerVars, field, buf, pushed, event>>

CleanupField ==
    /\ tick = "nilField"
    /\ tick' = "run"
    /\ field' = "nil"
    /\ event' = "cleaned"
    /\ UNCHANGED <<ctxDone, sock, serve, watcher, writerVars, chanClosed, buf, pushed>>

\* runTickLoop returns; an event that is still queued stays there.
TickStops ==
    /\ tick = "run"
    /\ ctxDone
    /\ tick' = "stopped"
    /\ UNCHANGED <<ctxDone, sock, serve, watcher, writerVars, chanVars, event>>

-----------------------------------------------------------------------------

Serve  == ReaderReturns \/ ServeCloses \/ ServeReturns
Select == SelectCtx \/ SelectFrame \/ SelectClosed
Tick   == CleanupSocket \/ CleanupChan \/ CleanupField \/ TickStops

\* Every goroutine has ended, which is no deadlock.
Ended == serve = "done" /\ watcher = "done" /\ tick = "stopped" /\ UNCHANGED vars

Next ==
    \/ Cancel
    \/ Serve \/ Watch
    \/ EnterSelect \/ Select \/ WriteFrame \/ WriteFails
    \/ PushTCP \/ ScheduleDisconnect \/ Tick
    \/ Ended

Spec == Init /\ [][Next]_vars

\* Goroutines that can run do run.  A Read or a Write may block for ever on a
\* silent peer, but returns once the socket is closed; nobody is obliged to
\* cancel the context.
Fairness ==
    /\ WF_vars(~sock /\ ReaderReturns)
    /\ WF_vars(ServeCloses)
    /\ WF_vars(ServeReturns)
    /\ WF_vars(Watch)
    /\ WF_vars(EnterSelect)
    /\ WF_vars(Select)
    /\ WF_vars(~sock /\ WriteFails)
    /\ WF_vars(Tick)

FairSpec == Spec /\ Fairness

-----------------------------------------------------------------------------
(* Properties *)

\* Nothing is written to a client once its OnDisconnect has run: the socket
\* is closed before the channel that feeds the writer.
SilentAfterCleanup == [][delivered' # delivered => event # "cleaned"]_vars

\* When the context is cancelled all of the connection's goroutines end,
\* whatever each was blocked on, so Run's wait ends too.
ShutdownCompletes ==
    ctxDone ~> serve = "done" /\ watcher = "done" /\ writer = "done" /\ tick = "stopped"

\* Cleaning up a session ends its reader and unblocks its writer, whether
\* that one waits for a frame, with some still buffered, or for its peer to
\* take one.
CleanupUnblocks ==
    /\ event = "cleaned" ~> serve \in {"waiting", "done"}
    /\ event = "cleaned" /\ on = "chan" /\ writer \in {"select", "writing"} ~> writer = "done"

\* The writer exits when its session is cleaned up.
WriterExits == event = "cleaned" ~> writer = "done"
=============================================================================
