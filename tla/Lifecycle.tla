----------------------------- MODULE Lifecycle ------------------------------
(***************************************************************************)
(* Run: how a server starts, stops and is started again.  Each r in Runs   *)
(* is one call of Run, with a context of its own; calls may overlap and    *)
(* follow each other.  A call starts the accept loop, the UDP reader and   *)
(* the tick loop, which it waits for, and two watchers, which it does not. *)
(* Both addresses are configured.                                          *)
(*                                                                         *)
(* Of a connection only its serve goroutine and its session's disconnect   *)
(* are kept: modules TcpConn and Server have the rest.  Whether the event  *)
(* queue, which outlives a Run, accepts an event is a free choice.         *)
(*                                                                         *)
(* SwallowError, LeakListener, LoseError, ErrClosedIsTransient and         *)
(* FreeFirst are faulty forms of the operator after each, and not part of  *)
(* the specification.                                                      *)
(***************************************************************************)
CONSTANTS Runs,    \* calls of Run
          Conns,   \* connections that clients open
          None     \* no Run

ASSUME LifecycleAssumption == None \notin Runs

VARIABLES
    running,     \* s.running
    udpConn,     \* s.udpConn: whose socket it is
    phase,       \* where each Run is; first, second, third: deferred functions
    result,      \* what it returned
    ctx,         \* its caller has cancelled
    runCtx,      \* its runCtx is done
    firstErr,    \* an error has been recorded
    listener,    \* its TCP listener
    socket,      \* its UDP socket
    watchTCP, watchUDP,
    accept,      \* runTCPAccept
    readUDP,     \* runUDPReader
    tick,        \* runTickLoop
    serve,       \* each connection, up to the end of serveTCPConn
    of,          \* the Run whose listener it reached
    session      \* what became of its session

runVars == <<phase, result, ctx, firstErr>>
goVars  == <<watchTCP, watchUDP, accept, readUDP, tick>>
connVars == <<serve, of, session>>
vars == <<running, udpConn, runVars, runCtx, listener, socket, goVars, connVars>>

TypeOK ==
    /\ running \in BOOLEAN
    /\ udpConn \in Runs \cup {None}
    /\ phase \in [Runs -> {"called", "listenTCP", "listenUDP", "wait", "first", "second",
                       "third", "returned"}]
    /\ result \in [Runs -> {"none", "alreadyRunning", "listenError", "udpError", "ctxErr", "nil"}]
    /\ ctx \in [Runs -> BOOLEAN]
    /\ runCtx \in [Runs -> BOOLEAN]
    /\ firstErr \in [Runs -> BOOLEAN]
    /\ listener \in [Runs -> {"none", "open", "closed"}]
    /\ socket \in [Runs -> {"none", "open", "closed"}]
    /\ watchTCP \in [Runs -> {"none", "waiting", "done"}]
    /\ watchUDP \in [Runs -> {"none", "waiting", "done"}]
    /\ accept \in [Runs -> {"none", "accepting", "waiting", "done"}]
    /\ readUDP \in [Runs -> {"none", "reading", "done"}]
    /\ tick \in [Runs -> {"none", "looping", "done"}]
    /\ serve \in [Conns -> {"new", "dialling", "refused", "backlog", "serving", "closing", "done"}]
    /\ of \in [Conns -> Runs \cup {None}]
    /\ session \in [Conns -> {"none", "live", "queued", "lost", "cleaned"}]
    /\ \A r \in Runs :
          result[r] = "none" <=> phase[r] \in {"called", "listenTCP", "listenUDP", "wait"}

\* NewServer, and callers about to call Run.
Init ==
    /\ running = FALSE
    /\ udpConn = None
    /\ phase = [r \in Runs |-> "called"]
    /\ result = [r \in Runs |-> "none"]
    /\ ctx = [r \in Runs |-> FALSE]
    /\ runCtx = [r \in Runs |-> FALSE]
    /\ firstErr = [r \in Runs |-> FALSE]
    /\ listener = [r \in Runs |-> "none"]
    /\ socket = [r \in Runs |-> "none"]
    /\ watchTCP = [r \in Runs |-> "none"]
    /\ watchUDP = [r \in Runs |-> "none"]
    /\ accept = [r \in Runs |-> "none"]
    /\ readUDP = [r \in Runs |-> "none"]
    /\ tick = [r \in Runs |-> "none"]
    /\ serve = [c \in Conns |-> "new"]
    /\ of = [c \in Conns |-> None]
    /\ session = [c \in Conns |-> "none"]

-----------------------------------------------------------------------------
(* The callers and Run *)

\* The caller cancels; runCtx is a child of its context.
CancelCtx(r) ==
    /\ ~ctx[r]
    /\ ctx' = [ctx EXCEPT ![r] = TRUE]
    /\ runCtx' = [runCtx EXCEPT ![r] = phase[r] # "called"]
    /\ UNCHANGED <<running, udpConn, phase, result, firstErr, listener, socket, goVars, connVars>>

MayStart(r) == ~running

\* running.CompareAndSwap; the context may have been cancelled before.
Begin(r) ==
    /\ phase[r] = "called"
    /\ IF MayStart(r)
       THEN /\ running' = TRUE
            /\ phase' = [phase EXCEPT ![r] = "listenTCP"]
            /\ runCtx' = [runCtx EXCEPT ![r] = ctx[r]]
            /\ UNCHANGED result
       ELSE /\ phase' = [phase EXCEPT ![r] = "returned"]
            /\ result' = [result EXCEPT ![r] = "alreadyRunning"]
            /\ UNCHANGED <<running, runCtx>>
    /\ UNCHANGED <<udpConn, ctx, firstErr, listener, socket, goVars, connVars>>

\* The address is taken while the socket of another Run is open; the system
\* may also refuse for a reason of its own.
SwallowError(r) ==
    /\ phase' = [phase EXCEPT ![r] = "second"]
    /\ UNCHANGED result
ListenFails(r) ==
    /\ phase' = [phase EXCEPT ![r] = "second"]
    /\ result' = [result EXCEPT ![r] = "listenError"]

ListenTCP(r) ==
    /\ phase[r] = "listenTCP"
    /\ \/ /\ \A q \in Runs : listener[q] # "open"
          /\ listener' = [listener EXCEPT ![r] = "open"]
          /\ phase' = [phase EXCEPT ![r] = "listenUDP"]
          /\ UNCHANGED result
       \/ ListenFails(r) /\ UNCHANGED listener
    /\ UNCHANGED <<running, udpConn, ctx, runCtx, firstErr, socket, goVars, connVars>>

\* The TCP listener is left to itself when the UDP socket fails.
LeakListener(r) == UNCHANGED listener
CloseListener(r) == listener' = [listener EXCEPT ![r] = "closed"]

\* The UDP socket, and with it the goroutines: the listeners' watchers are
\* started by the goroutines that run runTCPAccept and runUDPReader.
ListenUDP(r) ==
    /\ phase[r] = "listenUDP"
    /\ \/ /\ \A q \in Runs : socket[q] # "open"
          /\ socket' = [socket EXCEPT ![r] = "open"]
          /\ udpConn' = r
          /\ phase' = [phase EXCEPT ![r] = "wait"]
          /\ accept' = [accept EXCEPT ![r] = "accepting"]
          /\ readUDP' = [readUDP EXCEPT ![r] = "reading"]
          /\ tick' = [tick EXCEPT ![r] = "looping"]
          /\ watchTCP' = [watchTCP EXCEPT ![r] = "waiting"]
          /\ watchUDP' = [watchUDP EXCEPT ![r] = "waiting"]
          /\ UNCHANGED <<listener, result>>
       \/ /\ ListenFails(r) /\ CloseListener(r)
          /\ UNCHANGED <<udpConn, socket, goVars>>
    /\ UNCHANGED <<running, ctx, runCtx, firstErr, connVars>>

\* wg.Wait returns, and the result is settled.
Waited(r) ==
    /\ phase[r] = "wait"
    /\ accept[r] = "done" /\ readUDP[r] = "done" /\ tick[r] = "done"
    /\ phase' = [phase EXCEPT ![r] = "first"]
    /\ result' = [result EXCEPT ![r] =
                     IF firstErr[r] THEN "udpError" ELSE IF ctx[r] THEN "ctxErr" ELSE "nil"]
    /\ UNCHANGED <<running, udpConn, ctx, runCtx, firstErr, listener, socket, goVars, connVars>>

\* The deferred functions, last in first out: s.udpConn = nil, cancel(),
\* s.running.Store(false).  A failed listen has not deferred the first.
FreeFirst == [first |-> "running", second |-> "cancel", third |-> "udpConn"]
Deferred == [first |-> "udpConn", second |-> "cancel", third |-> "running"]
After == [first |-> "second", second |-> "third", third |-> "returned"]

RunDeferred(r) ==
    /\ phase[r] \in DOMAIN After
    /\ udpConn' = IF Deferred[phase[r]] = "udpConn" THEN None ELSE udpConn
    /\ runCtx' = [runCtx EXCEPT ![r] = @ \/ Deferred[phase[r]] = "cancel"]
    /\ running' = (running /\ Deferred[phase[r]] # "running")
    /\ phase' = [phase EXCEPT ![r] = After[@]]
    /\ UNCHANGED <<result, ctx, firstErr, listener, socket, goVars, connVars>>

-----------------------------------------------------------------------------
(* The goroutines of a Run *)

CloseTCP(r) ==
    /\ watchTCP[r] = "waiting" /\ runCtx[r]
    /\ watchTCP' = [watchTCP EXCEPT ![r] = "done"]
    /\ CloseListener(r)
    /\ UNCHANGED <<running, udpConn, runVars, runCtx, socket, watchUDP, accept, readUDP, tick, connVars>>

CloseUDP(r) ==
    /\ watchUDP[r] = "waiting" /\ runCtx[r]
    /\ watchUDP' = [watchUDP EXCEPT ![r] = "done"]
    /\ socket' = [socket EXCEPT ![r] = "closed"]
    /\ UNCHANGED <<running, udpConn, runVars, runCtx, listener, watchTCP, accept, readUDP, tick, connVars>>

\* recordErr of an error that is not a cancellation.
LoseError(r) ==
    /\ runCtx' = [runCtx EXCEPT ![r] = TRUE]
    /\ UNCHANGED firstErr
RecordErr(r) ==
    /\ firstErr' = [firstErr EXCEPT ![r] = TRUE]
    /\ runCtx' = [runCtx EXCEPT ![r] = TRUE]

\* ReadFrom fails: because the socket is closed, or for another reason, which
\* ends the whole Run.  io.EOF of an open socket counts as a clean close: the
\* reader returns ctx.Err(), and the Run goes on without it.
ReadUDPEnds(r) ==
    /\ readUDP[r] = "reading"
    /\ readUDP' = [readUDP EXCEPT ![r] = "done"]
    /\ \/ UNCHANGED <<firstErr, runCtx>>
       \/ socket[r] = "open" /\ RecordErr(r)
    /\ UNCHANGED <<running, udpConn, phase, result, ctx, listener, socket, watchTCP, watchUDP,
                   accept, tick, connVars>>

\* Accept returns a connection.  A closed listener may still hand out one that
\* was queued: the select of MemoryListener.Accept takes either case.
AcceptConn(c) ==
    /\ serve[c] = "backlog" /\ accept[of[c]] = "accepting"
    /\ serve' = [serve EXCEPT ![c] = "serving"]
    /\ session' = [session EXCEPT ![c] = "live"]
    /\ UNCHANGED <<running, udpConn, runVars, runCtx, listener, socket, goVars, of>>

\* Accept fails with net.ErrClosed; any other error is logged and the loop
\* goes on, which changes nothing.
ErrClosedIsTransient(r) ==
    /\ accept[r] = "accepting" /\ listener[r] = "closed"
    /\ UNCHANGED vars
AcceptEnds(r) ==
    /\ accept[r] = "accepting" /\ listener[r] = "closed"
    /\ accept' = [accept EXCEPT ![r] = "waiting"]
    /\ UNCHANGED <<running, udpConn, runVars, runCtx, listener, socket, watchTCP, watchUDP,
                   readUDP, tick, connVars>>

\* The accept loop's own wait group.
AcceptReturns(r) ==
    /\ accept[r] = "waiting"
    /\ \A c \in Conns : of[c] = r => serve[c] \notin {"serving", "closing"}
    /\ accept' = [accept EXCEPT ![r] = "done"]
    /\ UNCHANGED <<running, udpConn, runVars, runCtx, listener, socket, watchTCP, watchUDP,
                   readUDP, tick, connVars>>

\* A tick handles a queued eventDisconnect, whoever's it is: s.events and
\* s.sessions are the server's.  It may do so after cancellation too, as the
\* select takes either case.
TickCleansUp(r, c) ==
    /\ tick[r] = "looping"
    /\ session[c] = "queued"
    /\ session' = [session EXCEPT ![c] = "cleaned"]
    /\ UNCHANGED <<running, udpConn, runVars, runCtx, listener, socket, goVars, serve, of>>

TickStops(r) ==
    /\ tick[r] = "looping" /\ runCtx[r]
    /\ tick' = [tick EXCEPT ![r] = "done"]
    /\ UNCHANGED <<running, udpConn, runVars, runCtx, listener, socket, watchTCP, watchUDP,
                   accept, readUDP, connVars>>

-----------------------------------------------------------------------------
(* Connections *)

\* MemoryListener.Dial: the listener is open, then the connection is queued;
\* if the listener has closed in between, the select takes either case.
Dial(c, r) ==
    /\ serve[c] = "new"
    /\ listener[r] = "open"
    /\ serve' = [serve EXCEPT ![c] = "dialling"]
    /\ of' = [of EXCEPT ![c] = r]
    /\ UNCHANGED <<running, udpConn, runVars, runCtx, listener, socket, goVars, session>>

DialEnds(c) ==
    /\ serve[c] = "dialling"
    /\ \/ serve' = [serve EXCEPT ![c] = "backlog"]
       \/ listener[of[c]] = "closed" /\ serve' = [serve EXCEPT ![c] = "refused"]
    /\ UNCHANGED <<running, udpConn, runVars, runCtx, listener, socket, goVars, of, session>>

\* The reader ends and pushes its eventDisconnect.
ReaderEnds(c) ==
    /\ serve[c] = "serving"
    /\ serve' = [serve EXCEPT ![c] = "closing"]
    /\ \E s \in {"queued", "lost"} : session' = [session EXCEPT ![c] = s]
    /\ UNCHANGED <<running, udpConn, runVars, runCtx, listener, socket, goVars, of>>

\* serveTCPConn waits for the writer.  That ends with the context, and may end
\* before: with its channel, when the session is cleaned up, or with a write
\* to the connection, which is closed.
ServeReturns(c) ==
    /\ serve[c] = "closing"
    /\ serve' = [serve EXCEPT ![c] = "done"]
    /\ UNCHANGED <<running, udpConn, runVars, runCtx, listener, socket, goVars, of, session>>

-----------------------------------------------------------------------------

RunStep(r) == Begin(r) \/ ListenTCP(r) \/ ListenUDP(r) \/ Waited(r) \/ RunDeferred(r)

Next ==
    \/ \E r \in Runs :
          \/ CancelCtx(r) \/ RunStep(r)
          \/ CloseTCP(r) \/ CloseUDP(r) \/ ReadUDPEnds(r)
          \/ AcceptEnds(r) \/ AcceptReturns(r) \/ TickStops(r)
          \/ \E c \in Conns : TickCleansUp(r, c) \/ Dial(c, r)
    \/ \E c \in Conns : AcceptConn(c) \/ DialEnds(c) \/ ReaderEnds(c) \/ ServeReturns(c)

Spec == Init /\ [][Next]_vars

\* Every goroutine that can go on does.  A caller need not cancel, a client
\* need not hang up and the network need not fail; but the watcher of a
\* connection closes it on cancellation, and then its reader and its writer
\* end.
FairSpec ==
    /\ Spec
    /\ \A r \in Runs :
          /\ WF_vars(RunStep(r) /\ phase[r] # "called")
          /\ WF_vars(CloseTCP(r)) /\ WF_vars(CloseUDP(r))
          /\ WF_vars(ReadUDPEnds(r) /\ socket[r] = "closed")
          /\ WF_vars(AcceptEnds(r)) /\ WF_vars(AcceptReturns(r)) /\ WF_vars(TickStops(r))
    /\ \A c \in Conns :
          WF_vars(ReaderEnds(c) /\ runCtx[of[c]]) /\ WF_vars(ServeReturns(c) /\ runCtx[of[c]])

-----------------------------------------------------------------------------
(* Properties *)

\* The tick goroutine is alone: whatever the calls of Run, no two tick loops
\* run at once, and the one that runs sends with the UDP socket of its own
\* Run, not with one that an earlier Run has closed or cleared.
OneTickLoop ==
    \A r \in Runs : tick[r] = "looping" =>
        udpConn = r /\ \A q \in Runs : tick[q] = "looping" => q = r

\* When Run returns, all it waits for has ended and nothing holds the TCP
\* address, whichever way it went.  Only its UDP socket may still be open,
\* for a moment, if its reader ended by itself: the watcher that closes it is
\* not waited for, but is there and has been told.
ReturnedIsQuiet ==
    \A r \in Runs : phase[r] = "returned" =>
        /\ accept[r] \in {"none", "done"} /\ readUDP[r] \in {"none", "done"}
        /\ tick[r] \in {"none", "done"}
        /\ listener[r] # "open"
        /\ socket[r] = "open" => watchUDP[r] = "waiting" /\ runCtx[r]
        /\ \A c \in Conns : of[c] = r => serve[c] \notin {"serving", "closing"} /\ session[c] # "live"

\* Run tells why it ended: it returns nil in no case, ctx.Err() only if the
\* caller cancelled, and an error of a goroutine only if there was one.
ResultExplained ==
    \A r \in Runs :
        /\ result[r] # "nil"
        /\ result[r] = "ctxErr" => ctx[r]
        /\ firstErr[r] /\ phase[r] = "returned" => result[r] = "udpError"

\* Run returns once its caller cancels or a goroutine fails, with transient
\* Accept errors, connections in any state and other calls of Run around it.
RunReturns == \A r \in Runs : (phase[r] = "wait" /\ runCtx[r]) ~> phase[r] = "returned"
=============================================================================
