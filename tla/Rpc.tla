-------------------------------- MODULE Rpc ---------------------------------
(***************************************************************************)
(* The calls of one player whose session is ready: the client numbers them *)
(* with correlation ids, the reader queues them, the tick goroutine        *)
(* dispatches each to the handler registered for its body and pushes the   *)
(* RpcResponse to the outbound channel, from which the writer delivers it. *)
(* Game messages of the same player travel with them, and other callbacks  *)
(* send to the same channel.  The promise at stake is the one dispatchRPC  *)
(* makes to the client's pending-call map.                                 *)
(*                                                                         *)
(* The event queue is shared with every other connection, so whether it    *)
(* accepts an event is a free choice.  inbox holds this session's events   *)
(* only; the queue and drain keep their order.                             *)
(*                                                                         *)
(* ForgetSocket, DropFull and ErrorFirst are faulty forms of the operator  *)
(* after each, and not part of the specification.                          *)
(***************************************************************************)
EXTENDS Naturals, Sequences

CONSTANTS Types,       \* full names of the messages a oneof may hold
          None,        \* no message, no handler
          Oneofs,      \* oneofs of ClientMessagePrototype and RPCRequestPrototype
          SendDepth,   \* Config.SendQueueDepth
          MaxCalls,    \* bound: calls the client makes
          MaxQueued    \* bound: frames of this client in the event queue

ASSUME RpcAssumption ==
    /\ None \notin Types
    /\ Types \cap {"unset", "scalar"} = {}
    /\ Oneofs \in Nat
    /\ SendDepth \in Nat \ {0}
    /\ MaxCalls \in Nat
    /\ MaxQueued \in Nat

Cids == 1 .. MaxCalls

\* What a payload is to proto.Unmarshal: an error, or for each oneof of the
\* prototype its populated field, which may be no message.  A server without
\* the prototype answers, or drops, whatever comes like a malformed payload.
Messages == [1 .. Oneofs -> Types \cup {"unset", "scalar"}]
Malformed == <<"malformed">>
Payloads == Messages \cup {Malformed}

Request(c, p)  == [kind |-> "rpc", cid |-> c, payload |-> p]
GameMsg(p)     == [kind |-> "game", cid |-> 0, payload |-> p]
DisconnectEvent == [kind |-> "disconnect", cid |-> 0, payload |-> Malformed]
Events == [kind : {"rpc"}, cid : Cids, payload : Payloads]
    \cup [kind : {"game", "disconnect"}, cid : {0}, payload : Payloads]

\* A ServerFrame: the answer to a call, or with cid 0 anything else.
Answer(c, s)  == [cid |-> c, status |-> s]
ServerMessage == Answer(0, "ok")
Frames == [cid : 0 .. MaxCalls, status : {"ok", "error"}]

VARIABLES
    call,        \* the client's view of each call: its pending-call map
    inbox,       \* the session's events in the event queue
    handlers,    \* handlerRegistry: types with a client handler
    rpcHandlers, \* rpcRegistry: registered by HandleRPC or by rpc.Register
    registered,  \* the session is in s.sessions and its channel is open
    fired,       \* disconnectOnce
    sock,        \* the TCP connection is open
    reading,     \* runTCPReader runs
    writing,     \* runTCPWriter runs
    sendTCP,     \* the outbound channel
    silent       \* history: calls whose RpcResponse did not marshal

vars == <<call, inbox, handlers, rpcHandlers, registered, fired, sock, reading,
          writing, sendTCP, silent>>

registries == <<handlers, rpcHandlers>>

TypeOK ==
    /\ call \in [Cids -> {"unsent", "pending", "ok", "error"}]
    /\ inbox \in Seq(Events)
    /\ handlers \subseteq Types
    /\ rpcHandlers \in [Types -> {None, "raw", "typed"}]
    /\ registered \in BOOLEAN
    /\ fired \in BOOLEAN
    /\ sock \in BOOLEAN
    /\ reading \in BOOLEAN
    /\ writing \in BOOLEAN
    /\ sendTCP \in Seq(Frames)
    /\ Len(sendTCP) <= SendDepth
    /\ silent \subseteq Cids

\* The session has logged in and paired; the game may have registered any of
\* its handlers.
Init ==
    /\ call = [c \in Cids |-> "unsent"]
    /\ inbox = <<>>
    /\ handlers = {}
    /\ rpcHandlers = [t \in Types |-> None]
    /\ registered = TRUE
    /\ fired = FALSE
    /\ sock = TRUE
    /\ reading = TRUE
    /\ writing = TRUE
    /\ sendTCP = <<>>
    /\ silent = {}

-----------------------------------------------------------------------------
(* Registration, at any time: the registries have a lock for it *)

HandleClient(t) ==
    /\ handlers' = handlers \cup {t}
    /\ UNCHANGED <<call, inbox, rpcHandlers, registered, fired, sock, reading, writing,
                   sendTCP, silent>>

\* HandleRPC directly, or through the typed wrapper of package rpc; the later
\* registration of a type overwrites the earlier.
HandleRPC(t) ==
    /\ \E kind \in {"raw", "typed"} : rpcHandlers' = [rpcHandlers EXCEPT ![t] = kind]
    /\ UNCHANGED <<call, inbox, handlers, registered, fired, sock, reading, writing,
                   sendTCP, silent>>

-----------------------------------------------------------------------------
(* The client and the reader *)

\* runTCPReader ends: it pushes an eventDisconnect, once and ignoring whether
\* the queue took it, and serveTCPConn closes the connection.
ReaderReturns ==
    /\ reading' = FALSE
    /\ sock' = FALSE
    /\ fired' = TRUE
    /\ \/ UNCHANGED inbox
       \/ ~fired /\ inbox' = Append(inbox, DisconnectEvent)

\* A frame arrives and the queue takes it, or is full and the reader ends.
Arrives(e) ==
    /\ reading /\ sock
    /\ \/ /\ Len(inbox) < MaxQueued
          /\ inbox' = Append(inbox, e)
          /\ UNCHANGED <<fired, sock, reading>>
       \/ ReaderReturns

\* The client makes its next call.
Call(c, p) ==
    /\ call[c] = "unsent"
    /\ \A d \in 1 .. c - 1 : call[d] # "unsent"
    /\ call' = [call EXCEPT ![c] = "pending"]
    /\ Arrives(Request(c, p))
    /\ UNCHANGED <<registries, registered, writing, sendTCP, silent>>

SendGame(p) ==
    /\ Arrives(GameMsg(p))
    /\ UNCHANGED <<call, registries, registered, writing, sendTCP, silent>>

\* The client or the network ends the connection.
ConnBreaks ==
    /\ sock
    /\ sock' = FALSE
    /\ UNCHANGED <<call, inbox, registries, registered, fired, reading, writing, sendTCP,
                   silent>>

\* ReadFrame fails on the closed connection.
ReadFails ==
    /\ reading /\ ~sock
    /\ ReaderReturns
    /\ UNCHANGED <<call, registries, registered, writing, sendTCP, silent>>

-----------------------------------------------------------------------------
(* What the tick goroutine does with the session; q is its inbox without   *)
(* the event at hand                                                       *)

\* A disconnect that is lost when the queue is full.
ForgetSocket(q) ==
    /\ fired' = TRUE
    /\ UNCHANGED sock
    /\ inbox' = q \/ (inbox' = Append(q, DisconnectEvent) /\ ~fired)

\* scheduleDisconnect: a full queue makes it close the connection instead.
ScheduleDisconnect(q) ==
    /\ fired' = TRUE
    /\ \/ inbox' = q /\ fired /\ UNCHANGED sock
       \/ inbox' = q /\ ~fired /\ sock' = FALSE
       \/ inbox' = Append(q, DisconnectEvent) /\ ~fired /\ UNCHANGED sock

HasRoom == Len(sendTCP) < SendDepth

\* Overflow that only loses the frame.
DropFull(f, q) ==
    /\ sendTCP' = IF HasRoom THEN Append(sendTCP, f) ELSE sendTCP
    /\ inbox' = q
    /\ UNCHANGED <<fired, sock>>

\* pushTCP; a session that was cleaned up has no channel any more.
PushTCP(f, q) ==
    \/ /\ ~registered
       /\ inbox' = q
       /\ UNCHANGED <<fired, sock, sendTCP>>
    \/ /\ registered /\ HasRoom
       /\ sendTCP' = Append(sendTCP, f)
       /\ inbox' = q
       /\ UNCHANGED <<fired, sock>>
    \/ /\ registered /\ ~HasRoom
       /\ ScheduleDisconnect(q)
       /\ UNCHANGED sendTCP

\* The message in the first oneof that holds one: the loop passes over a
\* oneof that is unset and over one whose field is no message.
ExtractOneofBody(p) ==
    LET holding == {i \in DOMAIN p : p[i] \in Types} IN
    IF holding = {} THEN None
    ELSE p[CHOOSE i \in holding : \A j \in holding : i <= j]

\* What a handler can do, and what the wrapper of package rpc adds to it.  A
\* typed nil response is no nil to dispatchRPC, and marshals to nothing.
Results(kind) ==
    {"response", "nil", "unmarshalable", "error", "badText", "panic"}
        \cup (IF kind = "typed" THEN {"typeMismatch"} ELSE {})

\* Which RpcResponse dispatchRPC makes of a result.  Every failure becomes
\* one with ok=false, but error_message is a proto3 string: with a text that
\* is no UTF-8 the frame does not marshal and nothing is sent.
Reply(result) ==
    CASE result \in {"response", "nil"} -> "ok"
      [] result = "badText" -> "none"
      [] OTHER -> "error"

\* The registries' lookups; the body may be no message.
LookupClient(body) == body \in handlers
LookupRPC(body) == IF body = None THEN None ELSE rpcHandlers[body]

\* dispatchRPC up to its send: the refusals, and the handler.
DispatchRPC(p) ==
    LET h == LookupRPC(ExtractOneofBody(p)) IN
    IF h = None THEN {"error"} ELSE {Reply(r) : r \in Results(h)}

\* An error written to the connection at once, past the queue.
ErrorFirst(c, status, q) ==
    /\ inbox' = q
    /\ UNCHANGED <<fired, sock>>
    /\ \/ /\ status = "none"
          /\ silent' = silent \cup {c}
          /\ UNCHANGED <<call, sendTCP>>
       \/ /\ status = "error"
          /\ call' = [call EXCEPT ![c] = status]
          /\ UNCHANGED <<sendTCP, silent>>
       \/ /\ status = "ok" /\ HasRoom
          /\ sendTCP' = Append(sendTCP, Answer(c, status))
          /\ UNCHANGED <<call, silent>>

\* sendRPCOK and sendRPCError.
SendRPC(c, status, q) ==
    /\ UNCHANGED call
    /\ \/ /\ status = "none"
          /\ silent' = silent \cup {c}
          /\ inbox' = q
          /\ UNCHANGED <<fired, sock, sendTCP>>
       \/ /\ status # "none"
          /\ PushTCP(Answer(c, status), q)
          /\ UNCHANGED silent

-----------------------------------------------------------------------------
(* The tick goroutine *)

\* dispatchMessage drops the frame of a session that was cleaned up, unless
\* its player is back: it looks for the id, and another connection may have
\* it.  Then the handlers run as for a live session.
DropStale ==
    /\ inbox # <<>> /\ Head(inbox).kind # "disconnect"
    /\ ~registered
    /\ inbox' = Tail(inbox)
    /\ UNCHANGED <<call, registries, registered, fired, sock, reading, writing, sendTCP,
                   silent>>

HandleRequest ==
    /\ inbox # <<>> /\ Head(inbox).kind = "rpc"
    /\ \E status \in DispatchRPC(Head(inbox).payload) :
          SendRPC(Head(inbox).cid, status, Tail(inbox))
    /\ UNCHANGED <<registries, registered, reading, writing>>

\* dispatchUserMessage: nothing comes of a payload without a handler, and a
\* handler returns, sends to its player with TickCtx, or panics.
HandleGame ==
    /\ inbox # <<>> /\ Head(inbox).kind = "game"
    /\ \/ inbox' = Tail(inbox) /\ UNCHANGED <<fired, sock, sendTCP>>
       \/ /\ LookupClient(ExtractOneofBody(Head(inbox).payload))
          /\ \/ PushTCP(ServerMessage, Tail(inbox))
             \/ ScheduleDisconnect(Tail(inbox)) /\ UNCHANGED sendTCP
    /\ UNCHANGED <<call, registries, registered, reading, writing, silent>>

\* cleanupSession: what the writer has not written by now meets a closed
\* connection.
Cleanup ==
    /\ inbox # <<>> /\ Head(inbox).kind = "disconnect"
    /\ inbox' = Tail(inbox)
    /\ registered' = FALSE
    /\ sock' = FALSE
    /\ sendTCP' = <<>>
    /\ UNCHANGED <<call, registries, fired, reading, writing, silent>>

\* SendTCP or BroadcastTCP from any callback: OnTick, or the handler of
\* another player.
Send ==
    /\ registered
    /\ PushTCP(ServerMessage, inbox)
    /\ UNCHANGED <<call, registries, registered, reading, writing, silent>>

\* TickCtx.Disconnect from any callback, or the ping timeout.
Disconnect ==
    /\ registered
    /\ ScheduleDisconnect(inbox)
    /\ UNCHANGED <<call, registries, registered, reading, writing, sendTCP, silent>>

-----------------------------------------------------------------------------
(* The writer *)

\* runTCPWriter writes the next frame, or fails to and ends.
Write ==
    /\ writing /\ sendTCP # <<>>
    /\ sendTCP' = Tail(sendTCP)
    /\ IF sock
       THEN /\ call' = [c \in Cids |-> IF c = Head(sendTCP).cid
                                       THEN Head(sendTCP).status ELSE call[c]]
            /\ UNCHANGED writing
       ELSE writing' = FALSE /\ UNCHANGED call
    /\ UNCHANGED <<inbox, registries, registered, fired, sock, reading, silent>>

-----------------------------------------------------------------------------

TickStep == DropStale \/ HandleRequest \/ HandleGame \/ Cleanup

Next ==
    \/ \E t \in Types : HandleClient(t) \/ HandleRPC(t)
    \/ \E p \in Payloads : SendGame(p) \/ \E c \in Cids : Call(c, p)
    \/ ConnBreaks \/ ReadFails
    \/ TickStep \/ Send \/ Disconnect
    \/ Write

Spec == Init /\ [][Next]_vars

\* The goroutines of the server run, and the client reads what it is sent.
FairSpec ==
    /\ Spec
    /\ WF_vars(TickStep)
    /\ WF_vars(ReadFails)
    /\ WF_vars(Write)

-----------------------------------------------------------------------------
(* Properties *)

\* The calls that a queue holds events or answers of, and whether it holds
\* them in the order of the calls.
CallsIn(q) == {q[i].cid : i \in DOMAIN q} \ {0}
Ascending(q) ==
    \A i, j \in DOMAIN q : i < j /\ q[i].cid # 0 /\ q[j].cid # 0 => q[i].cid < q[j].cid

Queued == CallsIn(inbox)
Outbound == CallsIn(sendTCP)
Answered == {c \in Cids : call[c] \in {"ok", "error"}}

Ends(q) == \E i \in DOMAIN q : q[i].kind = "disconnect"

\* Answers leave in the order of the calls, whatever path of dispatchRPC
\* each takes, and so no call is answered twice: behind every call that was
\* answered come those whose answer is queued, and behind them those that
\* wait to be dispatched, each part in the order of the calls.
AnswersInOrder ==
    /\ \A c \in Answered, d \in Outbound \cup Queued : c < d
    /\ \A c \in Outbound, d \in Queued : c < d
    /\ Ascending(inbox)
    /\ Ascending(sendTCP)

\* A pending call is never forgotten: it waits in one of the two queues, or
\* its connection is closed or about to be, which also ends it for the
\* client; the one exception is an RpcResponse that does not marshal.
CallAccountedFor ==
    \A c \in Cids : call[c] = "pending" =>
        \/ c \in Queued \cup Outbound
        \/ ~sock
        \/ Ends(inbox)
        \/ c \in silent

\* Every call comes to an end for the client, with an answer or with its
\* connection, unless its RpcResponse did not marshal.
CallSettles ==
    \A c \in Cids : call[c] = "pending" ~> (call[c] # "pending" \/ ~sock \/ c \in silent)

\* The comment of dispatchRPC: "On every code path it sends exactly one
\* RpcResponse with the matching correlation ID".  A call on a connection
\* that stays open is answered.
EveryCallAnswered ==
    \A c \in Cids : call[c] = "pending" ~> (call[c] # "pending" \/ ~sock)
=============================================================================
