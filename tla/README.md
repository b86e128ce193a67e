# godotnet: TLA+ models, checks and proofs

godotnet is a Go library for multiplayer game servers: TCP for control, UDP for
game traffic, and one *tick goroutine* that runs all of the game's code. This
directory models its concurrency and its session lifecycle, model-checks them
with TLC and proves the central invariants with TLAPS.

## 1. Inventory

| Component | Source | State | Operations |
|---|---|---|---|
| tick loop | `tick.go` | `tickCount` | drain, handle each event, ping, OnTick |
| event queue | `events.go` | bounded channel | `push` (never blocks), `drain` (a snapshot) |
| session registry, teardown | `server.go`, `session.go` | `sessions`, `udpSessions`; per session `ID`, `authState`, `udpAddr`, `sendTCP`, `disconnectOnce` | `pushTCP`, `scheduleDisconnect`, `cleanupSession` |
| start and stop | `server.go` | `running`, `udpConn`, `runCtx`, the first error | `NewServer`, `Run` |
| login and pairing | `handshake.go` | the fields above, the token | `handleLogin`, `handleUDPHandshake` |
| TCP connections | `tcp.go` | socket, outbound channel | accept, reader, writer, watcher |
| UDP plane | `udp.go` | shared socket | reader, `udpSendRaw` |
| keepalive | `ping.go` | `lastSeenUnixNano`, `lastPingBatchAt` | `runPingTick`, `handlePong` |
| dispatch | `dispatch.go`, `rpc/rpc.go` | two registries | user messages, RPCs, panic recovery |
| TickCtx | `tickctx.go` | none | send, broadcast, disconnect |
| framing | `frame.go` | none | `ReadFrame`, `WriteFrame` |
| subscriptions | `sub/sub.go` | two inverse maps | subscribe, unsubscribe, publish |
| transport | `internal/transport` | `MemoryListener` | accept, dial, close |
| errors, logging, stubs, generated code | `errors.go`, `log.go`, `chat`, `interest`, `snapshot`, `controlpb` | none | |

**Interaction.** Each TCP connection has a reader, a writer and a watcher
goroutine; one more goroutine reads UDP. Readers push events into the shared
bounded queue. The tick goroutine alone drains it and alone touches the registry
and the session fields; it hands outbound frames to the writers through one
bounded channel per session and closes that channel in `cleanupSession`. Anyone
may ask for a disconnect; `disconnectOnce` lets only the first request push an
`eventDisconnect`, and the tick goroutine turns that event into the teardown.

**What is hard.** Every queue may be full at every push, the pushes that report
an overflow included. Events outlive the session they belong to. A player may be
back on a second connection while events of the first are still queued. A
datagram's address is its only identity. `sendTCP` is shared by the writer and
the tick goroutine without a lock. Teardown has several racing causes and must
happen once. The hazards are listed one by one, at their lines, in
`PROJECT.json`.

**What makes it correct.** Registry: at most one live session per player, and the
tables agree with the sessions. Teardown: once, and never forgotten unless the
queue refused it. UDP: datagrams go to the live session that paired from
their address, and only the holder of a session's token pairs it. Outbound:
nothing reaches a client after OnDisconnect. Goroutines: all of them end on cancellation. Calls: one answer
each, in order, or the end of the connection. Keepalive: a client that answers
stays, one that is dead goes, each within a bound that follows from the
configuration. Run: one tick loop, and a return that leaves nothing behind.
Framing: what is read is what was written, and errors are true. Topics: the
subscriptions leave with the player.

## 2. Modules

| Module | Content |
|---|---|
| `Server` | the server: tick goroutine, readers, UDP reader, registry, callbacks |
| `ServerProperties` | what it should guarantee, what comments say of it, and its mapping to `PlayerSessions` |
| `PlayerSessions` | abstract: what the session layer promises a game |
| `MCServer` | instances for TLC |
| `ServerProofs` | theorems about `Server`: types, registry, teardown accounting |
| `SessionProofs` | theorems about `Server` and `GameServer`: the life of a session, and what a game builds on it |
| `TcpConn`, `TcpConnProofs` | the goroutines of one connection, per channel operation |
| `SubManager`, `SubManagerProofs` | the topic subscriptions of package `sub` |
| `Subscriptions` | abstract: one relation between players and topics |
| `GameServer`, `MCGameServer` | `Server` composed with `SubManager`: a game with topics |
| `Rpc`, `RpcProofs` | calls, correlation ids, registries and answers of one player |
| `Keepalive`, `KeepaliveProofs` | the ping timeout against the clock and the network |
| `Lifecycle`, `LifecycleProofs` | `Run`: start, stop, failure and a second call |
| `Framing`, `FramingProofs` | `WriteFrame` and `ReadFrame`, byte by byte |

`Server` is the hub. `TcpConn`, `Rpc`, `Keepalive` and `Lifecycle` each take one
part of it at a finer grain, with the rest of the server as free choices: what
the shared event queue accepts, when the session is torn down. So each of them
allows at least what the part can do inside the whole.

### Server

A connection and the `*Session` allocated for it are one element of `Conns`,
used once; each session field is a function on `Conns` with the field's name.
`sessions` and `udpSessions` map to a session or `None`. `events` is the batch
being handled (its first `taken` elements) followed by the contents of the
channel; so the channel's length is `Len(events) - taken`, and a producer may
push between any two receives of `drain` and between any two handlers. `pc` says
where the tick goroutine is; `cur` is the session whose handler is running; `fan`
holds the sessions that a broadcast or the ping loop has still to visit, so a map
iteration in any order, with pushes of others in between, is covered.

| Code | Actions |
|---|---|
| `runTCPAccept`, `serveTCPConn` | `Accept`, `CloseConn` |
| `runTCPReader` | `ReadMessage`, `ReaderExit`, `ReportExit` |
| `runTCPWriter` | `WriteNext` |
| `runUDPReader` | `ReadHandshake`, `ReadUDP` |
| `runTickLoop`, `drain` | `TickStart`, `DrainOne`, `DrainDone`, `OnTickReturn` |
| `dispatchMessage` | `DropFrame`, `Malformed`, `Pong`, `UdpQuiet`, `GameOverTCP`, `GameOverUDP` |
| `handleLogin` | `LoginAccepted`, `LoginRejected` |
| `handleUDPHandshake` | `HandshakePaired`, `HandshakeRefused` |
| `dispatchRPC` | `RpcRefused`, `RpcCalled`, `RpcReturn` |
| `invokeClientHandler` | `HandlerReturn`, `HandlerPanic` |
| `cleanupSession` | `Cleanup` |
| `runPingTick` | `PingStart`, `PingTimedOut`, `PingDone` |
| `TickCtx` | `SendTCPTo`, `BroadcastTCP`, `BroadcastOne`, `Disconnect` |

A handler is a period in which the callback may call `TickCtx` any number of
times before it returns or panics. `PushTCP` and `ScheduleDisconnect` are the
operators for the functions of these names; each takes the queue without the
event that the same step consumes. `disconnectOnce` and the push behind it are
two steps for a reader, `ReaderExit` and `ReportExit`, so that other requests
are suppressed in between. On the tick goroutine they are one: the only goroutine
that could look at the flag in between is the session's reader, which then pushes
nothing, whether before or after.

A response that does not marshal (an error text that is not UTF-8) is not sent:
`LoginFailed` and `RpcReturn` allow for that.

Abstractions. A frame is its kind. The session token is the session; a client
may use it once the accepting `LoginResponse` has been written to it, and may
keep using it for ever after, so delayed and duplicated handshakes are in the
model. A datagram that is lost, oversized, or dropped on a full queue changes
nothing and is the absence of a step. `lastSeenUnixNano` is `silence`, the tick
periods since then, counted up to one more than `PingTimeout`. A frame leaves
`outq` when the client has it, which merges the frame the writer holds with the
buffered ones; since a client need not act on a frame, nothing that the real
writer allows is excluded. `OnAuth`, `OnConnect` and `OnDisconnect` get no
`TickCtx` and cannot change the server; they are the moments at which `authState`
changes and `onDisconnect` is counted.

`sendTCP` is the channel while that is open and nil afterwards: `cleanupSession`
closes it and clears the field in one call, on the only goroutine that sends, so
a closed channel in the field is no state between two steps of `Server`.

History variables: `onDisconnect` counts the callbacks, `lost` holds the
sessions whose `eventDisconnect` was refused.

### TcpConn

One connection with the writer's `select` split from the evaluation of its
channel operand, the watcher, cancellation, and `cleanupSession` in three steps.
`sess.sendTCP` is a one-word field that the tick goroutine writes and the writer
reads without synchronisation: a load yields the channel or nil. Whether the
shared event queue accepts this connection's `eventDisconnect` is a free choice.

### PlayerSessions

What a game can build on, whatever its clients send. A connection is
authenticated at most once, as a player nobody holds, becomes ready at most once,
after that and not after it has left, and leaves at most once, which frees its
player. The module also says what the code does not give: a connection that has
left may still be authenticated if it never was (section 5, `late`), and then
holds its player for ever; and a player with id 0 is not freed.

### SubManager and Subscriptions

A Go map is a function whose domain is the set of its keys, so an empty entry and
a missing one differ. Each method of `Manager` is one action: all of them run on
the tick goroutine and none calls back into the manager. `connected` stands for
`s.sessions`, which `handleLogin` enters a player in, and `paired` for those whose
session is ready. `Reach` is whom a publication gets to: `SendTCP` skips players
who are gone, `SendUDP` also those who have not paired. `OnDisconnect` removes the player and calls `UnsubscribeAll` in one
step, as the package comment asks. `Subscriptions` says what this amounts to: a
set of pairs. `SubManager` has no run of its own: `safety` checks its properties
where the server calls it, and the proofs cover it alone.

### GameServer

The game of the comment in `sub/sub.go`: client handlers call `Subscribe` and
`Unsubscribe` with `sess.ID`, callbacks publish, `OnDisconnect` calls
`UnsubscribeAll`. Every step of `Server` is a step here, with the hook in the
step that makes the callback; a publication over TCP sets `fan`, so that its
sends are those of `BroadcastOne`. `UsesSubManager` says that this uses the manager as
`SubManager` assumes (only connected players subscribe, and they leave with
their subscriptions), which `SubManager` alone takes for granted. With Logins
queued behind a teardown this is a question of its own: a session that was torn
down may log in, and then its player is connected again.

### Rpc

One player whose session is ready.

| Code | Definitions |
|---|---|
| `handlerRegistry`, `rpcRegistry` | `HandleClient`, `HandleRPC`, `LookupClient`, `LookupRPC` |
| `rpc.Register` | `Results`: what the typed wrapper adds |
| `extractOneofBody` | `ExtractOneofBody` |
| `dispatchRPC` | `DispatchRPC`, `Reply`, `HandleRequest` |
| `sendRPCOK`, `sendRPCError` | `SendRPC` |
| `dispatchUserMessage` | `HandleGame` |
| `pushTCP`, `scheduleDisconnect`, `cleanupSession` | `PushTCP`, `ScheduleDisconnect`, `Cleanup` |
| `TickCtx` | `Send`, `Disconnect` |
| reader, writer | `Arrives`, `ReaderReturns`, `ReadFails`, `Write` |

A payload is what `proto.Unmarshal` and the oneofs make of it: an error, or for
each oneof of the prototype a message type, a scalar or nothing. A server without
a prototype treats every payload as malformed. `inbox` holds this session's
events only. `Send` is what `OnTick` and the handlers of other players send to
this one. A frame of the session that is handled after its teardown is dropped or,
since its player may be back on another connection, dispatched all the same; its
answer meets the cleared `sendTCP`. `Cleanup` clears the outbound frames: the connection is closed
before them, so the client gets none. A frame that a `Write` on a closed
connection takes is lost too. `silent` remembers the calls whose `RpcResponse`
did not marshal.

### Keepalive

Times are differences to `tc.now`. A tick is one action: `Drained` is what has
arrived by the new `tc.now`, and perhaps some of what arrives before the tick
really starts; `AgeAfter` is `lastSeenUnixNano` after the drain; then
`runPingTick` expires or pings. Ticks are up to `MaxGap` apart, since a ticker
drops ticks while one is long. `MaxLag` is the difference of the two clocks that
the code compares: pairing stores `time.Now()`, everything else `tc.now`.

`KeepaliveAssumption` demands
`(MaxLoss + 1) * (PingInterval + MaxGap) + Rtt <= PingTimeout`. This is what
"answers in time" takes, and the code does not ask for it: `Config` accepts any
interval and timeout, and the advice at `server.go:129` to disable pings with an
interval of an hour disconnects every client that sends nothing else after
`PingTimeout`.

### Lifecycle

Each element of `Runs` is a call of `Run`, with its context, listeners and
goroutines; the server's fields `running`, `udpConn`, `events` and `sessions`
are shared by all calls, as in the code. `Begin`, `ListenTCP`, `ListenUDP`,
`Waited` and three `RunDeferred` steps are `Run`; the deferred functions run one
at a time, last in first out. Both addresses are configured. A listen fails if
another `Run` holds the address, or for no reason. The listener is
`MemoryListener`, whose `select` may accept a queued connection after `Close`;
an operating system's listener allows less. The writer of a connection may end
with its session or with a failed write, and must end with the context, on which
alone `RunReturns` relies. A UDP reader that meets `io.EOF` on its open socket
returns without an error, and the `Run` goes on without it. An `Accept` error other than
`net.ErrClosed` changes nothing and is the absence of a step.

### Framing

A byte is a digit of base `Base` and a header is `HeaderSize` of them, so that
with base 2 and two digits every payload, every header and a limit inside the
header's range are enumerated. `Power` holds the powers of the base as a function
of its own, since the provers know nothing of `^`. The writer's two `Write` calls are two actions;
`Read` hands `io.ReadFull` any number of the bytes under way; `Close` truncates
the stream at any byte. Payloads of 2^32 bytes and more, whose length would
wrap, are excluded by assumption: `WriteFrame` does not refuse them, but no
frame of that size is built by the server.

### Fault variants

An operator defined just before another, with the same parameters and named in
the module's header, is a faulty form of it (a dropped check, an off-by-one, a
missing reset). It is used by no specification; each property is known to fail
when some operator is replaced by its faulty form, which `PROJECT.json` records.

## 3. Runs

| Run | Instance | Shows |
|---|---|---|
| `safety` | `GameServer`: 2 connections, 2 players, 1 shared address, 1 topic, 1 Login each, 2 datagrams, event queue 1 | registry, UDP routes, tokens and topic maps; `PlayerSessions` and `Subscriptions` are implemented |
| `traffic` | `Server`: 1 connection, every kind of TCP frame, 3 frames, 2 datagrams, event queue 2 | teardown accounting; no handler and no OnConnect after the session's own teardown; `PlayerSessions` is implemented; teardown, hang-up and timeout do happen |
| `tcpconn` | channel 2, 3 pushes | the goroutines of one connection |
| `rpc` | 2 calls, 2 oneofs, 1 type, channel 2, 2 queued frames | answers once and in order, and no call forgotten |
| `keepalive` | interval 3, timeout 18, ticks 1 or 2 apart, delay up to 3, 2 losses in a row | no false timeout, and no late one |
| `lifecycle` | 2 calls of `Run`, 2 connections | one tick loop, a complete and explained return |
| `framing` | base 2, header 2, limit 2, payloads up to 3 bytes, 3 frames | frames survive fragmentation, and errors are true |
| `overflow`, `stale`, `late`, `leak`, `unanswered` | small | disagreements, section 5 |

*Bounds.* `MaxFrames` and `MaxDatagrams` bound what clients send, never what the
server does. Two connections are enough for one to displace, outlive or precede
another in the registry; three frames and a queue of one or two let the queue
fill while a batch is being handled, and let a frame be queued behind the event
that ends its session; two datagrams let both sessions pair, or one handshake be
repeated, or a paired client reach a handler and subscribe. In `traffic` the
client pipelines, so that a second and a third Login may be queued behind the
teardown of the first. `SendDepth` 1 makes each second unsent frame an overflow; in `rpc` a
depth of 2 lets two answers wait behind each other. Two oneofs are the least in
which the first that holds a message is not the first. `keepalive` uses a timeout
that is exactly what two losses need, so that any slack in the argument would
show. Two calls of `Run` give every order of overlap, refusal and succession.
`framing` has a payload one above the limit, lengths 0 and 3, the largest a
header can say, and three frames, so that one is between two others.

Every invariant, action property and refinement of the passing runs is also
proved without these bounds (section 4).

*Symmetry* of the connections is used in `safety`, `stale` and `late`, where every client
may use every address; never where liveness is checked. Deadlock checking is on
except in `lifecycle` and `framing`: a server all of whose Runs have returned,
and a connection whose reader has its error, stop for good.

*Assumptions of the runs.* Ids are not 0 in any passing run: `UdpRouteSound`,
`NoConnectAfterDisconnect` and `HandlerLiveOrReplaced` need that, and their
theorems have it as their hypothesis. Nothing else is assumed of the clients: they
pipeline in both runs of the server, and no theorem restricts them.
`ReadyReachable` excepts a session whose route another session, paired from the
same address, has taken. The second disjunct of `HandlerLiveOrReplaced` needs two
connections, which `stale` has and `traffic` has not; the theorem has any number.

*Fairness.* In `Server` the tick goroutine runs (its ticker fires, its loops
advance), and user callbacks return, however often they call `TickCtx`: strong
fairness, since a callback is entered again and again and "returns eventually" is
about each of its visits. A reader that left its loop runs to its end, and a Read
on a socket that the server closed returns. No client is obliged to send
anything, no peer to close and no writer to make progress. In `TcpConn` every
goroutine that is not blocked runs; Read and Write return once the socket is
closed; nobody is obliged to cancel the context. In `Rpc` the tick goroutine
handles events, the reader of a closed connection ends, and the writer writes,
that is, the client reads: a client that does not read waits for its answers by
its own choice. In `Lifecycle` every goroutine that can go on does, and the
reader of a connection whose context is done ends, since its watcher closes the
connection; callers need not cancel and the network need not fail. In `Framing`
bytes under way are read and a started frame is finished unless the connection
ends.

## 4. Proofs

All theorems are about every value of the constants, under the named assumption
of the module: sets of any size, depths of at least 1, for `Keepalive` the
inequality of section 2, and for `Framing` a base of at least 2 and payloads whose
length fits in the header.

`ServerProofs`:

* `TypeCorrect`. The inductive invariant is `TypeInv`: `TypeOK` with `TickOK`,
  which ties `taken`, `snap`, `cur` and `fan` to `pc`. It is needed because the
  channel's bound depends on `drain` never taking more than its snapshot, and a
  handler's step is only well-typed if its session is known.
* `DisconnectsAccounted`. `DisconnectAccounted` is inductive with `TypeInv`; a
  reader between its swap of the flag and its push is one of the accounts. The
  lemmas `AppendHas` and `TailHas` say how a push and a consumed event move the
  occurrences of an `eventDisconnect`; `AccountedPush` and `AccountedCleanup`
  are the two ways the accounts change.
* `RegistryIsConsistent`. The inductive invariant is `RegistryInv`:
  `RegistryConsistent` and that a session before its login has ID 0. The heart is
  `CleanupOwnsEntry`: the session a cleanup takes still holds the entry it
  deletes, which needs `DisconnectAccounted`, since a second cleanup of one
  session would delete its successor.
* `EntriesReleasedByCleanup`, an action property, follows from the same
  invariants.

`SessionProofs` builds three invariants on those of `ServerProofs`, all of them
for clients of any behaviour.

* `SessionInv` adds that a session not
  yet accepted has no trace anywhere (`StartInv`), that handlers run for ready
  sessions (`CallInv`), that a session has a UDP address exactly when it is ready
  (`PairInv`), that a route leads to a ready session that paired from it and
  holds its player's entry (`RouteInv`), and that the player of a running handler
  has an entry (`HandlerInv`). `ReadySessionsReachable` is one of its conjuncts;
  it is preserved because no two players share an entry, so that the cleanup of
  one session takes no other's route except at a shared address.
* `TokenInv`: a token that is still out (in a queued or sent `LoginResponse`, in
  a client's hands, in a queued handshake) belongs to a session that has logged
  in and, once torn down, holds no entry other than that of player 0. A token may
  be used for ever, so this and not the absence of handshakes is what makes
  `handleUDPHandshake` refuse a dead session. It holds in spite of the Login that
  is accepted after its session's teardown (`late` in section 5): the channel is
  gone, so the token of that session never gets out. If 0 is no player's id,
  `RoutesAreSound`, `ConnectsBeforeDisconnects` and `HandlersLiveOrReplaced`
  follow. The last says how far the disagreement `stale` of section 5 goes: a
  handler runs for a torn-down session only while the player is registered on
  another connection.
* `HolderInv`: a queued handshake and a ready session have a client that was given
  that session's token. `PairingNeedsToken` is its second half.

`ServerImplementsPlayerSessions` has no hypothesis: `StepKinds` sorts the steps of
the server into those that leave the phases alone, logins, pairings and cleanups,
and each kind is a stutter or one step of `PlayerSessions`. That a pairing comes
before the departure, or is player 0's, is `TokenInv`.

The id 0 is excluded from the three theorems above because they fail with it:
`cleanupSession` does not delete the entry of a player 0.

`GameUsesSubManager` needs no hypothesis either. Its invariant is `GameInv`,
`SessionInv` with the types of the maps. What carries it is `HandlerInv`, since
a handler may run for a torn-down session but never for a player with no entry
in `sessions`, and that an entry disappears only in the step that makes the
callback. `GameMapsInverse`, `GameMapsTight`, `GameLeaversLeaveNothing` and
`GameImplementsSubscriptions` then apply the theorems of `SubManagerProofs`,
instantiated with the server's registry, to the game.

`FramingProofs` proves that framing works for every base and header size. The
bytes that `ReadFull` holds and those under way are a window on the stream, at
their absolute positions (`Window`), and frame *k* of those written occupies the
positions from `Offset(written, k - 1)`. The inductive invariant `FrameInv` says
that where the window overlaps a written frame it holds that frame's bytes
(`WindowInv`), that the reader is inside the frame after those it returned
(`ReaderInv`), and that the stream ends where the frames do, less what is still
to be written or was lost (`WriterInv`). `ReceivedAsWritten` alone says nothing of
bytes not yet read, so it is not inductive. A complete header is then
`PutUint` of the next frame's length, and `HeaderRoundTrip` says that `Uint` gives
that length back. `Uint`, `Power` and `Start` are recursive functions: the lemma
`RecursionExists` constructs such a function, and `BoundedInduction`, the
principle of the least counterexample stated for sets, replaces the induction
theorems of the library, which take an operator as parameter. From `FrameInv`
follow `FramingTypeCorrect`, `FramesReceivedAsWritten` and `FrameErrorsAreTrue`.

`TcpConnProofs` proves `ConnTypeCorrect` and `WriterSilentAfterCleanup` from `TypeOK` and `CleanupOrder`: the socket is closed
before the channel, the channel before the field is cleared, and each stays so.

`SubManagerProofs` proves the invariants of `SubManager`, which are inductive
together, and from them that it implements `Subscriptions`. The step that needs
the inverse maps is `RemovePlayerMaps`: `UnsubscribeAll` visits only the topics
that the reverse map names. `PublishOver` needs `NoneLeftBehind`, since
`SendTCP` and `SendUDP` skip players who are gone.

`KeepaliveProofs` proves `AnsweringClientsStay`, `OnlySilentSessionsEnd`,
`DeadClientsAreNoticed` and `KeepaliveTypeCorrect` from one invariant, `KInv`. Its heart is
`HeardRecently`: an answering client's age is at most one period
(`PingInterval + MaxGap`) for each lost ping and the time since the last batch,
or a Pong is under way and bounds it. `NoFalseTimeout` alone is not inductive,
as it says nothing of how close to the limit an age may come. `AgeIsSilence`
ties the age to what was drained, and `LastWords` bounds what a dead client may
still have under way. Products with the number of losses are confined to
`PeriodFacts`, so that the steps are linear.

`LifecycleProofs` proves the three invariants of `Lifecycle` and its types from
`LInv`: one `Run` at a time is between its CompareAndSwap and its last deferred
function (`OneActive`), goroutines and sockets move with the phases
(`Goroutines`), a context that is done has a reason (`Reasons`), and the accept
loop outlives the connections it counts (`Served`).

`RpcProofs` proves `AnswersInOrder` and `CallAccountedFor` from `RInv`, which
adds that calls are made in order and that only pending ones are queued
(`CallsMade`), and that a session nobody will disconnect any more has no open
connection (`EndInSight`). The latter is what makes the drop of an answer on a
full channel harmless, and the drop of a frame of a dead session.

*Only model-checked.* Liveness (`ReaderExitCleansUp`, `RefusedIsHungUp`,
`SilenceEndsSession`, `ShutdownCompletes`, `CleanupUnblocks`, `CallSettles`,
`RunReturns`, `FramesArrive`), which is out of the prover's reach.

## 5. Disagreements between the code and its comments

Five have a run that ends in a counterexample; `PROJECT.json` quotes the lines.

* `overflow`: a reader that overflows the event queue sends its disconnect to the
  same full queue. The once-flag is spent, the session is never cleaned up and
  its player can never log in again. (`RefusedIsHungUp` shows that the socket is
  closed, and `DisconnectAccounted` that this is the only way to be forgotten.)
* `stale`: a queued frame of a dead session reaches a handler once its player is
  back on another connection. (`HandlerLiveOrReplaced` shows that this is the
  only way.)
* `late`: a second Login queued behind a failing one registers the session after
  its teardown, since the check for dead sessions skips those with ID 0. Its
  player is then taken for good. (`PlayerSessions` bounds the damage: such a
  session never becomes ready.)
* `leak`: a writer between two selects when its session is cleaned up finds the
  cleared field and waits on a nil channel until the server stops, where
  `tcp.go:127-130`, `server.go:403` and `ARCHITECTURE.md:135` say that it drains
  and exits. (`CleanupUnblocks` shows that a writer inside its select or a write
  does end.)
* `unanswered`: a handler's error whose text is not UTF-8 makes an `RpcResponse`
  that does not marshal; the error path only logs, and the call stays pending on
  an open connection. (`CallSettles` shows that this is the only way.)

The others have no run. Where a property comes near one, it says nothing of the
case.

* `server.go:404-406` says "We do not nil out sendTCP" and that `disconnectOnce`
  and the lookup in `TickCtx` guard `pushTCP`; `server.go:408` does clear the
  field, and that is the only guard on the paths of RPC and login responses,
  which do not look their session up.
* A player with id 0, which the quick start's `Authenticate` returns, is never
  removed from `sessions`, and its session may become ready after OnDisconnect:
  `PlayerSessions` says so; `CleanedStaysOut` fails with `Players = {0}`.
* The cleanup of a session deletes the route of another one that paired later
  from the same address (`server.go:396-398`): the exception in `ReadyReachable`.
* `server.go:133-134` and `ping.go:17-19` promise a timeout for clients silent on
  UDP, but a Pong over TCP refreshes the same `lastSeenUnixNano` and keeps a
  session whose UDP path is gone. `SendTcpPong` and `PathBreaks` of `Keepalive`
  reach it: that a ready session has `udpQuiet` within `PingTimeout + MaxLag`
  fails there.
* `frame.go:38-40` promises `io.ErrUnexpectedEOF` for a stream that ends inside a
  frame. Between header and payload it is `io.EOF`, since the second `ReadFull`
  has read nothing: that `reader = "EOF"` means a position before a header fails
  in `Framing`, and `ErrorsAreTrue` speaks of torn headers only.
* `extractOneofBody` passes over a oneof whose field is a scalar and looks at the
  next, where its comment speaks of the populated one: `ExtractOneofBody`.
* `Run` is said to be callable once, but clears `running` when it returns: a
  second `Run` is admitted and inherits sessions and queued events, some of them
  never cleaned up, as their disconnect was refused. When its UDP reader ended by
  itself the first may return while its socket is still open (`ReturnedIsQuiet`),
  and the second may find the address taken.
* `OnDisconnect` does not run for sessions that are live when the server stops:
  the tick loop ends without draining what their readers push.
* A `Dial` that races `Close` may succeed and never be served: state `backlog` of
  a `Run` that has returned.

## 6. Not modelled, and the plan

Not modelled: generated protobuf code, logging, error values, the stub packages
(`chat`, `interest`, `snapshot` hold no code yet), operating-system sockets, and
what user code does with payloads. `udpSendRaw` writes a datagram and changes no
state of the server; a failed write is only logged. A session that never logs in
or never pairs has no timeout at all (`ping.go:49`): there is nothing in the code
that a property could hold it to.

Next: what the liveness properties rest on can be stated as safety and proved,
such as that a session whose reader has ended is torn down, queued for teardown
or lost to a full queue; and that `TcpConn` and `Rpc` allow what `Server` does
with one connection, which now only their construction says.
