----------------------------- MODULE GameServer -----------------------------
(***************************************************************************)
(* A game on the server of module Server that keeps topic subscriptions    *)
(* the way the comment of package sub shows: a client handler subscribes   *)
(* the player it runs for, callbacks publish, and OnDisconnect calls       *)
(* UnsubscribeAll.  The maps and the calls are those of module SubManager, *)
(* which takes for granted that only connected players are subscribed and  *)
(* that a player leaves together with its subscriptions; here both depend  *)
(* on what the server does.                                                *)
(*                                                                         *)
(* NoHook is a faulty form of OnDisconnectHook.                            *)
(***************************************************************************)
EXTENDS ServerProperties

CONSTANT Topics

VARIABLES subscribers, perPlayer, reached

topicVars == <<subscribers, perPlayer, reached>>
gameVars == <<vars, topicVars>>

\* Who is connected, and who has paired, is up to s.sessions.
Online == {p \in Players : sessions[p] # None}
Paired == {p \in Online : authState[sessions[p]] = "ready"}

Sub == INSTANCE SubManager WITH connected <- Online, paired <- Paired

GameInit ==
    /\ Init
    /\ subscribers = Sub!Empty
    /\ perPlayer = Sub!Empty
    /\ reached = {}

\* Config.OnDisconnect runs for a session that is being cleaned up, which
\* may never have logged in: then its ID is 0.
NoHook(s) == UNCHANGED <<subscribers, perPlayer>>
OnDisconnectHook(s) == Sub!RemovePlayer(ID[s])

\* A step of the server, with the callback it makes, if it makes one.
ServerStep ==
    /\ Next
    /\ IF onDisconnect' = onDisconnect
       THEN UNCHANGED <<subscribers, perPlayer>>
       ELSE \E s \in Conns : onDisconnect'[s] # onDisconnect[s] /\ OnDisconnectHook(s)
    /\ UNCHANGED reached

\* A client handler calls Subscribe or Unsubscribe with sess.ID.
HandlerSubscribes ==
    /\ pc = "handler" /\ fan = {}
    /\ UNCHANGED vars
    /\ \E t \in Topics : \/ Sub!AddPlayer(ID[cur], t) /\ UNCHANGED reached
                        \/ Sub!Unsubscribe(ID[cur], t)

\* Any callback publishes: over TCP, one SendTCP for each subscriber, in any
\* order, which BroadcastOne carries out; over UDP, datagrams.
Publish ==
    /\ InCallback
    /\ UNCHANGED <<sessionVars, silence, discVars, sendVars, reader, registryVars, drainVars,
                   pc, cur, clientVars, onDisconnect>>
    /\ \E t \in Topics, transport \in Sub!Transports :
          /\ Sub!PublishOver(t, transport)
          /\ fan' = IF transport = "TCP" THEN {sessions[p] : p \in Sub!Reach(t, transport)}
                                         ELSE fan

GameNext == ServerStep \/ HandlerSubscribes \/ Publish

GameSpec == GameInit /\ [][GameNext]_gameVars

\* The server is as fair as it is without the game.
FairGameSpec == GameSpec /\ Fairness

-----------------------------------------------------------------------------
(* Properties *)

\* The game uses the manager as the manager expects: with everything that can
\* still be queued behind a teardown, no handler subscribes a player who is
\* gone, and no player goes without its subscriptions.
UsesSubManager == Sub!Spec

\* The topic maps have the keys and values they should and no entry is empty,
\* whatever handlers and teardowns do: they shrink again when the last
\* subscription of a topic or of a player goes.
MapsStayTight == Sub!TypeOK

\* The two maps stay each other's inverse, which UnsubscribeAll relies on to
\* find what to remove, through every order of handlers and teardowns.
MapsInverse == Sub!MapsInverse

\* A player who is no longer in s.sessions has no subscription left, so the
\* next session with that id starts with none.
NoneLeftBehind == Sub!NoneLeftBehind

\* The maps implement one relation between the players of s.sessions and the
\* topics, and a publication is sent to exactly the players it relates to the
\* topic: over UDP, to those of them that have paired.
ImplementsSubscriptions == Sub!ImplementsSubscriptions
=============================================================================
