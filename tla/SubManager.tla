----------------------------- MODULE SubManager -----------------------------
(***************************************************************************)
(* The topic subscriptions of package sub: a map from topics to players    *)
(* and its reverse, in which an entry exists only while it is not empty.   *)
(* The game uses it as the package comment shows: handlers subscribe the   *)
(* player they run for, and OnDisconnect calls UnsubscribeAll in the same  *)
(* step of the tick goroutine in which the player leaves s.sessions.       *)
(*                                                                         *)
(* A Go map is a function whose domain is the set of its keys.  All calls  *)
(* run on the tick goroutine and none of them calls back into the manager, *)
(* so each is one step.                                                    *)
(*                                                                         *)
(* KeepEmpty, SubscribersOnly and OnlyReverse are faulty forms of the      *)
(* operator after each, and not part of the specification.                 *)
(***************************************************************************)
CONSTANTS Players, Topics

VARIABLES subscribers,   \* map[Topic]map[PlayerID]struct{}
          perPlayer,     \* map[PlayerID]map[Topic]struct{}
          connected,     \* the players in s.sessions
          paired,        \* those of them whose session is ready
          reached        \* who the last publication was sent to

vars == <<subscribers, perPlayer, connected, paired, reached>>
maps == <<subscribers, perPlayer>>
players == <<connected, paired>>

Transports == {"UDP", "TCP"}

Empty == [k \in {} |-> {}]

\* m[k], where a missing entry is an empty set.
At(m, k) == IF k \in DOMAIN m THEN m[k] ELSE {}

\* m with v added to its entry for k, which is made if need be.
Add(m, k, v) == [x \in DOMAIN m \cup {k} |-> IF x = k THEN At(m, k) \cup {v} ELSE m[x]]

\* m with v removed from the entries for ks, and those left empty deleted.
KeepEmpty(m, ks, v) == [x \in DOMAIN m |-> IF x \in ks THEN m[x] \ {v} ELSE m[x]]
Remove(m, ks, v) ==
    [x \in {y \in DOMAIN m : y \in ks => m[y] \ {v} # {}} |->
        IF x \in ks THEN m[x] \ {v} ELSE m[x]]

\* m without its entry for k.
Drop(m, k) == [x \in DOMAIN m \ {k} |-> m[x]]

Init ==
    /\ subscribers = Empty
    /\ perPlayer = Empty
    /\ connected = {}
    /\ paired = {}
    /\ reached = {}

\* handleLogin enters the player in s.sessions; handleUDPHandshake makes its
\* session ready.
Connect(p) ==
    /\ p \notin connected
    /\ connected' = connected \cup {p}
    /\ UNCHANGED <<maps, paired, reached>>

Pair(p) ==
    /\ p \in connected \ paired
    /\ paired' = paired \cup {p}
    /\ UNCHANGED <<maps, connected, reached>>

\* Subscribe, which does not ask whether the player is connected.
SubscribersOnly(p, t) ==
    /\ subscribers' = Add(subscribers, t, p)
    /\ UNCHANGED perPlayer

AddPlayer(p, t) ==
    /\ subscribers' = Add(subscribers, t, p)
    /\ perPlayer' = Add(perPlayer, p, t)

Subscribe(p, t) ==
    /\ p \in connected
    /\ AddPlayer(p, t)
    /\ UNCHANGED <<players, reached>>

Unsubscribe(p, t) ==
    /\ subscribers' = Remove(subscribers, {t}, p)
    /\ perPlayer' = Remove(perPlayer, {p}, t)
    /\ UNCHANGED <<players, reached>>

\* UnsubscribeAll finds the player's topics in the reverse map.
OnlyReverse(p) ==
    /\ subscribers' = subscribers
    /\ perPlayer' = Drop(perPlayer, p)

RemovePlayer(p) ==
    /\ subscribers' = Remove(subscribers, At(perPlayer, p), p)
    /\ perPlayer' = Drop(perPlayer, p)

UnsubscribeAll(p) ==
    /\ RemovePlayer(p)
    /\ UNCHANGED <<players, reached>>

\* cleanupSession removes the player and OnDisconnect its subscriptions.
OnDisconnect(p) ==
    /\ p \in connected
    /\ connected' = connected \ {p}
    /\ paired' = paired \ {p}
    /\ RemovePlayer(p)
    /\ UNCHANGED reached

\* The subscribers that a publication is sent to: SendTCP ignores players who
\* are gone, and SendUDP also those who have not paired yet.
Reach(t, transport) ==
    At(subscribers, t) \cap (IF transport = "TCP" THEN connected ELSE paired)

\* PublishOver; Publish is the same over UDP.
PublishOver(t, transport) ==
    /\ reached' = Reach(t, transport)
    /\ UNCHANGED <<maps, players>>

Next ==
    \/ \E p \in Players : Connect(p) \/ Pair(p) \/ OnDisconnect(p) \/ UnsubscribeAll(p)
    \/ \E p \in Players, t \in Topics : Subscribe(p, t) \/ Unsubscribe(p, t)
    \/ \E t \in Topics, transport \in Transports : PublishOver(t, transport)

Spec == Init /\ [][Next]_vars

-----------------------------------------------------------------------------
(* Properties *)

\* Both maps have the keys and values they should, and no entry is empty: the
\* maps shrink again when their last subscription goes.
TypeOK ==
    /\ DOMAIN subscribers \subseteq Topics
    /\ subscribers \in [DOMAIN subscribers -> (SUBSET Players) \ {{}}]
    /\ DOMAIN perPlayer \subseteq Players
    /\ perPlayer \in [DOMAIN perPlayer -> (SUBSET Topics) \ {{}}]
    /\ connected \subseteq Players
    /\ paired \subseteq connected
    /\ reached \subseteq Players

\* The maps are each other's inverse, which UnsubscribeAll relies on.
MapsInverse ==
    \A p \in Players, t \in Topics : p \in At(subscribers, t) <=> t \in At(perPlayer, p)

\* A player who is gone has no subscription left, so the next holder of the
\* id starts with none.
NoneLeftBehind ==
    /\ DOMAIN perPlayer \subseteq connected
    /\ \A t \in Topics : At(subscribers, t) \subseteq connected

Subs == INSTANCE Subscriptions WITH
          members  <- connected,
          ready    <- paired,
          follows  <- {x \in Players \X Topics : x[1] \in At(subscribers, x[2])},
          audience <- reached

\* The two maps implement one relation, and a publication is sent to exactly
\* the players it relates to the topic, those with a UDP address if it is sent
\* over UDP.
ImplementsSubscriptions == Subs!ASpec
=============================================================================
