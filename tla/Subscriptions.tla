---------------------------- MODULE Subscriptions ----------------------------
(***************************************************************************)
(* What a subscription manager promises a game: one relation between the   *)
(* connected players and topics.  A publication goes to exactly those who  *)
(* subscribed and have not unsubscribed or left since; over UDP, to those  *)
(* of them whose UDP address is known.                                     *)
(***************************************************************************)
CONSTANTS Players, Topics

VARIABLES members,   \* the players that are connected
          ready,     \* those whose UDP address is known
          follows,   \* the <<player, topic>> pairs
          audience   \* who got the last publication

avars == <<members, ready, follows, audience>>

AInit == members = {} /\ ready = {} /\ follows = {} /\ audience = {}

Join(p) ==
    /\ p \notin members
    /\ members' = members \cup {p}
    /\ UNCHANGED <<ready, follows, audience>>

GetReady(p) ==
    /\ p \in members
    /\ ready' = ready \cup {p}
    /\ UNCHANGED <<members, follows, audience>>

Leave(p) ==
    /\ p \in members
    /\ members' = members \ {p}
    /\ ready' = ready \ {p}
    /\ follows' = follows \ ({p} \X Topics)
    /\ UNCHANGED audience

Follow(p, t) ==
    /\ p \in members
    /\ follows' = follows \cup {<<p, t>>}
    /\ UNCHANGED <<members, ready, audience>>

Unfollow(p, t) ==
    /\ follows' = follows \ {<<p, t>>}
    /\ UNCHANGED <<members, ready, audience>>

UnfollowAll(p) ==
    /\ follows' = follows \ ({p} \X Topics)
    /\ UNCHANGED <<members, ready, audience>>

\* To everyone who follows t, or to those of them who are ready.
Announce(t) ==
    /\ \/ audience' = {p \in Players : <<p, t>> \in follows}
       \/ audience' = {p \in ready : <<p, t>> \in follows}
    /\ UNCHANGED <<members, ready, follows>>

ANext ==
    \/ \E p \in Players : Join(p) \/ GetReady(p) \/ Leave(p) \/ UnfollowAll(p)
    \/ \E p \in Players, t \in Topics : Follow(p, t) \/ Unfollow(p, t)
    \/ \E t \in Topics : Announce(t)

ASpec == AInit /\ [][ANext]_avars
=============================================================================
