-------------------------- MODULE SubManagerProofs --------------------------
(***************************************************************************)
(* The two maps of the subscription manager stay inverse to each other and *)
(* implement one relation, for any sets of players and topics.             *)
(***************************************************************************)
EXTENDS SubManager, TLAPS

\* Who subscribes to what, by each of the maps.
Follows(p, t) == p \in At(subscribers, t)
FollowsBack(p, t) == t \in At(perPlayer, p)

\* A map whose keys are in K and whose entries are non-empty subsets of V.
MapOK(m, K, V) ==
    /\ DOMAIN m \subseteq K
    /\ m \in [DOMAIN m -> (SUBSET V) \ {{}}]

Inv == TypeOK /\ MapsInverse /\ NoneLeftBehind

-----------------------------------------------------------------------------
(* What each operation does to the maps *)

\* Subscribe adds one pair to both maps and changes no other.
LEMMA SubscribeMaps ==
    ASSUME TypeOK, NEW p \in Players, NEW t \in Topics, Subscribe(p, t)
    PROVE  /\ MapOK(subscribers', Topics, Players)
           /\ MapOK(perPlayer', Players, Topics)
           /\ DOMAIN perPlayer' = DOMAIN perPlayer \cup {p}
           /\ \A q, u : Follows(q, u)' <=> Follows(q, u) \/ (q = p /\ u = t)
           /\ \A q, u : FollowsBack(q, u)' <=> FollowsBack(q, u) \/ (q = p /\ u = t)
<1>1. subscribers' = Add(subscribers, t, p) /\ perPlayer' = Add(perPlayer, p, t)
  BY DEF Subscribe, AddPlayer
<1>2. MapOK(subscribers', Topics, Players)
  BY <1>1 DEF TypeOK, MapOK, Add, At
<1>3. MapOK(perPlayer', Players, Topics) /\ DOMAIN perPlayer' = DOMAIN perPlayer \cup {p}
  BY <1>1 DEF TypeOK, MapOK, Add, At
<1>4. \A q, u : Follows(q, u)' <=> Follows(q, u) \/ (q = p /\ u = t)
  BY <1>1 DEF Follows, Add, At
<1>5. \A q, u : FollowsBack(q, u)' <=> FollowsBack(q, u) \/ (q = p /\ u = t)
  BY <1>1 DEF FollowsBack, Add, At
<1> QED
  BY <1>2, <1>3, <1>4, <1>5

\* Unsubscribe removes one pair from both maps, and entries left empty.
LEMMA UnsubscribeMaps ==
    ASSUME TypeOK, NEW p \in Players, NEW t \in Topics, Unsubscribe(p, t)
    PROVE  /\ MapOK(subscribers', Topics, Players)
           /\ MapOK(perPlayer', Players, Topics)
           /\ DOMAIN perPlayer' \subseteq DOMAIN perPlayer
           /\ \A q, u : Follows(q, u)' <=> Follows(q, u) /\ ~(q = p /\ u = t)
           /\ \A q, u : FollowsBack(q, u)' <=> FollowsBack(q, u) /\ ~(q = p /\ u = t)
<1>1. subscribers' = Remove(subscribers, {t}, p) /\ perPlayer' = Remove(perPlayer, {p}, t)
  BY DEF Unsubscribe
<1>2. MapOK(subscribers', Topics, Players)
  BY <1>1 DEF TypeOK, MapOK, Remove
<1>3. MapOK(perPlayer', Players, Topics) /\ DOMAIN perPlayer' \subseteq DOMAIN perPlayer
  BY <1>1 DEF TypeOK, MapOK, Remove
<1>4. \A q, u : Follows(q, u)' <=> Follows(q, u) /\ ~(q = p /\ u = t)
  BY <1>1 DEF Follows, Remove, At
<1>5. \A q, u : FollowsBack(q, u)' <=> FollowsBack(q, u) /\ ~(q = p /\ u = t)
  BY <1>1 DEF FollowsBack, Remove, At
<1> QED
  BY <1>2, <1>3, <1>4, <1>5

\* UnsubscribeAll removes every pair of a player from both maps: since they are
\* inverse, the player's topics are all the entries there are to change.
LEMMA RemovePlayerMaps ==
    ASSUME TypeOK, MapsInverse, NEW p \in Players, RemovePlayer(p)
    PROVE  /\ MapOK(subscribers', Topics, Players)
           /\ MapOK(perPlayer', Players, Topics)
           /\ DOMAIN perPlayer' = DOMAIN perPlayer \ {p}
           /\ \A q \in Players, u \in Topics : Follows(q, u)' <=> Follows(q, u) /\ q # p
           /\ \A q, u : FollowsBack(q, u)' <=> FollowsBack(q, u) /\ q # p
<1>1. /\ subscribers' = Remove(subscribers, At(perPlayer, p), p)
      /\ perPlayer' = Drop(perPlayer, p)
  BY DEF RemovePlayer
<1>2. MapOK(subscribers', Topics, Players)
  BY <1>1 DEF TypeOK, MapOK, Remove
<1>3. MapOK(perPlayer', Players, Topics) /\ DOMAIN perPlayer' = DOMAIN perPlayer \ {p}
  BY <1>1 DEF TypeOK, MapOK, Drop
<1>4. \A q \in Players, u \in Topics : Follows(q, u)' <=> Follows(q, u) /\ q # p
  <2> SUFFICES ASSUME NEW q \in Players, NEW u \in Topics
               PROVE  Follows(q, u)' <=> Follows(q, u) /\ q # p
    OBVIOUS
  <2>1. p \in At(subscribers, u) <=> u \in At(perPlayer, p)
    BY DEF MapsInverse
  <2>2. Follows(q, u)' <=> Follows(q, u) /\ ~(u \in At(perPlayer, p) /\ q = p)
    BY <1>1 DEF Follows, Remove, At
  <2> QED
    BY <2>1, <2>2 DEF Follows
<1>5. \A q, u : FollowsBack(q, u)' <=> FollowsBack(q, u) /\ q # p
  BY <1>1 DEF FollowsBack, Drop, At
<1> QED
  BY <1>2, <1>3, <1>4, <1>5

-----------------------------------------------------------------------------
(* The invariant *)

\* New starts with two empty maps.
LEMMA InitInv == Init => Inv
BY DEF Init, Inv, TypeOK, MapsInverse, NoneLeftBehind, Empty, At

\* Every operation keeps the maps typed, inverse and free of absent players.
LEMMA NextInv == Inv /\ [Next]_vars => Inv'
<1> SUFFICES ASSUME Inv, [Next]_vars PROVE Inv'
  OBVIOUS
<1> USE DEF Inv
<1>0. \A q \in Players, u \in Topics : Follows(q, u) <=> FollowsBack(q, u)
  BY DEF MapsInverse, Follows, FollowsBack
<1>1. ASSUME \A q \in Players, u \in Topics : Follows(q, u)' <=> FollowsBack(q, u)'
      PROVE  MapsInverse'
  BY <1>1 DEF MapsInverse, Follows, FollowsBack
<1>2. ASSUME MapOK(subscribers', Topics, Players), MapsInverse',
             MapOK(perPlayer', Players, Topics), DOMAIN perPlayer' \subseteq connected'
      PROVE  NoneLeftBehind'
  <2>1. \A u \in Topics : At(subscribers', u) \subseteq Players
    BY <1>2 DEF MapOK, At
  <2>2. ASSUME NEW u \in Topics, NEW q \in At(subscribers', u)
        PROVE  q \in connected'
    <3>1. q \in Players
      BY <2>1, <2>2
    <3>2. u \in At(perPlayer', q)
      BY <1>2, <2>2, <3>1 DEF MapsInverse
    <3> QED
      BY <1>2, <3>2 DEF At
  <2> QED
    BY <1>2, <2>2 DEF NoneLeftBehind
<1>3. ASSUME NEW p \in Players, NEW t \in Topics, Subscribe(p, t)
      PROVE  Inv'
  <2>1. MapsInverse'
    BY <1>0, <1>1, <1>3, SubscribeMaps
  <2>2. DOMAIN perPlayer' \subseteq connected'
    <3>1. DOMAIN perPlayer' = DOMAIN perPlayer \cup {p}
      BY <1>3, SubscribeMaps
    <3> QED
      BY <1>3, <3>1 DEF Subscribe, players, NoneLeftBehind
  <2>3. TypeOK'
    BY <1>3, SubscribeMaps DEF Subscribe, players, TypeOK, MapOK
  <2> QED
    BY <1>2, <1>3, <2>1, <2>2, <2>3, SubscribeMaps
<1>4. ASSUME NEW p \in Players, NEW t \in Topics, Unsubscribe(p, t)
      PROVE  Inv'
  <2>1. MapsInverse'
    BY <1>0, <1>1, <1>4, UnsubscribeMaps
  <2>2. DOMAIN perPlayer' \subseteq connected'
    BY <1>4, UnsubscribeMaps DEF Unsubscribe, players, NoneLeftBehind
  <2>3. TypeOK'
    BY <1>4, UnsubscribeMaps DEF Unsubscribe, players, TypeOK, MapOK
  <2> QED
    BY <1>2, <1>4, <2>1, <2>2, <2>3, UnsubscribeMaps
<1>5. ASSUME NEW p \in Players, UnsubscribeAll(p) \/ OnDisconnect(p)
      PROVE  Inv'
  <2>1. RemovePlayer(p) /\ reached' = reached
    BY <1>5 DEF UnsubscribeAll, OnDisconnect
  <2>2. MapsInverse'
    BY <1>0, <1>1, <2>1, RemovePlayerMaps
  <2>3. /\ connected' \subseteq connected /\ connected \ {p} \subseteq connected'
        /\ paired \subseteq connected => paired' \subseteq connected'
    BY <1>5 DEF UnsubscribeAll, OnDisconnect, players
  <2>4. DOMAIN perPlayer' \subseteq connected'
    BY <2>1, <2>3, RemovePlayerMaps DEF NoneLeftBehind
  <2>5. TypeOK'
    BY <2>1, <2>3, RemovePlayerMaps DEF TypeOK, MapOK
  <2> QED
    BY <1>2, <2>1, <2>2, <2>4, <2>5, RemovePlayerMaps
<1>6. ASSUME NEW p \in Players, Connect(p)
      PROVE  Inv'
  BY <1>6 DEF Connect, maps, TypeOK, MapsInverse, NoneLeftBehind, At
<1>7. ASSUME NEW t \in Topics, NEW tr \in Transports, PublishOver(t, tr)
      PROVE  Inv'
  <2>1. Reach(t, tr) \subseteq Players
    BY DEF Reach, TypeOK
  <2> QED
    BY <1>7, <2>1 DEF PublishOver, maps, players, TypeOK, MapsInverse, NoneLeftBehind, At
<1>8. CASE UNCHANGED vars
  BY <1>8 DEF vars, TypeOK, MapsInverse, NoneLeftBehind, At
<1>9. ASSUME NEW p \in Players, Pair(p)
      PROVE  Inv'
  BY <1>9 DEF Pair, maps, TypeOK, MapsInverse, NoneLeftBehind, At
<1> QED
  BY <1>3, <1>4, <1>5, <1>6, <1>7, <1>8, <1>9 DEF Next

\* Inv holds in every reachable state.
LEMMA InvHolds == Spec => []Inv
BY InitInv, NextInv, PTL DEF Spec

\* Subscribe, Unsubscribe and UnsubscribeAll keep the two maps inverse.
THEOREM MapsStayInverse == Spec => []MapsInverse
BY InvHolds, PTL DEF Inv

\* No entry of either map is ever empty, so the maps do not leak keys.
THEOREM NoEmptyEntries == Spec => []TypeOK
BY InvHolds, PTL DEF Inv

\* With UnsubscribeAll in OnDisconnect, a player who left has no subscription.
THEOREM LeaversLeaveNothing == Spec => []NoneLeftBehind
BY InvHolds, PTL DEF Inv

-----------------------------------------------------------------------------
(* The relation that the maps implement *)

\* The empty maps are the empty relation.
LEMMA InitRelation == Init => Subs!AInit
BY DEF Init, Subs!AInit, Empty, At

\* Every step of the manager is a step of the relation.
LEMMA NextRelation == Inv /\ Inv' /\ [Next]_vars => [Subs!ANext]_(Subs!avars)
<1> SUFFICES ASSUME Inv, Inv', [Next]_vars PROVE [Subs!ANext]_(Subs!avars)
  OBVIOUS
<1> USE DEF Inv
<1> DEFINE rel == {x \in Players \X Topics : x[1] \in At(subscribers, x[2])}
<1>0. /\ \A q \in Players, u \in Topics : <<q, u>> \in rel <=> Follows(q, u)
      /\ \A q \in Players, u \in Topics : <<q, u>> \in rel' <=> Follows(q, u)'
      /\ rel \subseteq Players \X Topics
      /\ rel' \subseteq Players \X Topics
  BY DEF Follows
<1> HIDE DEF rel
<1>1. ASSUME NEW p \in Players, NEW t \in Topics, Subscribe(p, t)
      PROVE  Subs!Follow(p, t)
  <2>1. \A q \in Players, u \in Topics :
           <<q, u>> \in rel' <=> <<q, u>> \in rel \/ (q = p /\ u = t)
    BY <1>0, <1>1, SubscribeMaps
  <2>2. rel' = rel \cup {<<p, t>>}
    BY <1>0, <2>1
  <2> QED
    BY <1>1, <2>2 DEF Subscribe, players, Subs!Follow, rel
<1>2. ASSUME NEW p \in Players, NEW t \in Topics, Unsubscribe(p, t)
      PROVE  Subs!Unfollow(p, t)
  <2>1. \A q \in Players, u \in Topics :
           <<q, u>> \in rel' <=> <<q, u>> \in rel /\ ~(q = p /\ u = t)
    BY <1>0, <1>2, UnsubscribeMaps
  <2>2. rel' = rel \ {<<p, t>>}
    BY <1>0, <2>1
  <2> QED
    BY <1>2, <2>2 DEF Unsubscribe, players, Subs!Unfollow, rel
<1>3. ASSUME NEW p \in Players, RemovePlayer(p)
      PROVE  rel' = rel \ ({p} \X Topics)
  <2>1. \A q \in Players, u \in Topics : <<q, u>> \in rel' <=> <<q, u>> \in rel /\ q # p
    BY <1>0, <1>3, RemovePlayerMaps
  <2> QED
    BY <1>0, <2>1
<1>4. ASSUME NEW p \in Players, UnsubscribeAll(p)
      PROVE  Subs!UnfollowAll(p)
  BY <1>3, <1>4 DEF UnsubscribeAll, players, Subs!UnfollowAll, rel
<1>5. ASSUME NEW p \in Players, OnDisconnect(p)
      PROVE  Subs!Leave(p)
  BY <1>3, <1>5 DEF OnDisconnect, Subs!Leave, rel
<1>6. ASSUME NEW p \in Players, Connect(p)
      PROVE  Subs!Join(p)
  BY <1>6 DEF Connect, maps, Subs!Join, At
<1>7. ASSUME NEW p \in Players, Pair(p)
      PROVE  Subs!GetReady(p)
  BY <1>7 DEF Pair, maps, Subs!GetReady, At
<1>8. ASSUME NEW t \in Topics, NEW tr \in Transports, PublishOver(t, tr)
      PROVE  Subs!Announce(t)
  <2>1. At(subscribers, t) \cap connected = {p \in Players : <<p, t>> \in rel}
    BY <1>0 DEF NoneLeftBehind, TypeOK, Follows
  <2>2. At(subscribers, t) \cap paired = {p \in paired : <<p, t>> \in rel}
    BY <1>0 DEF TypeOK, Follows
  <2>3. rel' = rel
    BY <1>8 DEF PublishOver, maps, rel, At
  <2> QED
    BY <1>8, <2>1, <2>2, <2>3 DEF PublishOver, Reach, players, Subs!Announce, rel
<1>9. CASE UNCHANGED vars
  BY <1>9 DEF vars, Subs!avars, At
<1> QED
  BY <1>1, <1>2, <1>4, <1>5, <1>6, <1>7, <1>8, <1>9 DEF Next, Subs!ANext

\* The manager implements one relation between players and topics, and each
\* publication is sent to exactly the players related to its topic, over UDP
\* to those of them who have paired.
THEOREM ManagerImplementsRelation == Spec => ImplementsSubscriptions
BY InvHolds, InitRelation, NextRelation, PTL DEF Spec, ImplementsSubscriptions, Subs!ASpec
=============================================================================
