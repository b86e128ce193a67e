--------------------------- MODULE PlayerSessions ---------------------------
(***************************************************************************)
(* What the session layer gives a game, whatever the clients do.  A        *)
(* connection is authenticated at most once, as a player nobody holds; it  *)
(* becomes ready at most once, after that, and not after it has left; it   *)
(* leaves at most once, and that frees its player.                         *)
(*                                                                         *)
(* There are two things it does not give.  A connection that has left may  *)
(* still be authenticated, if it was not before, and then holds its player *)
(* for ever.  And the player with id 0 is never freed, so that the holder  *)
(* of that id may become ready after it has left.                          *)
(***************************************************************************)
CONSTANTS Conns, Players, None

VARIABLES phase,   \* how far each connection has come
          left,    \* the connections that have left
          owner    \* the connection that holds each player

avars == <<phase, left, owner>>

AInit ==
    /\ phase = [c \in Conns |-> "none"]
    /\ left = {}
    /\ owner = [p \in Players |-> None]

Connect(c) ==
    /\ phase[c] = "none"
    /\ phase' = [phase EXCEPT ![c] = "connected"]
    /\ UNCHANGED <<left, owner>>

Authenticate(c, p) ==
    /\ phase[c] = "connected"
    /\ owner[p] = None
    /\ phase' = [phase EXCEPT ![c] = "authenticated"]
    /\ owner' = [owner EXCEPT ![p] = c]
    /\ UNCHANGED left

\* The connection that is paired as player p.
Pair(c, p) ==
    /\ phase[c] = "authenticated"
    /\ owner[p] = c
    /\ c \in left => p = 0
    /\ phase' = [phase EXCEPT ![c] = "ready"]
    /\ UNCHANGED <<left, owner>>

Leave(c) ==
    /\ phase[c] # "none"
    /\ c \notin left
    /\ left' = left \cup {c}
    /\ owner' = [p \in Players |-> IF owner[p] = c /\ p # 0 THEN None ELSE owner[p]]
    /\ UNCHANGED phase

ANext ==
    \E c \in Conns :
        \/ Connect(c) \/ Leave(c)
        \/ \E p \in Players : Authenticate(c, p) \/ Pair(c, p)

ASpec == AInit /\ [][ANext]_avars
=============================================================================
