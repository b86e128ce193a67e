---------------------------- MODULE MCGameServer ----------------------------
(***************************************************************************)
(* Instances of the game on the server for TLC.                            *)
(***************************************************************************)
EXTENDS GameServer, TLC

\* Every client may send from every address.
SharedSockets == [c \in Conns |-> Addrs]

\* Connections are alike, as all of them may use every address.
Symmetric == Permutations(Conns)
=============================================================================
