------------------------------ MODULE MCServer ------------------------------
(***************************************************************************)
(* Instances of the server for TLC.                                        *)
(***************************************************************************)
EXTENDS ServerProperties, TLC

\* Every client may send from every address.
SharedSockets == [c \in Conns |-> Addrs]

\* Connections are alike, as all of them may use every address.
Symmetric == Permutations(Conns)
=============================================================================
