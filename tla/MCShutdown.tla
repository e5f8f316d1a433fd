----------------------------- MODULE MCShutdown -----------------------------
(* A small instance of Shutdown for TLC.                                   *)
EXTENDS Shutdown

CONSTANTS a

OnePacket == {a}
OneLength == [p \in Packets |-> MIN_LEN]
NodeSymmetry == Permutations(Node)
=============================================================================
