----------------------------- MODULE MCBufQueue -----------------------------
(* Small instances of BufQueue for TLC.                                    *)
EXTENDS BufQueueInv

CONSTANTS a, b, short     \* two packets of valid length, one too short

MCPackets == {a, b, short}
MCPacketLen == [p \in Packets |->
  CASE p = a -> MIN_LEN [] p = b -> MAX_LEN [] p = short -> MIN_LEN - 1]

NodeSymmetry == Permutations(Node)

(* The threads of one kind are interchangeable too.                        *)
ThreadSymmetry ==
  NodeSymmetry \cup Permutations(Producers) \cup Permutations(Consumers)

(* With one kind of packet, for the instance with more threads.            *)
OnePacket == {a}
=============================================================================
