----------------------------- MODULE PacketFifo -----------------------------
(***************************************************************************)
(* What the packet queue between the UDP thread and the main loop of       *)
(* ioemnetd promises: a bounded first-in first-out channel.  A producer    *)
(* either drops the packet it was offered or puts it at the end, once; a   *)
(* consumer takes the oldest packet.  No packet is invented, duplicated,   *)
(* reordered, or lost after it was put.  Module BufQueue implements it.    *)
(***************************************************************************)
EXTENDS Naturals, Sequences

CONSTANTS
  Producers,   \* threads that put packets
  Consumers,   \* threads that take packets
  Packets,     \* the packets
  Capacity,    \* the most packets the channel ever holds
  NoPacket     \* a thread's hand when it holds no packet

VARIABLES
  queue,       \* the packets put and not yet taken, oldest first
  offered,     \* the packet each producer has received and not yet settled
  taken        \* the packet each consumer is processing

vars == <<queue, offered, taken>>

Init ==
  /\ queue = <<>>
  /\ offered = [p \in Producers |-> NoPacket]
  /\ taken = [c \in Consumers |-> NoPacket]

(* A packet reaches a producer.                                            *)
Offer(p, pkt) ==
  /\ offered[p] = NoPacket
  /\ offered' = [offered EXCEPT ![p] = pkt]
  /\ UNCHANGED <<queue, taken>>

(* The producer gives the packet up: the channel was full, the packet was  *)
(* invalid, or there was no memory.                                        *)
Drop(p) ==
  /\ offered[p] # NoPacket
  /\ offered' = [offered EXCEPT ![p] = NoPacket]
  /\ UNCHANGED <<queue, taken>>

Put(p) ==
  /\ offered[p] # NoPacket
  /\ Len(queue) < Capacity
  /\ queue' = Append(queue, offered[p])
  /\ offered' = [offered EXCEPT ![p] = NoPacket]
  /\ UNCHANGED taken

Take(c) ==
  /\ taken[c] = NoPacket
  /\ queue # <<>>
  /\ taken' = [taken EXCEPT ![c] = Head(queue)]
  /\ queue' = Tail(queue)
  /\ UNCHANGED offered

Finish(c) ==
  /\ taken[c] # NoPacket
  /\ taken' = [taken EXCEPT ![c] = NoPacket]
  /\ UNCHANGED <<queue, offered>>

Next ==
  \/ \E p \in Producers : Drop(p) \/ Put(p) \/ \E pkt \in Packets : Offer(p, pkt)
  \/ \E c \in Consumers : Take(c) \/ Finish(c)

Spec == Init /\ [][Next]_vars
=============================================================================
