SPECIFICATION Spec
CONSTANTS
  Producers = {udp1, udp2}
  Consumers = {worker1, worker2}
  a = a
  b = b
  short = short
  Packets <- OnePacket
  PacketLen <- MCPacketLen
  Node = {n1, n2, n3, n4, n5}
  MAX_PCK = 0
  NULL = NULL
  WILD = WILD
  NoPacket = NoPacket
SYMMETRY ThreadSymmetry
INVARIANTS
  MutualExclusion
  QueueBound
  MemoryBound
  IInv
