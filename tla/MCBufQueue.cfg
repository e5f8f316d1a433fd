SPECIFICATION FairSpec
CONSTANTS
  Producers = {udp}
  Consumers = {worker}
  a = a
  b = b
  short = short
  Packets <- MCPackets
  PacketLen <- MCPacketLen
  Node = {n1, n2, n3}
  MAX_PCK = 2
  NULL = NULL
  WILD = WILD
  NoPacket = NoPacket
INVARIANTS
  TypeOK
  ListIsTheQueue
  LenIsQueuedBytes
  NoDanglingAccess
  EveryNodeHasOneOwner
  PopFindsPacket
PROPERTIES
  ImplementsFifo
  QueuedIsProcessed
  ProducerReturns
