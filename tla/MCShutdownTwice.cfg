SPECIFICATION ShutdownFairSpec
CONSTANTS
  Producers = {udp}
  Consumers = {}
  MainThread = main
  Signals = {SIGINT, SIGTERM}
  a = a
  Packets <- OnePacket
  PacketLen <- OneLength
  Node = {n1, n2}
  MaxLate = 1
  MAX_PCK = 0
  NULL = NULL
  WILD = WILD
  NoPacket = NoPacket
CHECK_DEADLOCK FALSE
INVARIANTS
  NestedIsSafe
PROPERTIES
  ShutdownEnds
