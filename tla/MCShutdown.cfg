SPECIFICATION ShutdownSpec
CONSTANTS
  Producers = {udp}
  Consumers = {worker}
  MainThread = main
  Signals = {SIGINT}
  a = a
  Packets <- OnePacket
  PacketLen <- OneLength
  Node = {n1, n2, n3}
  MaxLate = 1
  MAX_PCK = 1
  NULL = NULL
  WILD = WILD
  NoPacket = NoPacket
CHECK_DEADLOCK FALSE
SYMMETRY NodeSymmetry
INVARIANTS
  ShutdownTypeOK
  AloneIsSafe
