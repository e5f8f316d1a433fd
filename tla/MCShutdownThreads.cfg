SPECIFICATION ShutdownSpec
CONSTANTS
  Producers = {udp}
  Consumers = {worker}
  MainThread = main
  Signals = {SIGINT}
  a = a
  Packets <- OnePacket
  PacketLen <- OneLength
  Node = {n1, n2}
  MaxLate = 1
  MAX_PCK = 0
  NULL = NULL
  WILD = WILD
  NoPacket = NoPacket
CHECK_DEADLOCK FALSE
INVARIANTS
  StoppedBeforeFreed
