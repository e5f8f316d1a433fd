SPECIFICATION ListenerFairSpec
CONSTANTS
  Calls <- MCCalls
  Listeners <- MCListeners
  Listener <- MCListener
  Clients = {"A", "B"}
  Client <- MCClient
  Nested <- MCNested
  Netd = "netd"
  Nobody = Nobody
CHECK_DEADLOCK FALSE
INVARIANTS
  EntriesAreWatched
  RegisteredIsKept
PROPERTIES
  CallsReturn
  DeadAreForgotten
