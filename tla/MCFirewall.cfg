SPECIFICATION FirewallFairSpec
CONSTANTS
  r1 = r1
  r2 = r2
  r3 = r3
  Rules = {r1, r2, r3}
  NoRule = NoRule
  Files <- AlsoBlank
  FailureReply = "ERROR"
  Refused = {}
  MaxFailures = 2
  MaxDeaths = 1
  MaxCrashes = 3
CHECK_DEADLOCK FALSE
INVARIANTS
  CleanRunLoadsFile
  NoDuplicates
  GapBound
  LoadedOrLogged
PROPERTIES
  LoaderFinishes
