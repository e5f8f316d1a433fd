SPECIFICATION EventSpec
CONSTANTS
  MaxItems = 9
  Keys <- MCKeys
  Values <- MCValues
  China = {"1.1.8.1"}
  Elsewhere = {"8.8.8.8"}
  Packets <- MCPackets
  Regions = {0, 1, 2}
  MaxMatches = 2
CHECK_DEADLOCK FALSE
INVARIANTS
  ListsAreLinked
  RecordIsRight
  OnlyTheEventStays
