SPECIFICATION XdbFairSpec
CONSTANTS
  china = china
  abroad = abroad
  nowhere = nowhere
  Octet = 3
  Files <- Databases
  Texts <- AllTexts
  Chinese = {china}
  Room = 3
  Nowhere = nowhere
CHECK_DEADLOCK FALSE
INVARIANTS
  ParseIsRight
  ProbesStayInside
  SearchIsRight
  LookupIsRight
PROPERTY
  LookupEnds
