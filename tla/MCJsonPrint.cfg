SPECIFICATION PrintSpec
CONSTANTS
  Trees <- AllTrees
  INT_MAX = 90
  DEFAULT_BUFFER_SIZE = 4
CHECK_DEADLOCK FALSE
INVARIANTS
  WritesInside
  PrintsTheTree
  BufferIsFreed
