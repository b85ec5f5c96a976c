SPECIFICATION PageTableSpec
CONSTANTS
  INT_MAX = 2
  Pages <- FivePages
  Processes <- TwoProcesses
  physpages = 3
  MaxTreeNodes = 6
  MaxFaults = 5
CONSTRAINT FaultBound
CHECK_DEADLOCK FALSE
INVARIANTS
  FramesKept
  FaultsAccounted
  SearchEnds
  LruIndexExact
