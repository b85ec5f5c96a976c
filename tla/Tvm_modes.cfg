SPECIFICATION FairSpec
CONSTANTS
  INT_MAX = 3
  Pages <- FivePages
  Processes <- TwoProcesses
  TraceFiles = 2
  tlb_MaxSize = 2
  physpages = 2
  quantom_Pages = 2
  MaxLength = 3
  MaxTreeNodes = 5
INVARIANTS
  TypeOK
  CrashesHaveCause
  CountedOnce
PROPERTIES
  UsesTlb
  Ends
