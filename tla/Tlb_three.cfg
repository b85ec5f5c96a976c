SPECIFICATION TlbSpec
CONSTANTS
  INT_MAX = 7
  Pages <- SevenPages
  tlb_MaxSize = 3
INVARIANTS
  QueueLinked
  NoDanglingBucket
  BucketIsRecent
PROPERTIES
  LookedUpHits
