SPECIFICATION FairSpec
CONSTANTS
  NumPages = 5
  pagesize = 4
  Bytes <- FourBytes
  W = "w"
  Zero = "0"
  Contents <- SomePages
  pattern <- AB
  Limits <- OneOrThree
  Buffers <- NoneOrTwo
  ArrayLength = 10
CHECK_DEADLOCK FALSE
INVARIANTS
  TypeOK
  RecordedAreMatches
  MatchesAreCounted
  HeapMatchIsFound
  OnlyMappingChanges
PROPERTIES
  MemoryKept
  Ends
