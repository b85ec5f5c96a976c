SPECIFICATION FairSpec
CONSTANTS
  t1 = t1  t2 = t2  t3 = t3  v1 = v1  v2 = v2
  Blank = Blank  Junk = Junk
  Threads <- ThreeThreads
  Values <- TwoValues
  WHITEBOARD_SIZE = 1
  QueryEntries <- FirstAndMissing
  Buffers <- TwoBuffers
  MaxNoMemory = 0
PROPERTIES
  Atomic
  CallsReturn
