SPECIFICATION Spec
CONSTANTS
  t1 = t1  t2 = t2  t3 = t3  v1 = v1  v2 = v2
  Blank = Blank  Junk = Junk
  Threads <- ThreeThreads
  Values <- TwoValues
  WHITEBOARD_SIZE = 2
  QueryEntries <- TwoEntries
  Buffers <- FiveBuffers
  MaxNoMemory = 0
SYMMETRY Symmetry
CHECK_DEADLOCK FALSE
INVARIANTS
  ReplyConsistent
