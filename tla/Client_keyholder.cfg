SPECIFICATION Spec
CONSTANTS
  WHITEBOARD_SIZE = 1
  Entries <- JustOne
  Boards <- BoardOfOne
  Tails <- NoTail
  Typed <- OneText
  KeyFiles <- OneFile
  MaxAsks = 3
CHECK_DEADLOCK FALSE
INVARIANTS
  KeyholderReads
