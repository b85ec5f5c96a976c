SPECIFICATION FairSpec
CONSTANTS
  WHITEBOARD_SIZE = 10
  Entries <- OneAndTen
  Boards <- BoardOfTwo
  Tails <- SomeTail
  Typed <- SomeTexts
  KeyFiles <- SomeFiles
  MaxAsks = 3
CHECK_DEADLOCK FALSE
INVARIANTS
  TypeOK
  ShowsWhatCame
  KeysTriedWhole
PROPERTIES
  RequestsUnderstood
  AnswerComes
