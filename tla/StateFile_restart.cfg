SPECIFICATION FairSpec
CONSTANTS
  Messages <- TwoMessages
  Tails <- TwoTails
  Handmade <- FourFiles
  Sizes <- JustTwo
  MaxStarts = 2
  MaxUpdates = 1
  MaxSignals = 2
CHECK_DEADLOCK FALSE
INVARIANTS
  TypeOK
  RestoredAsDumped
  LoadFits
PROPERTIES
  DumpsAreAccepted
  SignalStops
