CONSTANTS
  a = a
  b = b
  c = c
  First <- Chain
  Later <- Grown
  Answers <- Plain
  Cancellable = TRUE
  Readding = FALSE
  MaxUpdates = 3
SPECIFICATION FairSpec
PROPERTIES
  WalkedAfterDeps
  UpdatedWalkEnds
  OneUpdateIsAWalk
CHECK_DEADLOCK FALSE
