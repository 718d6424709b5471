CONSTANTS
  a = a
  b = b
  c = c
  First <- Chain
  Later <- Back
  Answers <- Passing
  Cancellable = FALSE
  Readding = TRUE
  MaxUpdates = 3
SPECIFICATION Spec
PROPERTIES
  WalkedAfterDeps
CHECK_DEADLOCK FALSE
