CONSTANTS
  p = p
  q = q
  Runs <- Both
  Resumed <- OnlyQ
  Scheduled <- OnlyP
  Kinds <- MixedKinds
  Items = 3
  MaxLoop = 2
  BreakOnError = FALSE
  Workers = 1
  Objects = {1, 2, 3, 4}
SPECIFICATION FairSpec
INVARIANTS
  RunsOwnTheirContext
  LoopsStop
  ResultsAreExact
PROPERTIES
  EveryRunIsReported
CHECK_DEADLOCK FALSE
