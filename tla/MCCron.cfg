CONSTANTS
  p = p
  q = q
  Runs <- Both
  Resumed <- OnlyQ
  Scheduled <- OnlyP
  Kinds <- PlainKinds
  Items = 3
  MaxLoop = 2
  BreakOnError = FALSE
  Workers = 1
  Objects = {1, 2, 3, 4}
SPECIFICATION Spec
INVARIANTS
  LogsFindTheirRun
CHECK_DEADLOCK FALSE
