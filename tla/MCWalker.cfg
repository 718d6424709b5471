CONSTANTS
  r = r
  a = a
  b = b
  y = y
  n = n
  d = d
  Vertices <- MCVertices
  Edges <- MCEdges
  AnyNodes <- MCAny
  NotNodes <- MCNot
  Conditional <- MCConditional
  SkipExecution <- MCSkip
  CallbackResponses <- MCResponses
  Cancellable = TRUE
  MaxWalks = 2
SPECIFICATION FairSpec
INVARIANTS
  TypeOK
  StartAfterDeps
  VerdictJustified
  SilencedOnlyByLogicNodes
PROPERTIES
  RecordedAnswersAreFinal
  SettledStatusesStay
  ImplementsLogic
  EveryWalkEnds
