CONSTANTS
  r = r
  a = a
  b = b
  y = y
  c = c
  Vertices <- ForkVertices
  Edges <- ForkEdges
  AnyNodes <- OnlyY
  NotNodes <- Nobody
  Conditional <- OnlyC
  SkipExecution <- OnlyC
  Cancellable = TRUE
  ExecuteResponses <- Plain
  Faulty <- OnlyB
  AfterMayPanic <- OnlyB
  Hanging <- OnlyB
  TimeoutTasks <- OnlyA
  AlwaysPass <- OnlyB
  AbortIfError <- OnlyA
  Concurrency = 1
  MaxRuns = 2
SPECIFICATION FairSpec
INVARIANTS
  TypeOK
  ExecutorsHoldSlots
  SuccessAbsorbedFailures
  ResumableTasksAreIdle
  BlockedTasksHoldDependents
  AwaitedTasksAreUnsettled
  StateTellsAnswers
PROPERTIES
  EveryRunReturns
  CancelledRunReturns
