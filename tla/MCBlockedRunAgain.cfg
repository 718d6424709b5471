CONSTANTS
  r = r
  a = a
  b = b
  y = y
  c = c
  Vertices <- ChainVertices
  Edges <- ChainEdges
  AnyNodes <- Nobody
  NotNodes <- Nobody
  Conditional <- Nobody
  SkipExecution <- Nobody
  Cancellable = FALSE
  ExecuteResponses <- Plain
  Faulty <- Nobody
  AfterMayPanic <- Nobody
  Hanging <- Nobody
  TimeoutTasks <- Nobody
  AlwaysPass <- OnlyR
  AbortIfError <- Nobody
  Concurrency = 1
  MaxRuns = 2
SPECIFICATION Spec
INVARIANTS
  BlockedTasksRunAgain
