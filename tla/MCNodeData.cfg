CONSTANTS
  a = a
  b = b
  c = c
  d = d
  NoValue = NoValue
  NoCondition = NoCondition
  Vertices = {a, b, c, d}
  Edges <- Diamond
  Properties <- EdgeProperties
  Conditions <- EdgeConditions
  Params <- TaskParams
  Configs <- AllConfigs
  Nesting <- Depths
  Data <- Values
  Fields = {"N", "All", "Map"}
  Outputs <- TaskOutputs
  Writes <- TaskWrites
  Reshares <- TaskReshares
  InitialData <- SomeData
  ResultKeys = {"n", "s"}
  MaxRuns = 2
SPECIFICATION Spec
INVARIANTS
  TasksRunOnWhatTheyNeed
  OutputsOutliveRuns
CHECK_DEADLOCK FALSE
