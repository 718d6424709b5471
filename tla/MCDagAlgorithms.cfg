CONSTANTS
  Ids <- FourIds
  Tags = {"plain"}
  MaxEdges = 4
  VertexSets <- FirstIds
  Starts <- OneStart
SPECIFICATION Spec
INVARIANTS
  WalkIsExact
  BreadthFirstIsShortest
  DepthFirstOrder
  ReductionIsExact
  ComponentsAreExact
  OrderIsTopological
  ValidateIsExact
PROPERTIES
  EveryCallReturns
