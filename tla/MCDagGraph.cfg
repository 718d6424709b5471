CONSTANTS
  Ids <- ThreeIds
  Tags = {"plain", "conditional"}
  MaxEdges = 9
SPECIFICATION Spec
INVARIANTS
  TypeOK
  EdgesAgree
  EdgesJoinVertices
PROPERTIES
  ImplementsAbstract
