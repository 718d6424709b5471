CONSTANTS
  Ids <- ThreeIds
  Confs <- AllConfs
  SavedStatuses <- NoneOrSome
  Builtins = {"@any"}
  Registrations <- SomeRegistrations
  MaxEdges = 9
SPECIFICATION Spec
INVARIANTS
  BuildIsExact
PROPERTIES
  SavedStatusesStay
