CONSTANTS
  Ids <- ThreeIds
  Confs <- ConditionalConf
  SavedStatuses <- NoneOrSome
  Builtins = {"@any"}
  Registrations <- SomeRegistrations
  MaxEdges = 9
SPECIFICATION Spec
INVARIANTS
  ConditionsAreKept
