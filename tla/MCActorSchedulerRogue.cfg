SPECIFICATION Spec
CONSTANTS
  ActorCount = 2
  Schedule <- MCSchedule
  Dependency <- MCNoDependency
  Inspects = FALSE
  Faults <- MCRogue
INVARIANTS
  CompletedAfterCollection
PROPERTIES
  ImplementsSerial
