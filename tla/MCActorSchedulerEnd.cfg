SPECIFICATION Spec
CONSTANTS
  ActorCount = 2
  Schedule <- MCSchedule
  Dependency <- MCDependency
  Inspects = FALSE
  Faults = {}
INVARIANTS
  EndReasonIsTrue
