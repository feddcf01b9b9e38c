SPECIFICATION FairSpec
CONSTANTS
  ActorCount = 2
  Schedule <- MCSchedule
  Dependency <- MCDependency
  Inspects = TRUE
  Faults <- MCFaults
INVARIANTS
  GatesAreTrue
  ProtocolKept
  EveryActorAccounted
PROPERTIES
  NoActivationOverOrphan
  SchedulerReturns
