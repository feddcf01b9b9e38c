SPECIFICATION Spec
CONSTANTS
  Plan <- MCPlan
  PhaseSlots <- MCPhaseSlots
  HostFaults = {"transfer", "wait_error", "echild", "kill_error"}
  PhaseSteps <- MCPhaseSteps
  Budget = 4
  Allowance = 3
  ClockMax = 40
  MaxFailures = 1
  MaxSwitches = 1
  ActorRoles <- MCActorRoles
  Required <- MCRequired
  MaxReplacements = 1
INVARIANTS
  RecordIsTrue
  AcceptedIsWitnessed
  ExecReportIsTrue
  CollectionAccepted
  CollectionWithinBudget
  SetupAccountIsTrue
  EquipmentIsTrue
CHECK_DEADLOCK FALSE
