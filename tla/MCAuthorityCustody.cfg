SPECIFICATION Spec
CONSTANTS
  ActorCount = 2
  Plan <- MCPlan
  Delivery <- MCDelivery
  Faults = {"timeout", "issue", "alteration", "cutoff", "unresolved"}
INVARIANTS ExclusivePayload ConsumesWhatWasIssued NothingLeftBehind DeliveriesSettle
