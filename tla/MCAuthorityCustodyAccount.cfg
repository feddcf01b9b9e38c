SPECIFICATION FairSpec
CONSTANTS
  ActorCount = 2
  Plan <- MCAccountPlan
  Delivery <- MCAccountDelivery
  Faults = {"timeout", "issue", "consume", "framing", "alteration", "cutoff", "death", "unresolved"}
INVARIANT ExtensionAccountAccepted
PROPERTY HostFinishes
