CONSTANTS
  PhaseCount = 2
  SlotsPerPhase = 1
  Faults <- MCFaults
SPECIFICATION HostFairSpec
INVARIANTS
  QueryFirst
  OrderingEvidenceIsTrue
  OutputBasisIsTrue
PROPERTIES
  WorkerLeaves
  HostReturns
