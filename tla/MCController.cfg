SPECIFICATION FairSpec
CONSTANTS
  Runs <- MCRuns
  Later <- MCLater
  MaxReplaced = 1
  Clients <- MCClients
  Checks <- MCChecks
  TickLimit = 10
  Sources <- MCSources
  Policies <- MCPolicies
  Names <- MCNames
  Candidates <- MCCandidates
  Canonical <- MCCanonical
  Disks <- MCDisks
  Replacements <- MCReplacements
  IMPORT_MAX_DEPTH = 2
  IMPORT_MAX_COUNT = 3
  Input = 3
  PipeSize = 1
  Scripts <- MCScripts
INVARIANTS
  SpecimenDescribed
  SelectionIsTrue
  OutcomeIsTrue
  ImportsAccounted
  NativeReleased
  DeliveryIsTrue
PROPERTY
  DeliveryReturns
CHECK_DEADLOCK FALSE
