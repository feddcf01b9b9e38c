SPECIFICATION Spec
CONSTANTS
  p1 = p1
  p2 = p2
  Procs = {p1, p2}
  Bundles <- MCBundles
  Service <- MCShared
  TeardownReads = 1
  MaxCrashes = 1
  Faults = {"save", "tools", "location", "unreadable", "login", "foreign"}
SYMMETRY MCSymmetry
INVARIANTS RegistryIsTrue
PROPERTIES ForeignSpared ReportsAreTrue
