SPECIFICATION RecoverySpec
CONSTANTS
  p1 = p1
  p2 = p2
  Procs = {p1}
  Bundles <- MCBundles
  Service <- MCSeparate
  TeardownReads = 1
  MaxCrashes = 2
  Faults = {}
PROPERTY RecoveryCompletes
