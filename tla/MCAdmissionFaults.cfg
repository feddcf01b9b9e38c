CONSTANTS
  Client = {c1}
  AcquisitionAttempts = 2
  MaxHosts = 3
  Faults <- SessionFaults
SPECIFICATION Spec
INVARIANTS CapturesAdmitted
CHECK_DEADLOCK FALSE
