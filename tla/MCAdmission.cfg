CONSTANTS
  Client = {c1, c2}
  AcquisitionAttempts = 1
  MaxHosts = 2
  Faults <- ContentionFaults
SPECIFICATION FairSpec
PROPERTIES ImplementsService ClientsFinish ReservationEnds
CHECK_DEADLOCK FALSE
