SPECIFICATION FairSpec
CONSTANTS
  Requests <- MCRequests
  MaxRequests = 2
  MaxLag = 1
  MaxStall = 1
  MaxElapsed = 6
  Faults <- NoFaults
INVARIANTS
  NoFalseError
PROPERTIES
  ImplementsBoundedDrive
  RequestEnds
CHECK_DEADLOCK TRUE
