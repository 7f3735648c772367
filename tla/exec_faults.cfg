SPECIFICATION HaltSpec
CONSTANTS
  Requests <- MCRequests
  MaxRequests = 2
  MaxLag = 1
  MaxStall = 6
  MaxElapsed = 6
  Faults <- AllFaults
INVARIANTS
  DriveIsTimed
  DriveEndsOnTime
  PendingIsQuiet
  FaultIsQuiet
  HonestCompletion
  CompletionOwed
PROPERTIES
  InterruptEndsDrive
CHECK_DEADLOCK TRUE
