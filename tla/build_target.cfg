SPECIFICATION MachineSpec
CONSTANTS
  Lease = 5
  MaxAge = 2
  FullRest = 3
  ApproachTotal = 2
  Normals = {1}
  Settles = {1}
  SettleCap = 3
  FeedbackGap = 2
  StartWait = 2
  OffTime = 1
  NoResponse = 2
INVARIANTS
  MachineTypeOK
  DriveIsGranted
PROPERTIES
  PulseNeedsEvidence
  NoPulseUnanswered
