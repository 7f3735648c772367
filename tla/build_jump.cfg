SPECIFICATION MachineSpec
CONSTANTS
  Lease = 4
  MaxAge = 1
  FullRest = 3
  ApproachTotal = 2
  Normals = {1}
  Settles = {2}
  SettleCap = 2
  FeedbackGap = 2
  StartWait = 2
  OffTime = 1
  NoResponse = 2
PROPERTY
  NextPulseIsAdmitted
