SPECIFICATION FairMachineSpec
CONSTANTS
  Lease = 4
  MaxAge = 1
  FullRest = 2
  ApproachTotal = 2
  Normals = {1}
  Settles = {1}
  SettleCap = 2
  FeedbackGap = 2
  StartWait = 1
  OffTime = 0
  NoResponse = 2
PROPERTIES
  UnansweredPressEnds
  SilenceEndsSession
