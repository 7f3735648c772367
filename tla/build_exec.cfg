SPECIFICATION Spec
CONSTANTS
  Lease = 6
  MaxAge = 1
  FullRest = 4
  ApproachTotal = 8
  Normals = {1, 2}
  Settles = {2, 4}
  SettleCap = 4
INVARIANTS
  DriveIsOwned
  SegmentEndsOnTime
  LeaseHolds
  ApproachBudget
PROPERTIES
  FeedbackLossEndsDrive
