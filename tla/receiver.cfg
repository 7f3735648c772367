SPECIFICATION Spec
CONSTANTS
  Values = {1, 2}
  MaxFrames = 2
  MaxFaults = 2
  TickRange = 3
  MaxPass = 1
INVARIANTS
  SampleIsTrue
PROPERTIES
  CleanFrameArrives
CHECK_DEADLOCK TRUE
