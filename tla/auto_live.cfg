SPECIFICATION FairSpec
CONSTANTS
  Freshness = 1
  SettleDelay = 1
  FeedbackTime = 2
  CycleTime = 2
  Duration = 1
  Backstop = 2
  MaxLag = 1
  Cap = 5
  Levels = {"free", "far-low", "inside"}
  Failures = FALSE
PROPERTIES
  CycleEnds
  MotionEnds
