SPECIFICATION Spec
CONSTANTS
  Freshness = 2
  SettleDelay = 2
  FeedbackTime = 2
  CycleTime = 3
  Duration = 1
  Backstop = 2
  MaxLag = 1
  Cap = 7
  Levels = {"free", "far-low", "inside", "high", "raw", "invalid"}
  Failures = TRUE
INVARIANTS
  TypeOK
  MotionOwned
  FreshPressure
  BudgetHolds
PROPERTIES
  SettledDecision
  BadEndFaults
