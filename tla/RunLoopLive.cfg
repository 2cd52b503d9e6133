CONSTANTS
  MaxRun = 1
  MaxInput = 1
  Jobs = {j1}
  ContinuationLimit = 1
  Registered = TRUE
SPECIFICATION FairSpec
CHECK_DEADLOCK FALSE
PROPERTY StopEndsTheRun
