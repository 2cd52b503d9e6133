SPECIFICATION FairSpec
CONSTANTS
  Failures <- GivenFailures
  Seconds <- MCSeconds
  Limit = 3
  Budget = 120
  MaxQuery = 2
  MaxCall = 2
  MaxLength = 4
  Callers = {"c1", "c2"}
  MaxClient = 2
  MaxOffer = 2
  MaxRestart = 1
  Shells = {"s1", "s2"}
  MaxToken = 2
  MaxCrash = 1
CHECK_DEADLOCK FALSE
INVARIANTS HandBackIsSafe ConnectionsAreSafe
PROPERTIES RepliesAreSafe AccountIsSafe WaitsEnd
