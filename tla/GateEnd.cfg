SPECIFICATION FairSpec
CONSTANTS
  Codes <- MCCodes
  Models <- MCOneModel
  Failing <- MCFailing
  OnBase = {}
  Pinned = "none"
  MaxRequest = 1
  MaxEdit = 0
CHECK_DEADLOCK FALSE
INVARIANTS NoFailureGoesBackTwice
PROPERTIES RequestsSettle
