SPECIFICATION Spec
CONSTANTS
  Codes <- MCLaterCodes
  Models <- MCModels
  Failing <- MCFailing
  OnBase = {"b1"}
  Pinned = "m1"
  MaxRequest = 1
  MaxEdit = 1
CHECK_DEADLOCK FALSE
INVARIANTS PinnedModelIsFulfilled
