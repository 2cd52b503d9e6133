SPECIFICATION Spec
CONSTANTS
  Codes <- MCLaterCodes
  Models <- MCModels
  Failing <- MCFailing
  OnBase = {"b1"}
  Pinned = "none"
  MaxRequest = 2
  MaxEdit = 1
CHECK_DEADLOCK FALSE
INVARIANTS TypeOK PassesAreOfTheReceiptsContent
PROPERTIES FailuresWereTold ChangesAreReceipted
