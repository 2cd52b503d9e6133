CONSTANTS
  MaxRun = 2
  MaxInput = 2
  Jobs = {j1}
  ContinuationLimit = 1
  Registered = TRUE
SPECIFICATION Spec
CHECK_DEADLOCK FALSE
INVARIANTS TypeOK RunInv CompletedSawEverything NoFailureIsLost
PROPERTIES InputAndConversationAreOrdered KeepsPromise
