SPECIFICATION Spec
CONSTANTS
  Top = Top
  Kid = Kid
  Replies <- MCReplies
  Kind <- MCKind
  MaxRun = 2
  MaxCrash = 2
CHECK_DEADLOCK FALSE
INVARIANTS TypeOK ReadsBack RanCallsAreKnown OneOutcome SavedAnswersSurvive
PROPERTIES RestsComplete
