SPECIFICATION Spec
CHECK_DEADLOCK FALSE
CONSTANTS
  Callers = {"c1", "c2", "c3"}
  None = "none"
  Kinds <- MCKinds
  Access <- MCAccess
  Floor = {"never"}
  Rule <- MCRule
  Slow = {"shell"}
  Repeat = "repeat"
  Modes = {"ask", "full"}
  Present = TRUE
  Size <- MCSize
  Responder = TRUE
  MaxAsks = 3
  MaxReplies = 5
  Referenced = FALSE
  Checked = TRUE
  Keep = 2
  MaxRun = 2
  MaxReply = 2
  MaxAmend = 1
  MaxCompaction = 2
  MaxCrash = 1
PROPERTIES AfterTheFloorEveryChangeIsAsked
