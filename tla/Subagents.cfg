SPECIFICATION FairSpec
CONSTANTS
  Top = Top
  MaxDepth = 2
  Kids = {k1, k2, k3}
  Limit = 2
CHECK_DEADLOCK FALSE
INVARIANTS TypeOK TreeIsConsistent
PROPERTIES SettlesAfterItsChildren TreeEnds
