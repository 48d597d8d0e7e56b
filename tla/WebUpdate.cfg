CONSTANTS
  MaxCalls = 3
  Rounds = 2
SPECIFICATION FairSpec
INVARIANTS
  SafetyInv
PROPERTIES
  CheckReturns
CHECK_DEADLOCK FALSE
