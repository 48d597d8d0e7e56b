CONSTANTS
  Clients = {c1, c2}
  Scripts <- MCScripts
  MaxRequests = 2
  Nobody = Nobody
SPECIFICATION FairSpec
INVARIANTS
  SafetyInv
  AnsweredOnce
  OwnPatternUnlessNested
PROPERTIES
  HandlersReturn
  HandlersGoOn
CHECK_DEADLOCK FALSE
