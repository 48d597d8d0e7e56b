SPECIFICATION Spec
CONSTANTS
  NbDocs = 3
  NbSteps = 2
  CanFail = {"sensor", "run", "done", "thread", "generator", "display", "measure", "throw", "escape", "lux"}
INVARIANTS
  NothingLeft
  SafetyInv
PROPERTIES
  CommandGoesOn
CHECK_DEADLOCK FALSE
