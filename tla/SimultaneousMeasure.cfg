SPECIFICATION FairSpec
CONSTANTS
  NbDocs = 3
  NbSteps = 2
  CanFail = {"sensor", "done", "thread", "display", "measure", "throw", "escape", "lux"}
INVARIANTS
  MeasuresWhatIsShown
  NoLostWakeUp
PROPERTIES
  Implements
  Returns
CHECK_DEADLOCK FALSE
