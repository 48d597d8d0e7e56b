SPECIFICATION Spec
CONSTANTS
  NbDocs = 2
  NbSteps = 2
  CanFail = {"generator"}
PROPERTIES
  OnlyResultsAreTransferred
CHECK_DEADLOCK FALSE
