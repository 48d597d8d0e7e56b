SPECIFICATION Spec
CONSTANTS
  A = A
  B = B
  Docs = {A, B}
  NoDoc = NoDoc
  MaxSessions = 2
  MaxMeasures = 1
  MaxStarting = 2
  GdiDocs = {B}
  BlankDocs = {B}
  Views <- MCViews
PROPERTIES
  StopsOtherDocument
CHECK_DEADLOCK FALSE
