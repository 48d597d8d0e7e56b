SPECIFICATION FairSpec
CONSTANTS
  A = A
  B = B
  Docs = {B}
  NoDoc = NoDoc
  MaxSessions = 2
  MaxMeasures = 1
  MaxStarting = 1
  GdiDocs = {B}
  BlankDocs = {B}
  Views <- MCViews1
PROPERTIES
  ThreadEnds
CHECK_DEADLOCK FALSE
