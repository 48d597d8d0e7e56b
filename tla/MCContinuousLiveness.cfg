SPECIFICATION FairSpec
CONSTANTS
  A = A
  B = B
  Docs = {A, B}
  NoDoc = NoDoc
  MaxSessions = 2
  MaxMeasures = 1
  MaxStarting = 2
  GdiDocs = {B}
  BlankDocs = {B}
  Views <- MCViews
CONSTRAINT ErrorsOfB
PROPERTIES
  
  ListIsEmptied
CHECK_DEADLOCK FALSE
