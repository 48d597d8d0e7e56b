SPECIFICATION Spec
CONSTANTS
  A = A
  B = B
  Docs = {A, B}
  NoDoc = NoDoc
  MaxSessions = 2
  MaxMeasures = 2
  MaxStarting = 2
  GdiDocs = {B}
  BlankDocs = {B}
  Views <- MCViews
CONSTRAINT Explored
INVARIANTS
  SensorIsInitializedUnlessRaced
  OneThread
  NeverCrashes
  DevicesGivenBack
  MeasuresGoHome
  DeliveredInOrder
  Announced
  RunningDocIsOpen
  Inv
PROPERTIES
  SeriesStartsAlone
  StopGetsNearer
CHECK_DEADLOCK FALSE
