SPECIFICATION FairSpec
CONSTANTS
  Docs = {d1, d2}
  NoDoc = NoDoc
INVARIANTS
  SafetyInv
  AnnouncedIsCalibrated
PROPERTIES
  ReadWithOwnSettings
  MeasureEnds
CHECK_DEADLOCK FALSE
