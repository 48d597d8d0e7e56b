SPECIFICATION FairSpec
CONSTANTS
  Grays = 3
  Colors = 2
  Levels = 2
  Patches = 3
  Lead = 2
  SatColors = 2
  RetryByPattern = 1
  RetryBySeries = 2
  Checked = {"IRE", "PRIMARY", "SECONDARY", "SAT"}
  MaxRetries = 1
INVARIANTS
  DevicesReleased
  MeasuredOnItsPattern
  BackInMenu
  SafetyInv
PROPERTIES
  SeriesEnds
  SeriesGoesOn
