SPECIFICATION ScreensSpec
CONSTANTS
  Surfaces = {s1, s2}
  Capacity = 1
  MaxGen = 3
  MaxQueue = 1
  MaxStarts = 1
  MaxStopErrors = 1
  Deletes = TRUE
INVARIANTS
  RuntimesAreCounted
  RecoveredIsReal
PROPERTIES
  EveryStartSettles
CHECK_DEADLOCK FALSE
