SPECIFICATION HandsSpec
CONSTANTS
  Nobody = Nobody
  Sessions = {s1, s2}
  MaxCalls = 1
  MaxClaims = 2
  MaxInputs = 1
  Surfaces = {t1, t2}
  NoSurface = NoSurface
  MaxQueued = 2
  MaxFailures = 1
INVARIANTS
  ControlIsShown
  SeatIsOwned
PROPERTIES
  HandsOff
  CancelledCallsEnd
  SeatIsReached
CHECK_DEADLOCK FALSE
