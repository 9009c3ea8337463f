SPECIFICATION HandsSpec
CONSTANTS
  Nobody = Nobody
  Sessions = {s1, s2}
  MaxCalls = 1
  MaxClaims = 2
  MaxInputs = 1
  Surfaces = {t1, t2}
  NoSurface = NoSurface
  MaxQueued = 2
  MaxFailures = 1
INVARIANT ActionsAreAtomic
CHECK_DEADLOCK FALSE
