SPECIFICATION Spec
CONSTANTS
  Surfaces = {s1, s2}
  Capacity = 1
  MaxGen = 2
  MaxQueue = 1
  MaxStarts = 0
  MaxStopErrors = 0
  Deletes = TRUE
INVARIANTS
  DeletedHasNoScreen
CHECK_DEADLOCK FALSE
