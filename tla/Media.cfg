SPECIFICATION MediaSpec
CONSTANTS
  Viewers = {v1, v2}
  MaxWayvnc = 2
  Surfaces = {s1, s2}
  Capacity = 2
  MaxGeneration = 3
  MaxComputers = 2
  MaxRestarts = 1
  UnitsEnabled = TRUE
INVARIANTS
  ViewsAreShared
  ReplaceableDaemon
PROPERTIES
  EverySessionEnds
  SiblingsKeepTheirComputer
  EveryStartEnds
CHECK_DEADLOCK FALSE
