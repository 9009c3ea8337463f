SPECIFICATION Spec
CONSTANTS
  a1 = a1
  h1 = h1
  h2 = h2
  Agents = {a1}
  Threads = {h1, h2}
  AgentOf <- OneAgent
  MaxTurns = 2
  MaxWorkers = 2
  MaxStarts = 0
  Kinds = {"user", "peer"}
  MaxAborts = 0
  Rechecks = FALSE
SYMMETRY ThreadsAlike
INVARIANTS
  TurnsAreHeld
PROPERTIES
  RefinesLifecycle
CHECK_DEADLOCK FALSE
