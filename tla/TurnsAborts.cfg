SPECIFICATION FairSpec
CONSTANTS
  a1 = a1
  h1 = h1
  h2 = h2
  Agents = {a1}
  Threads = {h1, h2}
  AgentOf <- OneAgent
  MaxTurns = 1
  MaxWorkers = 3
  MaxStarts = 1
  Kinds = {"user", "peer"}
  MaxAborts = 1
  Rechecks = TRUE
INVARIANTS
  WorkersAreHeld
  HonestOutcome
PROPERTIES
  TerminalOnce
  EveryTurnEnds
CHECK_DEADLOCK FALSE
