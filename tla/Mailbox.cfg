SPECIFICATION FairSpec
CONSTANTS
  b1 = b1
  b2 = b2
  a1 = a1
  c1 = c1
  c2 = c2
  None = None
  Bots = {b1, b2}
  Agents = {a1}
  AgentOf <- SharedAgent
  Calls = {c1, c2}
  SourceOf <- CallsOfBoth
  MaxMail = 2
  MaxDispatches = 1
  MaxStarts = 1
  Outcomes = {"completed", "cancelled", "failed"}
  Deletable = {b1, b2}
INVARIANTS
  MailIsKept
  ClaimedOnce
  RowsTellTruth
  PoolAccounting
PROPERTIES
  TerminalOnceInService
  QueuedMailSettles
