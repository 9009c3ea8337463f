SPECIFICATION ComposerSpec
CONSTANTS
  Bots = {b1, b2}
  Fallback = b1
  Files = {f1}
  MaxWords = 2
  MaxTokens = 1
  MaxCalls = 2
  MaxMoves = 5
INVARIANT EscapeCancels
CHECK_DEADLOCK FALSE
