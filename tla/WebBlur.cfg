SPECIFICATION WebSpec
CONSTANTS
  MaxAttempts = 3
  MaxReconnects = 1
  MaxEpochs = 3
  MaxInputs = 2
  MaxWay = 6
  MaxWindowMoves = 6
INVARIANT BlurLetsGo
CHECK_DEADLOCK FALSE
