SPECIFICATION ServicesSpec
CONSTANTS
  Topics = {t1, t2}
  NoTopic = NoTopic
  MaxChanges = 3
  MaxRetries = 1
  MaxDrops = 2
  Calls = {c1}
  MaxTurns = 2
  MaxBlocks = 1
  MaxChunks = 1
  MaxEvents = 5
  MaxWire = 2
  MaxLapses = 1
  MaxAttempts = 2
  MaxReconnects = 1
  MaxEpochs = 3
  MaxInputs = 2
  MaxWay = 6
  MaxWindowMoves = 5
  Recordings = {g1, g2}
  NoRecording = NoRecording
  Requests = {q1, q2}
  Bots = {b1, b2}
  Fallback = b1
  Files = {f1}
  MaxWords = 2
  MaxTokens = 1
  MaxCalls = 2
  MaxMoves = 4
  Mcps = {m1}
  Accounts = {a1}
  Revisions = {r1, r2}
  Leases = {l1, l2}
  MaxEntries = 2
  MaxEdits = 3
  Views = {v1}
  MaxEpoch = 2
  AvatarRequests = {u1, u2}
  MaxDeletions = 2
  Talks = {h1, h2}
  MaxRows = 2
  MaxReads = 2
  MaxVisits = 1
  Launches = {n1, n2, n3}
  Commits = {k1, k2}
INVARIANTS
  NothingMissed
  TranscriptSettles
  WebControlAgrees
  ShowsTheTruth
  DraftsAreKept
  PluginsAreSound
  InputIsFenced
  AvatarsAgree
  AttentionIsHonest
  OneDaemon
PROPERTIES
  PageCatchesUp
  RowsAreFinal
  EndedByItsOwn
  CancelWins
  NothingOutlivesTheScreen
CHECK_DEADLOCK FALSE
