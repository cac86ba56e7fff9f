SPECIFICATION FairSpec
CONSTANTS
  c1 = c1
  c2 = c2
  c3 = c3
  Channels = {c1, c2}
  Dim <- Dims
  Docs = {d1, d2}
  Workers = {w1, w2}
  Requests = {q1}
  NoDoc = NoDoc
  NullVec = NullVec
  NoChunks = NoChunks
  MaxRetries = 1
  Batch = 1
  MayStall = FALSE
  CrashAt <- BeforeOrAfterClaim
  MaxCopies = 1
  Limit <- PromptService
  MaxFaults = 2
CHECK_DEADLOCK FALSE
INVARIANT MigratedOnce
PROPERTY RunEnds
PROPERTY ImplementsMigration
