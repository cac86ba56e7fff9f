SPECIFICATION Spec
CONSTANTS
  c1 = c1
  c2 = c2
  c3 = c3
  Channels = {c1, c2, c3}
  Dim <- Dims
  Docs = {d1, d2}
  Workers = {w1, w2}
  Requests = {q1, q2}
  NoDoc = NoDoc
  NullVec = NullVec
  NoChunks = NoChunks
  MaxRetries = 0
  Batch = 1
  MayStall = TRUE
  CrashAt <- AllPoints
  MaxCopies = 1
  Limit <- AllFaults
  MaxFaults = 1
SYMMETRY Symmetry
CHECK_DEADLOCK FALSE
INVARIANT Accounting
INVARIANT StruckOffMigrated
