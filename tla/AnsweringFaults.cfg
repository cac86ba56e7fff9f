SPECIFICATION FairSpec
CONSTANTS
  d1 = d1
  k1 = k1
  Calls = {q1, q2}
  Convs = {c1, c2}
  NoConv = NoConv
  Existing = {c1}
  Quota = 1
  ConvLimit = 1
  FailAt <- AllPoints
  Straddle = FALSE
  LastMonth = 1
  Kbs = {k1, k2}
  Docs = {d1}
  KbOf <- InOne
  Scope <- AskAll
  NoEntry = NoEntry
  Overtaken = FALSE
  Limit <- OneOfEach
  MaxEvents = 1
CHECK_DEADLOCK FALSE
INVARIANT LeaveStops
INVARIANT BillsMatch
INVARIANT RemovedForgotten
PROPERTY SettledOnce
PROPERTY StreamingEnds
