\* Two saves that overlap, up to two in all, two lookups and two requests, ages
\* of two ticks; two threads of one process and one of another; two knowledge
\* bases, two documents, one upload and one poll at a time, two watches; two
\* words, three previews; two answers over two days, two loads of the figures.  No
\* part has a last state of its own: the bounds end it.
SPECIFICATION Spec
CONSTANTS
  c1 = c1
  c2 = c2
  c3 = c3
  Admin = {a1, a2}
  Provider = {p1, p2}
  Key = {k1}
  Lookup = {l1, l2}
  WebLookup = {l1, l2}
  Visit = {v1, v2}
  NoKey = NoKey
  Used = p1
  KeyTtl = 2
  ListTtl = 2
  MaxSaves = 2
  Caller = {c1, c2, c3}
  Process = {"web", "worker"}
  ProcessOf <- Processes
  MaxAttempts = 2
  MaxBatches = 2
  OkInterval = 2
  Kb = {kb1, kb2}
  NoKb = NoKb
  Doc <- Docs12
  Upload = {u1}
  MaxWatches = 2
  MaxPolls = 1
  f1 = f1
  f2 = f2
  f3 = f3
  Pick = {f1, f2, f3}
  KindOf <- Kinds
  MaxFiles = 2
  MaxSends = 2
  MaxTyped = 4
  Turn = {1, 2}
  Source = {k1}
  Nowhere = Nowhere
  PageSize = 1
  MaxClock = 4
  MaxVisits = 3
  d1 = d1
  d2 = d2
  b1 = b1
  b2 = b2
  g1 = g1
  m1 = m1
  Word = {w1, w2}
  NoWord = NoWord
  MaxHits = 2
  MaxWords = 4
  Paper = {d1, d2}
  NoPaper = NoPaper
  PaperKind <- PaperKinds
  Length <- Lengths
  MaxShows = 3
  Asker = {b1, b2}
  Model = {m1, m2}
  NoDept = NoDept
  DeptOf <- Depts
  Library = {g1, g2}
  NoLibrary = NoLibrary
  PerDay = 2
  Span = {1, 2}
  Default = 2
  MaxNow = 3
  MaxAnswers = 2
  MaxRows = 1
  LongFrom = 2
  MaxLoads = 2
CHECK_DEADLOCK FALSE
INVARIANT KeysSurvive
INVARIANT Told
INVARIANT AttachmentsArrive
INVARIANT FavouritesSound
INVARIANT OverlaysOwn
INVARIANT ReportsTrue
PROPERTY CachesFresh
PROPERTY WarningEnds
PROPERTY ConfigOwn
