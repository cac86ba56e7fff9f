SPECIFICATION FairSpec
CONSTANTS
  p1 = p1
  p2 = p2
  Plans = {p1, p2}
  Length <- OneOrTwo
  Slots <- ThreeSlots
  Docs = {d1, d2}
  Illustrated = {d1}
  Workers = {w1, w2}
  NoDoc = NoDoc
  NoPlan = NoPlan
  Empty = Empty
  Linked = Linked
  Unlinked = Unlinked
  MaxRetries = 1
  Batch = 1
  Overlap = FALSE
  CrashAt <- AllPoints
  MaxCopies = 1
  Limit <- OneOfEach
  MaxEvents = 1
CHECK_DEADLOCK FALSE
INVARIANT LibrarySound
PROPERTY NoLimbo
