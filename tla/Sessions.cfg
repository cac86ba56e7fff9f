SPECIFICATION Spec
CONSTANTS
  Tab = {t1, t2}
  Request = {r1, r2}
  Password = {p1, p2}
  Legacy = FALSE
  MaxOpen = 2
  MaxPairs = 3
  MaxEvents = 1
SYMMETRY Interchangeable
CHECK_DEADLOCK FALSE
INVARIANT TokenHonest
INVARIANT WaitersServed
PROPERTY KickedForCause
