SPECIFICATION GatesSpec
CONSTANTS
  Shelf = {k1}
  Question = {}
  Quota = 1
  MaxRegrants = 2
CHECK_DEADLOCK FALSE
INVARIANT SaveAccepted
