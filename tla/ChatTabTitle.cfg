SPECIFICATION FairSpec
CONSTANTS
  MaxConvs = 2
  Olds = 1
  MaxStreams = 2
  MaxSwitches = 2
CHECK_DEADLOCK FALSE
INVARIANT OwnTitle
