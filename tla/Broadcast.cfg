SPECIFICATION FairSpec
CONSTANTS
  N = 5
  MayFail = TRUE
CHECK_DEADLOCK FALSE
INVARIANTS
  ConnectedWhenDone
  QuietWhenDone
PROPERTIES
  Confirmed
