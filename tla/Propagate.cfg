SPECIFICATION FairSpec
CONSTANTS
  r = r
  a = a
  b = b
  c = c
  d = d
  e = e
  Node <- Node6
  Root <- r
  Parent <- Parent6
  Subtree <- Subtree6
  MayCrash <- Node6
  MayTimeout = {r}
  MayReject <- Node6
CHECK_DEADLOCK FALSE
INVARIANTS
  CountedOnce
  ReturnsWhenAllHandled
PROPERTIES
  Completes
