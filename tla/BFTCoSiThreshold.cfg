SPECIFICATION Spec
CONSTANTS
  r = r
  a = a
  b = b
  c = c
  d = d
  e = e
  Node <- Node4
  Root <- r
  Parent <- Parent4
  Subtree <- Subtree4
  MayClose = {}
CHECK_DEADLOCK FALSE
INVARIANT SignedByThreshold
