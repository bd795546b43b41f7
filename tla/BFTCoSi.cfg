SPECIFICATION FairSpec
CONSTANTS
  r = r
  a = a
  b = b
  c = c
  d = d
  e = e
  Node <- Node6
  Root <- r
  Parent <- Parent6
  Subtree <- Subtree6
  MayClose = {r, a, e}
CHECK_DEADLOCK FALSE
INVARIANTS
  RoundsNeverMix
  SignatureComplete
  RefusalAgreement
PROPERTIES
  KeepsPromise
  Termination
