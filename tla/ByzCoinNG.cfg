SPECIFICATION FairSpec
CONSTANTS
  r = r
  a = a
  Node <- Node2
  Root = r
  Parent <- Parent2
  Subtree <- Subtree2
  t1 = t1
  t2 = t2
  c = c
  Thread <- Threads
  Client <- Clients
  Load <- Loads
  Rounds = 3
CHECK_DEADLOCK FALSE
INVARIANTS
  OneSender
  OneVerifier
  ReplySigned
PROPERTIES
  EpochsEnd
