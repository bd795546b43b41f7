SPECIFICATION FairSpec
CONSTANTS
  r = r
  a = a
  b = b
  c = c
  d = d
  Node <- Node5
  Root = r
  Parent <- Parent5
  Subtree <- Subtree5
  MayRefuse <- NotRoot
  FailModes = {TRUE, FALSE}
  Nil = Nil
  BlockSize = 2
  TxFiles <- Files
CHECK_DEADLOCK FALSE
INVARIANTS
  SignatureVerifies
  CommitRoundReady
PROPERTIES
  ChallengedOnce
  Ends
