SPECIFICATION FairSpec
CONSTANTS
  r = r
  a = a
  b = b
  c = c
  d = d
  e = e
  Node <- Node6
  Root = r
  Parent <- Parent6
  Subtree <- Subtree6
  MayRefuse <- Node6
  MayFail <- InnerAndLeaf
  Nil = Nil
  BlockSize = 2
  TxFiles <- Files
CHECK_DEADLOCK FALSE
INVARIANTS
  BlockSignatureComplete
  AnswersAfterSubtree
PROPERTIES
  RoundEnds
