SPECIFICATION FairSpec
CONSTANTS
  r = r
  a = a
  b = b
  c = c
  Node <- Node4
  Root = r
  Parent <- Parent4
  Subtree <- Subtree4
  Rank <- Rank4
  NbNode = 1
  MaxRound = 2
CHECK_DEADLOCK FALSE
INVARIANTS
  OneElected
  DoneBottomUp
PROPERTIES
  FoundThenFinished
