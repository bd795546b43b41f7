SPECIFICATION FairSpec
CONSTANTS
    Node = {r, a, b}
    Root = r
    MaxLost = 1
    MaxCrash = 1
CHECK_DEADLOCK FALSE
INVARIANTS CommitNeedsQuorum FinishNeedsQuorum
PROPERTY ReplicasCommit
