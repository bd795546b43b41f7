SPECIFICATION FairSpec
CONSTANTS
    Sizes = {2, 3, 4}
    MaxUp = 3
CHECK_DEADLOCK FALSE
INVARIANT EndNeedsPrepares
PROPERTY SomeoneCommits
