SPECIFICATION FairSpec
CONSTANTS
    None = None
    Jobs = {j1, j2}
    Priorities = {0, 1}
    Workers = {w1, w2}
    MaxRetries = 1
    MayClose = TRUE
INVARIANTS
    InOneHand
PROPERTIES
    Implements JobsFinish
CHECK_DEADLOCK FALSE
