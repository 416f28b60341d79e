SPECIFICATION FairSpec
CONSTANTS
    MaxTurns = 2
    MaxErrors = 1
PROPERTY
    HandoverFinishes
CHECK_DEADLOCK FALSE
