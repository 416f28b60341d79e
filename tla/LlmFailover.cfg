SPECIFICATION FairSpec
CONSTANTS
    None = None
    m1 = m1
    Turns = {t1, t2}
    Models = {m1, m2}
    Keys = {k1}
    MaxAttempts = 2
    NoRouteRetries = 1
    Continuing = {t1}
    MaxCont = 1
    Limited <- MCLimited
    Limit = 1
    Threshold = 1
INVARIANTS
    NoRouteTwice WindowOverrun
PROPERTIES
    TurnsEnd Implements
CHECK_DEADLOCK FALSE
