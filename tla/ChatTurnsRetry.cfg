SPECIFICATION Spec
CONSTANTS
    None = None
    Turns = {t1, t2}
    Keys = {k1}
    Kinds = {"text"}
    MaxShown = 1
    MaxTiers = 1
    MaxLives = 1
INVARIANT
    FailedKeyIsFree
CHECK_DEADLOCK FALSE
