SPECIFICATION FairSpec
CONSTANTS
    None = None
    Turns = {t1, t2}
    Keys = {k1, k2}
    Kinds = {"text", "upload"}
    MaxShown = 2
    MaxTiers = 2
    MaxLives = 2
INVARIANTS
    OneAnswerPerKey SavedOnce DoneIsSaved
PROPERTIES
    StopHolds TurnsEnd
CHECK_DEADLOCK FALSE
