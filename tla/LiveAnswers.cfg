SPECIFICATION FairSpec
CONSTANTS
    None = None
    Tasks = {t1,t2,t3}
    Qids = {q1, q2, q3}
    Texts = {x1}
    Cap = 2
    MaxRetries = 1
    MaxConns = 2
    MayBeDown = TRUE
INVARIANTS
    TypeOK SlotsCoverAnswers OneAnswerInWindow RegistryIsLive
PROPERTIES
    BubblesEnd Implements
CHECK_DEADLOCK FALSE
