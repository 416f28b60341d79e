SPECIFICATION FairSpec
CONSTANTS
    None = None
    NFragments = 3
    NQuestions = 6
    NFrames = 2
    MayOutlast = TRUE
INVARIANTS
    PendingTextHasTimer FramesInOrder GuessShownOnlyIfHeard
PROPERTY
    EveryFragmentAnswered
CHECK_DEADLOCK FALSE
