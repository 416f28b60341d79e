SPECIFICATION FairSpec
CONSTANTS
    MaxTurns = 3
    MaxErrors = 2
INVARIANTS
    TypeOK LedgerInOrder ChatOnce OneHandover
    NothingOpenAfterwards
PROPERTY
    AnswersAreRecorded
CHECK_DEADLOCK FALSE
