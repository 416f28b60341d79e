CONSTANTS
    u1 = u1
    u2 = u2
    Utterances <- MCUtterances
    Chunks <- MCChunks
    ReplyLen <- MCReplyLen
    MaxSeq = 2
    SynthSlots = 2
    MaxEvents = 40
    None = None
    Typed = {u1, u2}
    Said = {}
    CountSent = TRUE
    MayTap = TRUE
SPECIFICATION FairTalk
INVARIANTS
    AnswersItsOwnTurn
    EveryChunkAccounted
    CutRecordIsHeard
PROPERTIES
    EveryTurnCompletes
CHECK_DEADLOCK FALSE
