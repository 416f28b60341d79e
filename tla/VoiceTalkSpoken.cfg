CONSTANTS
    u1 = u1
    u2 = u2
    Utterances <- MCUtterances
    Chunks <- MCChunks
    ReplyLen <- MCReplyLen
    MaxSeq = 2
    SynthSlots = 2
    MaxEvents = 40
    None = None
    Typed = {u1}
    Said = {u2}
    CountSent = FALSE
    MayTap = FALSE
SPECIFICATION FairTalk
PROPERTIES
    SynthesisEnds
CHECK_DEADLOCK FALSE
