CONSTANTS
    Utterances = {u1}
    Chunks = {c1}
    MaxSeq = 3
    SynthSlots = 2
    MaxEvents = 4
    None = None
SPECIFICATION Spec
INVARIANTS
    StaleAudioNeverOut
    OrderedEmission
    NoTurnCompletesTwice
CHECK_DEADLOCK FALSE
