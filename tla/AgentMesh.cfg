\* A turn of the mesh, every subset of its agents enabled, agents that hang.
SPECIFICATION FairSpec
CONSTANT Budget = 2
INVARIANTS RealTimeIsAwaited
PROPERTIES EarlyDoneIsComplete NothingStartsAfter MeshEnds
CHECK_DEADLOCK FALSE
