SPECIFICATION FairSpec
CONSTANTS
    Drain = 2
    MaxOps = 2
    MaxPush = 1
    MaxBox = 2
    None = None
INVARIANTS FlowFresh StrictReal
PROPERTY KeepsPromise
CHECK_DEADLOCK FALSE
