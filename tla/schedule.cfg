SPECIFICATION FairSpec
CONSTANTS
    MaxRetry = 2
    MaxLive = 2
INVARIANTS NoOrphan ShutdownFinal
PROPERTY RetriesUntilSuccess
CHECK_DEADLOCK FALSE
