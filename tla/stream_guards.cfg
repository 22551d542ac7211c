SPECIFICATION FairSpec
CONSTANTS
    Sessions = {s1}
    SubscribeInterval = 2
    SubscribeGap = 1
    LongStall = 2
    GateWindow = 1
    BackoffBase = 1
    BackoffMax = 3
    Quota = 2
    Horizon = 3
INVARIANTS QuotaHolds ColdStartUnpunished
PROPERTIES SubscribeSpaced BackoffHolds PendingReconnectRuns SilenceIsActedOn
