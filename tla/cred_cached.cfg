SPECIFICATION FairSpec
CONSTANTS
    Threads = {t1, t2}
    Direct = {}
    Devices = {d1}
    Secondary = {}
    Holder = TRUE
    DeviceTTL = 2
    HomeTTL = 1
    RotationInterval = 2
    EscalationWindow = 1
    EscalationThreshold = 1
    MaxClock = 3
    Free = Free
INVARIANT EscalationNeedsLongWait
PROPERTY LockReleased
