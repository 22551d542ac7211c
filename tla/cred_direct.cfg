SPECIFICATION Spec
CONSTANTS
    Threads = {t1, t2, t3}
    Direct = {t3}
    Devices = {d1}
    Secondary = {}
    Holder = FALSE
    DeviceTTL = 1
    HomeTTL = 2
    RotationInterval = 1
    EscalationWindow = 1
    EscalationThreshold = 1
    MaxClock = 3
    Free = Free
INVARIANTS CacheFollowsServer CycleNeedsDirect
PROPERTIES HomeRotationSpaced EscalationSpaced
CHECK_DEADLOCK FALSE
SYMMETRY Symmetry
