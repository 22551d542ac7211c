SPECIFICATION Spec
CONSTANTS
    c1 = c1
    c2 = c2
    Callers <- MCCallers
    Day = 2
    Settings <- MCSettings
    Hour = 1
    MaxTime = 2
INVARIANTS NextWindow RestartKeeps
PROPERTY ShownInWindow
SYMMETRY Symmetry
