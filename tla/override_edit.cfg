SPECIFICATION Spec
CONSTANTS
    Editors = {e1, e2}
    s1 = s1
    s2 = s2
    a = a
    Slots = {s1, s2}
    Values = {a}
    None = None
    Fields = {"high", "low"}
    Marks <- MCMarks
    Default <- MCDefault
    Refused <- MCRefused
    Initial <- MCInitial
    Noise <- MCNoise
    Edits <- MCEdits
    MaxTries = 2
    MaxReads = 2
INVARIANT ResetConfirmed
PROPERTIES PublishedEchoed LostSlotsNeedOverlap RangeNeverWipes
CHECK_DEADLOCK FALSE
SYMMETRY Symmetry
