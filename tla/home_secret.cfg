SPECIFICATION FairSpec
CONSTANTS
    Primary = p
    Devices = {p, s}
    Others = {}
    MaxSecret = 2
    MaxClient = 2
INVARIANT RekeyReachesAll
PROPERTY PrimaryHeals
