SPECIFICATION FairSpec
CONSTANTS
    MaxEmpty = 2
    Ladder <- MCLadder
    LegacyResets = 2
    MaxDeferrals = 1
    PollResets = 2
    Undecryptable = 2
    MaxHistory = 5
INVARIANT FailureSurfacesInStream
PROPERTIES FallbackEarned ResetsSpaced SilenceEscalates
