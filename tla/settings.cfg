SPECIFICATION SettingsSpec
CONSTANTS
    Callers = {c1, c2}
    Order <- MCOrder
    Framed = {"pv"}
    Amounts = {0, 1}
    Calls <- MCCalls
    Initial <- MCInitial
    Strays <- MCStrays
    MaxPolls = 2
INVARIANT ConfirmedHolds
PROPERTIES KnownStaysKnown TargetLostOnlyLate
