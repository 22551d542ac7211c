SPECIFICATION Spec
CONSTANTS
    e1 = e1
    e2 = e2
    d1 = d1
    d2 = d2
    NoId = NoId
    Entries <- MCEntries
    Passwords = 2
    MaxChanges = 3
    Devices <- MCDevices
    Lists <- MCLists
INVARIANTS RefsExact OneHolder
PROPERTY ClosedByLast
SYMMETRY Symmetry
