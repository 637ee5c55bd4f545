CONSTANTS
    Conns = {c1, c2}
    Users = {u1, u2}
    Admins = {}
    Isolates = {i1, i2}
    Reads = {}
    NoUser = NoUser
    NoIso = NoIso
    CycleLen = 0
    DayLen = 1
    CacheTtl = 1
    FlushBytes = 2
    FlushUsers = 2
    FlushInterval = 2
    StartTime = 1
    MaxTime = 1
    InitialRows <- OnlyUnlimited
    NewRows <- None
    Patches <- None
SYMMETRY Symmetry
SPECIFICATION Spec
INVARIANTS CountedOnce PendingBounded
PROPERTY ImplementsLedger
