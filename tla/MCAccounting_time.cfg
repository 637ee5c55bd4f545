CONSTANTS
    Conns = {c1}
    Users = {u1}
    Admins = {}
    Isolates = {i1}
    Reads = {r1}
    NoUser = NoUser
    NoIso = NoIso
    CycleLen = 2
    DayLen = 1
    CacheTtl = 1
    FlushBytes = 1
    FlushUsers = 2
    FlushInterval = 2
    StartTime = 3
    MaxTime = 4
    InitialRows <- Various
    NewRows <- FirstUseOnly
    Patches <- Edited
SPECIFICATION FairSpec
PROPERTIES LateAdmission LateStamp LateReset MaintenanceNeverBars QuotaResetReached
