CONSTANTS
    Isolates = {i1, i2}
    CacheTtl = 2
    Requests <- AllRequests
    MaxRotations = 1
    MaxTime = 4
SPECIFICATION FairSpec
INVARIANTS TypeOK ProfileRoutes TunedAsAsked PageForBrowsers AnswersTimely
PROPERTY LinkComesToWork
