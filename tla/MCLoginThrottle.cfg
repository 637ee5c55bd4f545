CONSTANTS
    Logins = {l1, l2, l3}
    MaxAttempts = 3
    Window = 2
    Keep = 2
    MaxMissed = 1
SPECIFICATION FairSpec
INVARIANTS TypeOK NeverOverCounts FailuresBounded RingHolds
PROPERTY GateReopens
