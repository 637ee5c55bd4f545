CONSTANTS
    Logins = {l1, l2}
    MaxAttempts = 3
    Window = 2
    Keep = 2
    MaxMissed = 1
SPECIFICATION Spec
INVARIANT AtMostMaxAttempts
