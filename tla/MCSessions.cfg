CONSTANTS
    Isolates = {i1}
    Clients = {c1}
    NoIso = NoIso
    Paths = {pA, pB}
    DefaultPath = pA
    CacheTtl = 1
    SessionTtl = 1
    MaxReply = 1
    MaxChanges = 2
SPECIFICATION FairSpec
INVARIANTS SessionsEnd TurnedAwayBriefly PasswordsTimely
PROPERTY GetsIn
