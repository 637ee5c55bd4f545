CONSTANTS
    Isolates = {i1}
    Hosts = {h1}
    Boots = {b1}
    Saves = {s1, s2}
    NoIso = NoIso
    NoHost = NoHost
    Opts = {panelPath}
    Values = {v0, v1}
    DefaultValue = v0
    Passwords = {p1}
    DefaultPw = admin
    NoPw = NoPw
    Asks <- AllAsks
    PwIterations = full
    EnvlessIterations = light
    Attempts = 2
    CacheTtl = 1
    MaxReads = 2
SPECIFICATION FairSpec
INVARIANTS TypeOK HashFits
PROPERTIES SavesAsAsked CacheConverges ImplementsRegister
