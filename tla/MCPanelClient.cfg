CONSTANTS
    Names <- TheNames
    Lower <- ToLower
    Values = {"set", "fallback"}
    Fallback = "fallback"
    Blank = "blank"
    First = "old"
    MaxCalls = 2
    MaxWrites = 1
    MaxDialogs = 1
    MaxPresses = 3
SPECIFICATION FairSpec
INVARIANTS TypeOK NothingWiped SavedIsTrue MadeOnce
PROPERTY ComesToRest
CHECK_DEADLOCK FALSE
