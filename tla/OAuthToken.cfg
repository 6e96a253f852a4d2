SPECIFICATION FairSpec
CONSTANTS
    a = a
    b = b
    c = c
    none = none
    noToken = noToken
    Coroutines <- MCCoroutines
    Buffer = 1
    DefaultLife = 3
    Lives <- MCLives
    NoToken = noToken
    None = none
    MaxClock = 4
    MaxApplies = 4
INVARIANTS
    TypeOK
    RefreshesSpaced
PROPERTIES
    MarginKept
    AppliesEnd
CHECK_DEADLOCK FALSE
