SPECIFICATION Spec
CONSTANTS
    acme = acme
    globex = globex
    none = none
    Companies <- MCCompanies
    Buckets <- MCBuckets
    Limit <- MCLimit
    WindowSeconds = 2
    TicksPerSecond = 2
    None = none
    MaxClock = 7
INVARIANTS
    TypeOK
    HardCap
    RetryAfterTight
PROPERTIES
    NoFalseRefusal
    RetryAfterHonoured
