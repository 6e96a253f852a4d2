SPECIFICATION Spec
CONSTANTS
    k1 = k1
    k2 = k2
    s1 = s1
    s2 = s2
    c1 = c1
    c2 = c2
    c3 = c3
    acme = acme
    globex = globex
    none = none
    Calls <- MCCalls
    Sessions <- SoloSessions
    Connections <- SoloConnections
    Companies <- MCCompanies
    None = none
    SessionCompany <- SoloSessionCompany
    ConnCompany <- SoloConnCompany
    AuthMode <- SoloAuthMode
    StoredKeys <- SoloStoredKeys
    Budget = 2
    MaxRetries = 0
    MaxRestarts = 0
SYMMETRY CallSymmetry
INVARIANTS
    ExecutorAsDocumented
CHECK_DEADLOCK FALSE
