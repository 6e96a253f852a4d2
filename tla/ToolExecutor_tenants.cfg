SPECIFICATION FairSpec
CONSTANTS
    k1 = k1
    k2 = k2
    s1 = s1
    s2 = s2
    c1 = c1
    c2 = c2
    c3 = c3
    acme = acme
    globex = globex
    none = none
    Calls <- OneCall
    Sessions <- TenantsSessions
    Connections <- TenantsConnections
    Companies <- MCCompanies
    None = none
    SessionCompany <- TenantsSessionCompany
    ConnCompany <- TenantsConnCompany
    AuthMode <- TenantsAuthMode
    StoredKeys <- TenantsStoredKeys
    Budget = 2
    MaxRetries = 2
    MaxRestarts = 0
INVARIANTS
    RightConnection
    ReferencesLive
PROPERTIES
    CallsEnd
    AnswerRecorded
CHECK_DEADLOCK FALSE
