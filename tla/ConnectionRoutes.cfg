SPECIFICATION Spec
CONSTANTS
    r1 = r1
    r2 = r2
    r3 = r3
    legacy = legacy
    acme = acme
    globex = globex
    none = none
    Requests <- ThreeRequests
    Legacy = legacy
    Companies <- MCCompanies
    LegacyCompany = acme
    Asks <- MCAsks
    None = none
SYMMETRY RequestSymmetry
INVARIANTS
    TypeOK
    SecretsAccounted
    RowsHaveSecrets
    SuccessIsTrue
    TenantsApart
    HealthEarned
PROPERTIES
    NoResurrection
CHECK_DEADLOCK FALSE
