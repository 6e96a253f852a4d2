SPECIFICATION Spec
CONSTANTS
    c1 = c1
    c2 = c2
    none = none
    Connections <- MCConnections
    AuditLog <- MCAuditLog
    Limit = 2
    MaxGestures = 3
    MaxRequests = 2
    None = none
INVARIANTS
    TypeOK
    SettledIsCurrent
PROPERTIES
    ChoiceStands
CHECK_DEADLOCK FALSE
