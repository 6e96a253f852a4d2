SPECIFICATION Spec
CONSTANTS
    Partner = Partner
    Amount = Amount
    accented = accented
    odd = odd
    none = none
    None = none
    Plain <- MCPlain
    Accented <- MCAccented
    Odd <- MCOdd
    Chars <- MCChars
    Asks <- MCAsks
    MaxTop = 2
    MaxMatches = 2
    SnapshotLimit = 2
    Snapshot <- MCSnapshot
    MaxTokens = 5
INVARIANTS
    TypeOK
    VerdictExact
    SentAsAsked
CHECK_DEADLOCK FALSE
