SPECIFICATION Spec
CONSTANTS
    r1 = r1
    r2 = r2
    r3 = r3
    p1 = p1
    p2 = p2
    partner = partner
    order = order
    journal = journal
    none = none
    Syncs <- ThreeSyncs
    MaxInFlight = 2
    EntitySets <- MCEntitySets
    Releases = 5
    Documents <- MCDocuments
    Paths <- MCPaths
    FindRowsLimit = 2
    PageSize = 2
    Columns = 2
    None = none
SYMMETRY SyncSymmetry
INVARIANTS
    SafeToCallAfterEverySync
CHECK_DEADLOCK FALSE
