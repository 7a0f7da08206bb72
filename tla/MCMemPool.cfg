SPECIFICATION PoolSpec
CONSTANTS
    Width = 8
    PageSize = 8
    Footstep = 4
    TinyThreshold = 2
    BigThreshold = 8
    BulkThreshold = 16
    ReserveMax = 48
    ExpandFactor = 3
    ExpandBulkFactor = 2
    Resident <- MCResident
    SizeSets <- MCSizeSets
    MaxPages = 3
    MaxHeld = 5
CHECK_DEADLOCK FALSE
INVARIANTS MemPoolInv ObjectsAreApart CrashesOnlyAfterLoss
