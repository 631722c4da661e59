SPECIFICATION Spec
CONSTANTS
    Sources = {a, b}
    Items = 2
    PerItem = 1
    Workers = {w1, w2}
    FailureLimit = 2
    MaxRecords = 1
    MaxRetries = 1
    Volatile <- MCVolatile
    MaxVersions = 2
    MaxRuns = 3
    Nights = 1
    MaxHands = 1
    MaxOrders = 1
SYMMETRY Symmetry
INVARIANTS
    TypeOK
    StoredOnce
    RecordsHaveRuns
    NightComplete
    ErrorDeserved
CHECK_DEADLOCK FALSE
