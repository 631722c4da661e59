SPECIFICATION Spec
CONSTANTS
    Sources = {a, b}
    Items = 1
    PerItem = 1
    Workers = {w1, w2}
    FailureLimit = 2
    MaxRecords = 5
    MaxRetries = 1
    Volatile <- MCVolatile
    MaxVersions = 1
    MaxRuns = 3
    Nights = 1
    MaxHands = 1
    MaxOrders = 0
SYMMETRY Symmetry
PROPERTIES
    SourcesIsolated
CHECK_DEADLOCK FALSE
