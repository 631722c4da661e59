SPECIFICATION MCFairSpec
CONSTANTS
    Readers = {u1}
    Wishes = {"daily"}
    Users = {u1}
    Slots = {1}
    Workers = {w1, w2}
    None = None
    Nights = 1
    WeeklyNights = {}
    ManualRuns = 1
    DigestMaxRetries = 1
    PostgreSQL = FALSE
PROPERTIES
    ImplementsDelivery
    EveryPeriodResolved
CHECK_DEADLOCK FALSE
