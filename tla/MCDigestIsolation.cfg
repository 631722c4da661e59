SPECIFICATION MCSpec
CONSTANTS
    Readers = {u1, u2}
    Wishes = {"daily"}
    Users = {u1, u2}
    Slots = {1}
    Workers = {w1}
    None = None
    Nights = 1
    WeeklyNights = {}
    ManualRuns = 0
    DigestMaxRetries = 2
    PostgreSQL = TRUE
PROPERTIES
    EachUserIsolated
CHECK_DEADLOCK FALSE
