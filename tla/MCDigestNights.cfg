SPECIFICATION MCSpec
CONSTANTS
    Readers = {u1}
    Wishes = {"daily", "weekly"}
    Users = {u1}
    Slots = {}
    Workers = {w1, w2}
    None = None
    Nights = 2
    WeeklyNights = {2}
    ManualRuns = 1
    DigestMaxRetries = 1
    PostgreSQL = TRUE
SYMMETRY Symmetry
INVARIANTS
    NothingForgotten
CHECK_DEADLOCK FALSE
