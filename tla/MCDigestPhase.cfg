SPECIFICATION MCSpec
CONSTANTS
    Readers = {u1}
    Wishes = {"daily"}
    Users = {u1, u2}
    Slots = {1, 2}
    Workers = {w1, w2}
    None = None
    Nights = 1
    WeeklyNights = {}
    ManualRuns = 1
    DigestMaxRetries = 1
    PostgreSQL = TRUE
SYMMETRY Symmetry
INVARIANTS
    OneDigestPerPeriod
    AtMostOneMessage
    NoUnrecordedMessage
    SentArrived
PROPERTIES
    RecordsAreFinal
CHECK_DEADLOCK FALSE
