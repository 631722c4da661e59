\* Inputs that grow step by step: every behaviour ends when its input is complete.
CHECK_DEADLOCK FALSE
SPECIFICATION Spec
CONSTANTS
    None = None
    Nothing = Nothing
    MaxReports = 6
    Cases <- BestCases
    News <- WorseNews
    Names = {1, 2, 3, 4}
    NameWords = {1, 2}
    Together <- Pairings
    Databases <- Corpora
    NewRows <- Additions
    MaxRows = 18
    Offset <- Clocks
    NewYear <- Januaries
    WeeklyDay = 2
    FirstDay = 7
    LastDay = 36
    Condition <- Growing
    Signals <- Measures
    Type <- Types
    Amounts = {0, 1}
    RowLimit = 3
    LastReading = 2
    MaxReadings = 4
    Limit = 2
    Window = 3
    Waits <- LoginWaits
    MaxAttempts = 6
INVARIANTS
    BurstsAreHeld
    StrongNeedsUse
    TopicsAreChains
    PurgeIsExact
    ReportedInFull
    WindowsHold
PROPERTIES
    WorseNeverHelps
    ProfileIsMonotone
    ClimbingNeverOpens
    PeriodsTile
    NewReadingMonotone
