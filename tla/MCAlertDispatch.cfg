SPECIFICATION Spec
CONSTANTS
    met = met
    user = user
    Users = {user}
    Rules = {met}
    Owner <- MCOwner
    Triggers <- MCTriggers
    Remote = {met}
    Scheduled = {s1, s2}
    Admins = {a1}
    None = None
    CooldownHours = 24
    LookbackHours = 26
    EventLimit = 1
    StepHours = 12
    MaxHours = 24
    MaxRuns = 3
    MaxChanges = 1
SYMMETRY Symmetry
INVARIANTS
    NoDuplicateWithoutRollback
    CooldownRespected
    FiredMeansTold
    NoSilentLoss
    MetOnce
PROPERTIES
    MetIsAnnounced
CHECK_DEADLOCK FALSE
