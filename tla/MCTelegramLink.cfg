SPECIFICATION FairSpec
CONSTANTS
    c1 = c1
    c2 = c2
    u1 = u1
    u2 = u2
    Users = {u1, u2}
    Codes = {c1, c2}
    Owner <- MCOwner
    Private = {p1, p2}
    Groups = {g1}
    Handlers = {h1, h2}
    Senders = {s1}
    None = None
    TTL = 1
    MaxTime = 1
    MaxUpdates = 2
    MaxCrashes = 1
    MaxSends = 1
INVARIANTS
    TypeOK
    OneAccountPerChat
    CodeBindsOnce
    OkMeansBound
    HeardOnlyByOwner
PROPERTIES
    BacklogDrains
CHECK_DEADLOCK FALSE
