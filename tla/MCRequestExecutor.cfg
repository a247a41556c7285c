CONSTANTS
    c1 = c1
    c2 = c2
    c3 = c3
    g1 = g1
    g2 = g2
    p1 = p1
    l1 = l1
    l2 = l2
    None = None
    Connections = {c1, c2, c3, g1, g2, p1, l1, l2}
    Plan = {p1}
    Interactions = {g1, g2}
    Unauthenticated = {c3}
    Leased = {l1, l2}
    Requests <- AllRequests
    MaxRoute = 3
    CleanupTries = 3
    CleanupTimeout = 1
    MaxFiles = 3
    MaxTime = 1
SPECIFICATION Spec
INVARIANTS
    SubmittedOnce
    ResentOnlyToRepair
    OwnCredentials
    NothingSentLate
    FilesOutliveTheirUse
PROPERTIES
    FilesCollected
    TimedRequestsReturn
CHECK_DEADLOCK FALSE
