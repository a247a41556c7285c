CONSTANTS
    Scenarios = {"shared"}
    p1 = p1
    p2 = p2
    t1 = t1
    t2 = t2
    t3 = t3
    d1 = d1
    d2 = d2
    n1 = n1
    n2 = n2
    c1 = c1
    c2 = c2
    m1 = m1
    None = None
    Procs = {p1, p2}
    Tasks = {t1, t2, t3}
    Owner <- MCOwnerThree
    Dirs = {d1}
    Names = {n1, n2}
    Conns = {c1, c2}
    Models = {m1}
    Catalog <- MCCatalog
    Requests <- AllRequests
    Listings <- MCListings
    Readers = {}
    MaxCalls = 4
    MaxCrashes = 1
SPECIFICATION MCSpec
INVARIANTS
    CommittedIsPublished
PROPERTIES
    AtomicUpdates
    CallsReturn
CHECK_DEADLOCK FALSE
