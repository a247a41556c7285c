CONSTANTS
    Scenarios = {"rows", "fetches", "keys"}
    p1 = p1
    p2 = p2
    t1 = t1
    t2 = t2
    t3 = t3
    d1 = d1
    d2 = d2
    n1 = n1
    n2 = n2
    c1 = c1
    c2 = c2
    m1 = m1
    None = None
    Procs = {p1, p2}
    Tasks = {t1, t2}
    Owner <- MCOwner
    Dirs = {d1, d2}
    Names = {n1, n2}
    Conns = {c1, c2}
    Models = {m1}
    Catalog <- MCCatalogBoth
    Requests <- AllRequests
    Listings <- MCListings
    Readers = {p1}
    MaxCalls = 6
    MaxCrashes = 1
SPECIFICATION MCSpec
INVARIANTS
    TypeOK
    CacheKeyIdentifiesProfile
    ProfilesHaveGenerations
    BindingsMatchConnections
PROPERTIES
    DurableRowsSurvive
    ObservationsMatchConnection
CHECK_DEADLOCK FALSE
