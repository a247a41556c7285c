CONSTANTS
    Scenarios = {"explicit"}
    idR = idR
    idP = idP
    idT = idT
    idN = idN
    u = u
    x = x
    None = None
    Sockets = {1, 2}
    Requests <- MCRequests
    Capability <- MCCapability
    SocketRoutes = {idR, idP}
    StoredBy = {idR, idT}
    Outputs = {x}
    MaxResponses = 2
    MaxCalls = 3
SPECIFICATION MCSpec
INVARIANTS
    ExplicitLeftIntact
CHECK_DEADLOCK FALSE
