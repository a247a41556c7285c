CONSTANTS
    Scenarios = {"sockets", "stored", "branch", "transports", "threads"}
    idR = idR
    idP = idP
    idT = idT
    idN = idN
    u = u
    x = x
    None = None
    Sockets = {1, 2}
    Requests <- MCRequests
    Capability <- MCCapability
    SocketRoutes = {idR, idP}
    StoredBy = {idR, idT}
    Outputs = {x}
    MaxResponses = 2
    MaxCalls = 3
SPECIFICATION MCSpec
VIEW Alike
INVARIANTS
    ContextIsTheHistory
    ReferencesOwnHistory
    UnstoredStaysOnItsSocket
    InferredOnce
    ReplayIsFull
PROPERTIES
    OthersUninterrupted
CHECK_DEADLOCK FALSE
