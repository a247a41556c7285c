CONSTANTS
    r1 = r1
    r2 = r2
    r3 = r3
    r4 = r4
    r5 = r5
    a1 = a1
    a2 = a2
    k1 = k1
    k2 = k2
    None = None
    Scenarios = {"repair", "aging", "locks", "contents"}
    Requests = {r1, r2, r3, r4, r5}
    Attachments = {a1, a2}
    Uses <- MCUses
    Keys = {k1, k2}
    KeyOf <- MCKeyOf
    Concurrency = 2
    MaxEntries = 1
    Retentions = {None, 1}
    Lifetimes = {None, 1}
    Timeout <- MCTimeout
    MaxUploads = 4
    Readers = {r1, r2}
    Contents = {1, 2, 3, 4}
    Size <- MCSize
    MaxContentEntries = 2
    MaxContentBytes = 3
    MaxTime = 2
SPECIFICATION MCSpec
INVARIANTS
    CachesBounded
    RepairUsesAnotherFile
PROPERTIES
    UploadsNeverCollide
    InvalidationSparesNewFiles
    PreflightFailsOnlyOnAging
    RequestsEnd
CHECK_DEADLOCK FALSE
