CONSTANTS
    r1 = r1
    r2 = r2
    r3 = r3
    r4 = r4
    r5 = r5
    a1 = a1
    a2 = a2
    k1 = k1
    k2 = k2
    None = None
    Scenarios = {"aging"}
    Requests = {r1, r2}
    Attachments = {a1}
    Uses <- MCUses
    Keys = {k1}
    KeyOf <- MCKeyOf
    Concurrency = 2
    MaxEntries = 1
    Retentions = {None}
    Lifetimes = {None}
    Timeout <- MCTimeout
    MaxUploads = 2
    Readers = {r1, r2}
    Contents = {1, 2, 3, 4}
    Size <- MCSize
    MaxContentEntries = 2
    MaxContentBytes = 3
    MaxTime = 3
SPECIFICATION MCSpec
INVARIANTS
    EndsByDeadline
CHECK_DEADLOCK FALSE
