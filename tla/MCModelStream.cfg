SPECIFICATION MCSpec
CONSTANTS
    None = None
    resp = resp
    call1 = call1
    call2 = call2
    call3 = call3
    item1 = item1
    fn = fn
    Wires <- MCWires
    Pieces <- MCPieces
    MaxEventBytes = 4
    MaxFrameBytes = 6
    MaxPendingBytes = 8
    MaxInteractionBytes = 8
    MaxMessageBytes = 10
    MaxBytes = 6
    MaxUnread = 2
INVARIANTS
    ChunkingIrrelevant
    ContentAsStated
    ContinuationOfCompleteResponse
    PendingBytesExact
CHECK_DEADLOCK FALSE
