CONSTANTS
    c1 = c1
    c2 = c2
    Scenarios = {"fences", "closing"}
    None = None
    Callers = {c1, c2}
    OutboundCapacity = 1
    EventCapacity = 1
    FenceLimit = 1
    FrameCount = 2
    Modes = {"plain", "ordered"}
    MaxInputs = 2
    MaxFrames = 2
SPECIFICATION MCSpec
INVARIANTS
    FenceOrder
    CloseSendsTheQueue
PROPERTIES
    AbortReturns
    FencesAnswered
    WrongReceiverEndsSession
    UndisturbedCloseReturns
CHECK_DEADLOCK FALSE
