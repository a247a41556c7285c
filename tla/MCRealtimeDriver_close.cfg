CONSTANTS
    c1 = c1
    c2 = c2
    Scenarios = {"closing"}
    None = None
    Callers = {c1, c2}
    OutboundCapacity = 1
    EventCapacity = 1
    FenceLimit = 1
    FrameCount = 1
    Modes = {"ordered"}
    MaxInputs = 2
    MaxFrames = 0
SPECIFICATION MCSpec
PROPERTIES
    CloseReturns
CHECK_DEADLOCK FALSE
