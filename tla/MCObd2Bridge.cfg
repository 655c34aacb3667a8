SPECIFICATION BridgeSpec
CONSTANTS
    TimerMod = 2
    PendingDelay = 2
    ReceiveDelay = 2
    WdtLimit = 2
    WdtEnabled = TRUE
    MaxStack = 2
    Instructions <- All
    FrameBytes = 2
    StepsPerByte = 6
    ChunkSteps = 2
    Chunks = 2
    MaxQuiet = 0
    MaxRetries = 1
INVARIANTS
    OneHandlerInFlight
    WindowsAreNotInterrupted
    HandlerFindsByte
    ReceiveWaitsOnlyWhileBusy
PROPERTIES
    NoByteOverwritten
    RequestEnds
