SPECIFICATION FirmwareSpec
CONSTANTS
    Table <- TwoEntries
    AgingSlots = 2
    NEntries = 60
    Requests <- ClearRequests
    Noise = {0}
    GateStep = 16
    Deltas = {50}
    LoopDelta = 50
    T1Limit = 250
INVARIANTS
    WatchdogGapBounded
    ClearTakesEffect
