SPECIFICATION Spec
CONSTANTS
    Table <- OneEntry
    AgingSlots = 1
    NEntries = 60
    Requests <- Sent
    Noise = {1}
    GateStep = 100
INVARIANTS
    GatesBelongToSession
    OpenTakesAllAdvances
    AnswerNamesRequest
PROPERTIES
    ShortRequestsAreInert
    KeepsPromises
