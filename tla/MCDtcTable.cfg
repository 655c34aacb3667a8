SPECIFICATION TableSpec
CONSTANTS
    Table <- SomeEntries
    AgingSlots = 3
    NEntries = 60
PROPERTIES
    TickDebounces
    CountersMoveOneWay
    ConfirmedAgesOut
    SelectiveClearCondemns
