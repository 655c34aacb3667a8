SPECIFICATION CodegenSpec
CONSTANTS
    NVRegs = 5
    MaxInsts = 5
    MaxWork = 2
    Pool <- TwoRegs
    PoolSize = 2
    Base = 4
    ArgRegs <- TwoArgs
    Scratch1 = 11
    Scratch2 = 12
INVARIANTS
    NoInterference
    NoPoolAcrossCall
    SlotsDisjoint
    NoNeedlessSpill
    HomesHold
    EffectsAsMeant
    WideSymbolAsMeant
PROPERTIES
    SpillIsFinal
CHECK_DEADLOCK FALSE
