SPECIFICATION Spec
CONSTANTS
    WordBits = 4
    SignBit = 8
    ByteMod = 4
    Vocabularies <- Few
    Memories <- Some
    MaxRegs = 5
    MaxStatements = 2
INVARIANTS MeaningKept NoDeadHalves
CHECK_DEADLOCK FALSE
