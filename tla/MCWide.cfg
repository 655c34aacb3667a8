SPECIFICATION Spec
CONSTANTS
    WordBits = 4
    SignBit = 8
    Literals <- SomeLiterals
    Words16 <- Limits
    Words32 <- LongLimits
INVARIANTS
    
    SextIsTrue
