SPECIFICATION Spec
CONSTANTS
    Names <- NamesValue
    Literals <- LiteralsValue
    Programs <- ProgramsValue
    Inputs <- InputsValue
    Handler <- HandlerValue
    HandlerMemory <- HandlerMemoryValue
    MaxInterrupts = 1
INVARIANTS
    NamesResolve
    DecodesAsWritten
    ResultsAsMeant
    InterruptsInvisible
CHECK_DEADLOCK FALSE
