SPECIFICATION Spec
CONSTANTS
    Programs <- Corpus
    Globals <- GlobalNames
    Functions <- FunctionNames
    MaxCalls = 8
INVARIANTS
    RunsAsWritten
    HeldWhenRead
PROPERTIES
    ComesToCallOrEnd
CHECK_DEADLOCK FALSE
