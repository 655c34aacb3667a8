SPECIFICATION ElmSpec
CONSTANTS
    Payloads <- Fitting
    Flips = {128}
    MaxLong = 0
    Lines <- AllLines
    MaxLines = 3
    Cuts = {20}
INVARIANTS
    TypeOK
    NothingElseAccepted
    Aligned
    RepliesInOrder
CHECK_DEADLOCK FALSE
