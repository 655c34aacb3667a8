SPECIFICATION Spec
CONSTANTS
    Payloads <- OneTooLong
    Flips = {}
    MaxLong = 1
PROPERTIES
    Realigns
