SPECIFICATION Spec
CONSTANTS
    MaxNumber = 3
    MaxEscape = 0
    MaxUrl = 0
    MaxLine = 0
    MaxPieces = 1
    MaxFewPieces = 0
    Sources <- MCSources
CHECK_DEADLOCK FALSE
INVARIANTS
    RoundTrips
