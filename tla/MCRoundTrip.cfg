SPECIFICATION Spec
CONSTANTS
    MaxNumber = 5
    MaxEscape = 4
    MaxUrl = 4
    MaxLine = 4
    MaxPieces = 2
    MaxFewPieces = 4
    Sources <- MCSources
CHECK_DEADLOCK FALSE
INVARIANTS
    TypeOK
    OtherwiseRoundTrips
PROPERTIES
    Terminates
