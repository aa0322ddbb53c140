SPECIFICATION Spec
CONSTANTS
    MaxShort = 3
    MaxMiddle = 5
    MaxLong = 6
    Contents <- MCContents
CHECK_DEADLOCK FALSE
INVARIANTS
    TypeOK
    PartsAreAsWritten
PROPERTIES
    RetriesFromTheName
    Terminates
