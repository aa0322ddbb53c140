SPECIFICATION Spec
CONSTANTS
    MaxShort = 4
    MaxLong = 5
    Sheets <- MCSheets
CHECK_DEADLOCK FALSE
INVARIANTS
    RulesAreAsWritten
    OuterErrorsAreReported
    BlocksAreValues
    ValueLengthIsTheValue
PROPERTY
    Terminates
