SPECIFICATION Spec
CONSTANTS
    Sheets <- MCSheets
    File = "main.css"
CHECK_DEADLOCK FALSE
PROPERTY EveryErrorHasItsFile
