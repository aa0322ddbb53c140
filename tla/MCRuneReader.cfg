SPECIFICATION Spec
CONSTANTS
    Alphabet = {"CR", "LF", "NUL", "wide"}
    MaxInput = 6
    Sources <- MCSources
INVARIANTS
    TypeOK
    ArraysFit
    UnreadHasRoom
    LocationIsExact
PROPERTY
    ReadsIsolatedRunes
