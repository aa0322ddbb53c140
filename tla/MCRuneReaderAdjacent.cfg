SPECIFICATION Spec
CONSTANTS
    Alphabet = {"CR", "FF", "x"}
    MaxInput = 2
    Sources <- MCSources
PROPERTY
    ReadsFilteredRunes
