SPECIFICATION Spec
CONSTANTS
    Kinds = {word, comma}
    EOF = EOF
    MaxMarks = 1
    MaxInput = 2
    Sources <- MCSources
PROPERTY
    ErrorComesWithToken
