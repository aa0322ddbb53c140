SPECIFICATION Spec
CONSTANTS
    Kinds = {word, comma}
    EOF = EOF
    MaxMarks = 3
    MaxInput = 3
    Sources <- MCSources
INVARIANTS
    TypeOK
    BufferIsWindow
    OnlyReachableTokens
PROPERTY
    ImplementsTokenStream
