SPECIFICATION Spec
CONSTANTS
    Libraries <- MCLibraries
    Entrypoints <- MCEntrypoints
CHECK_DEADLOCK FALSE
INVARIANTS
    TypeOK
    BaseLayerIsLast
    MeansWhatTheTextSays
PROPERTIES
    LayersOnlyGrow
    Terminates
