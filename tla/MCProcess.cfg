SPECIFICATION Spec
CONSTANTS
    Url = {"x.css", "y.css"}
    MaxEntries = 3
    MaxWords = 4
    MaxRules = 2
    MaxNames = 3
    MaxFormat = 3
    MaxValue = 2
    MaxTokens = 4
    MaxInside = 2
    WideKeywords <- MCWideKeywords
    AbsoluteSizes <- MCNoWords
    RelativeSizes <- MCNoWords
    LineWidths <- MCNoWords
    FitKeywords <- MCNoWords
    AutoKeyword <- MCAutoKeyword
    LengthUnits <- MCLengthUnits
    AngleUnits <- MCAngleUnits
    Inputs <- MCInputs
CHECK_DEADLOCK FALSE
INVARIANTS
    TypeOK
    VisibleFilesAreRead
    OnlyFirstIsMissed
    OrderDoesNotMatter
    EveryRuleOnce
    OrderIsKept
    EveryUseIsGenerated
    RulesSayWhatIsMeant
    AcceptedIsFound
    OutputIsReadAgain
    OnlyRatiosFail
    WrittenIsSelfContained
PROPERTIES
    ImplementsThemeVars
    Terminates
