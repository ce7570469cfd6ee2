SPECIFICATION FairSpec
CONSTANTS
    Styles <- MCStyles
    NonTech = "humorous_non_tech"
    Words <- MCWords
    Jargon <- MCJargon
    Names = {"a", "b", "7", "none"}
    Inputs <- MCInputs
    Contexts <- MCContexts
    WeakContext <- MCWeak
    FetchAttempts = 2
    MaxRetries = 2
CHECK_DEADLOCK FALSE
INVARIANTS
    OutputContract
    CheckedOrFallback
PROPERTY
    BatchEnds
