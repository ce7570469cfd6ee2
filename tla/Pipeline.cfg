\* Two runs in one directory, fourteen packages, one change to the target.
CONSTANTS
    main = main
    lib = lib
    deep = deep
    NoFile = NoFile
    Files <- ThreeFiles
    Nested = {deep}
    Entry = main
    DefaultFiles = {main, deep}
    Packages <- SomePackages
    MaxRuns = 2
    MaxEdits = 1
SPECIFICATION Spec
INVARIANTS
    TypeOK
    RunReadsItself
    ExitZeroIsExplained
    OperatorGate
    SandboxRemoved
    OnlyLeftoversSpoil
    InspectionStopsAtChanges
PROPERTIES
    ImplementsPhaseOrder
    EveryRunEnds
\* After the last run nothing is left to do.
CHECK_DEADLOCK FALSE
