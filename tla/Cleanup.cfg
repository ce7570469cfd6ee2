SPECIFICATION Spec
CONSTANTS
    Entries <- MCEntries
    Dirs <- MCDirs
    Above <- MCAbove
    Protected = {}
    Artifacts <- MCArtifacts
    Reports <- MCReports
    Records <- MCRecords
    Temporary <- MCTemporary
    Evidence <- MCEvidence
    Preserved <- MCPreserved
    Transient <- MCTransient
    KeepLatest <- MCKeep
    Trees <- MCTrees
    Indexes <- MCIndexes
    Pointer = "latest"
    MaxCommands = 1
    MaxChanges = 1
CHECK_DEADLOCK FALSE
INVARIANTS
    RunInProgressSurvives
    RemovalsAreListed
PROPERTY
    ChangedFilesSurvive
