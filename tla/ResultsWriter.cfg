\* Three runs on one volume, killed anywhere; two flushes per file.
CONSTANTS
    Parts = 2
    MaxRuns = 3
    Nothing = Nothing
SPECIFICATION Spec
INVARIANTS
    ReadersSeeWhole
    SuccessIsPublished
PROPERTY ImplementsPublishedFile
CHECK_DEADLOCK FALSE
