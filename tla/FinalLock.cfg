\* Calls one after the other, with crashes and file errors in between.
CONSTANTS
    p1 = p1
    p2 = p2
    a = a
    b = b
    absent = absent
    Absent = absent
    Procs = {p1, p2}
    Contents = {a, b}
    Inodes = {1, 2, 3}
    Overlap = FALSE
    ReadErrors = FALSE
    MaxRuns = 4
    MaxCrashes = 2
SPECIFICATION Spec
INVARIANTS
    AcceptedAgree
    AcceptedStaysLocked
    ArtifactMatchesLock
    RejectedOnlyOnConflict
PROPERTIES
    CallsEnd
    ImplementsRegister
CHECK_DEADLOCK FALSE
