\* Two overlapping calls with different contents.
CONSTANTS
    p1 = p1
    p2 = p2
    a = a
    b = b
    absent = absent
    Absent = absent
    Procs = {p1, p2}
    Contents = {a, b}
    Inodes = {1, 2, 3}
    Overlap = TRUE
    ReadErrors = FALSE
    MaxRuns = 2
    MaxCrashes = 0
SPECIFICATION Spec
INVARIANT AcceptedAgree
CHECK_DEADLOCK FALSE
