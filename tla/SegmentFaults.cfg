\* I/O errors, kills, also inside a removal. A start that a broken segment refuses ends the system.
SPECIFICATION Spec
CONSTANTS
    Path = {p1, p2}
    Content = {c1, c2}
    Readers = {}
    MaxSegId = 3
    MaxBatches = 2
    MaxFaults = 2
    MaxOps = 3
    MaxCrashes = 2
    CrashDuringRemoval = TRUE
SYMMETRY Symmetry
INVARIANTS
    FilesSurvive
CHECK_DEADLOCK FALSE
