\* A search against batches and compactions.
SPECIFICATION Spec
CONSTANTS
    Path = {p1, p2}
    Content = {c1, c2}
    Readers = {r1}
    MaxSegId = 3
    MaxBatches = 1
    MaxFaults = 0
    MaxOps = 3
    MaxCrashes = 0
    CrashDuringRemoval = FALSE
SYMMETRY Symmetry
INVARIANTS
    NoResurrection
    UntouchedFilesStable
PROPERTIES
    TombstonesGrow
