\* Kills at every step; up to two segments per operation. An index that gets no more work is quiet.
SPECIFICATION Spec
CONSTANTS
    Path = {p1, p2}
    Content = {c1, c2}
    Readers = {}
    MaxSegId = 4
    MaxBatches = 2
    MaxFaults = 0
    MaxOps = 3
    MaxCrashes = 1
    CrashDuringRemoval = FALSE
SYMMETRY Symmetry
INVARIANTS
    QueriesSeeTruth
    RestartSeesTruth
    FilesSurvive
    ListMatchesDisk
CHECK_DEADLOCK FALSE
