\* Every user action before the daemon is live, writes after; kills, faults.
SPECIFICATION Spec
CONSTANTS
    Path = {a}
    Content = {x, y}
    Own = own
    IndexDirIgnored = TRUE
    MaySkipCatchUp = FALSE
    MayAct <- EditsAnytime
    MaxEdits = 3
    MaxFaults = 1
    MaxCrashes = 1
    MaxReindexes = 0
    MaxQueue = 1
SYMMETRY Symmetry
INVARIANTS
    CaughtUp
\* A daemon whose watcher could not start only waits for requests.
CHECK_DEADLOCK FALSE
