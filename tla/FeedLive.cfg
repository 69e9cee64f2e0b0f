\* A daemon whose live thread has ended only waits for requests.
CHECK_DEADLOCK FALSE
SPECIFICATION FairSpec
CONSTANTS
    Path = {a}
    Content = {x, y}
    Own = own
    IndexDirIgnored = TRUE
    MaySkipCatchUp = TRUE
    MayAct <- EditsWhileLive
    MaxEdits = 2
    MaxFaults = 0
    MaxCrashes = 0
    MaxReindexes = 1
    MaxQueue = 1
INVARIANTS
    NoChangeLost
PROPERTIES
    EventuallyIndexed
