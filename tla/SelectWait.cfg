SPECIFICATION FairSpec
CONSTANTS
    e1 = e1
    e2 = e2
    t1 = t1
    t2 = t2
    t3 = t3
    t4 = t4
    NONE = NONE
    Endpoints = {e1, e2}
    MaxSel = 2
    Threads = {t1, t2}
    Reactors = {2}
    EPS_MAX = 2
    SETS_MAX = 1
    MaxQueued = 2
INVARIANTS
    TypeOK
    NoDanglingWatcher
    WatchedIsRegistered
    NoStuckWaiter
PROPERTIES
    ParksOnlyOnEmpty
    EveryReadyEndpointReported
CHECK_DEADLOCK FALSE
