SPECIFICATION FairSpec
CONSTANTS
    NThreads = 2
    Cpus = {c1}
    Futexes = {f1, f2}
    Timeouts = {0, 2}
    Count = 2
    NoOne = NoOne
    NoEvent = NoEvent
    MaxTick = 3
INVARIANTS
    TypeOK
    WaitersLinked
    NoLostFutexWake
    DeadlineKeptUp
    NoEarlyTimeoutUp
PROPERTIES
    TimedWaitEndsUp
CHECK_DEADLOCK FALSE
