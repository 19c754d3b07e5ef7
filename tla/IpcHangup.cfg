SPECIFICATION HangupSpec
CONSTANTS
    c1 = c1
    c2 = c2
    t1 = t1
    t2 = t2
    r = r
    k = k
    KERNEL = KERNEL
    NONE = NONE
    MaxId = 4
    Contexts = {c1, c2}
    Threads = {t1, t2, r}
    ThreadContext <- SendersAndReceiver
    QUEUE_DEPTH = 1
    CONTACTS_MAX = 2
    PER_CONTEXT_MAX = 2
    NOTIFY_MAX = 1
INVARIANTS
    NoLostWakeup
    PendingBehindFullRing
    HangupAtMostOnce
    EveryPeerHears
    HangupIsLast
PROPERTIES
    BatchDrains
CHECK_DEADLOCK FALSE
