SPECIFICATION Spec
CONSTANTS
    c1 = c1
    c2 = c2
    t1 = t1
    t2 = t2
    r = r
    k = k
    KERNEL = KERNEL
    NONE = NONE
    MaxId = 2
    Contexts = {c1}
    Threads = {t1, k}
    ThreadContext <- OneProcessAndKernel
    QUEUE_DEPTH = 1
    CONTACTS_MAX = 1
    PER_CONTEXT_MAX = 1
    NOTIFY_MAX = 2
INVARIANTS
    TypeOK
    WaitersAreParked
PROPERTIES
    MailboxSpec
CHECK_DEADLOCK FALSE
