SPECIFICATION Spec
CONSTANTS
    p = p
    q = q
    NOBODY = NOBODY
    CPUs = {p, q}
    NThreads = 2
    Joiners = {1}
    Rootless = {2}
    Affinity <- Pinned
INVARIANTS
    TypeOK
    DispatchedOnce
    NodeExclusive
    HandoffKept
    AffinityRespected
    NoLostWake
