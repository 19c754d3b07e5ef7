SPECIFICATION Spec
CONSTANTS
    c1 = c1
    c2 = c2
    w = w
    Cpus = {c1, c2}
    Collector = w
    NThreads = 2
    MaxPid = 2
    AutoReap = FALSE
    ReapPasses = 2
SYMMETRY Symmetry
INVARIANTS
    TypeOK
    DispatchKeepsSlot
    CollectedStatusIsReal
    SpawnUndisturbed
    RegisteredWaiterIsWoken
    RefusedReapIsRetried
CHECK_DEADLOCK FALSE
