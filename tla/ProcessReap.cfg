SPECIFICATION Spec
CONSTANTS
    c1 = c1
    c2 = c2
    w = w
    Cpus = {c1, c2}
    Collector = w
    NThreads = 1
    MaxPid = 1
    AutoReap = TRUE
    ReapPasses = 2
SYMMETRY Symmetry
INVARIANTS
    DispatchKeepsSlot
CHECK_DEADLOCK FALSE
