SPECIFICATION Spec
CONSTANTS
    p = p
    q = q
    NOBODY = NOBODY
    CPUs = {p, q}
    NThreads = 2
    Joiners = {}
    Rootless = {}
    Affinity <- Anywhere
INVARIANTS
    NoStrand
