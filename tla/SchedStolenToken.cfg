SPECIFICATION ReportedSpec
CONSTANTS
    p = p
    q = q
    NOBODY = NOBODY
    CPUs = {p, q}
    NThreads = 2
    Joiners = {1, 2}
    Rootless = {}
    Affinity <- Anywhere
INVARIANTS
    NoStrand
