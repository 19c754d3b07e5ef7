SPECIFICATION Spec
CONSTANTS
    NTargets = 2
    MAX_TARGETS = 2
    MAX_REVOKES = 1
    FREE = FREE
    FaultSteps <- HandledFaults
    TailOrdered = TRUE
    DeathSteps <- HandledDeaths
    MaxStages = 2
    MaxCrashes = 2
    MaxFaults = 1
INVARIANTS
    TypeOK
    ServedIsStable
    EarlyCrashDiscards
    CrashKeepsWritable
PROPERTIES
    VolumeSpec
    ReplaySparesFreed
    ErrorIsSticky
CHECK_DEADLOCK FALSE
