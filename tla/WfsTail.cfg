SPECIFICATION Spec
CONSTANTS
    NTargets = 2
    MAX_TARGETS = 2
    MAX_REVOKES = 1
    FREE = FREE
    TailOrdered = FALSE
    FaultSteps <- NoStep
    DeathSteps <- NoStep
    MaxStages = 3
    MaxCrashes = 1
    MaxFaults = 0
INVARIANT EarlyCrashDiscards
CHECK_DEADLOCK FALSE
