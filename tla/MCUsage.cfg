CONSTANTS
    None = None
    MaxDay = 2
    DaysPerMonth = 2
    Presets <- MCPresets
    Bodies <- MCBodies
    Sweepers = {w1}
    MaxFanOut = 1
    MaxChecks = 2
    MaxPatches = 1
    MaxFaults = 1
    MaxDeletes = 1
SPECIFICATION FairSpec
CHECK_DEADLOCK FALSE
INVARIANTS
    WithinPeriod
    RejectionExplained
PROPERTIES
    LateStepsConfined
    Heals
