SPECIFICATION Spec
CONSTANTS
    Keys = {1, 2}
    Frail = {}
    Strategies = {"size_tiered"}
    MergeThreshold = 2
    ZeroLevelSize = 2
    LevelSizeRatio = 2
    MaxVersion = 4
    MaxCrashes = 0
    Threads = {}
    Mortal = {1, 2}
    WriteFailures = FALSE
    Switch = FALSE
INVARIANTS DeletedStaysDeleted
CHECK_DEADLOCK FALSE
