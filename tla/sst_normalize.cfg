SPECIFICATION Spec
CONSTANTS
    Keys = {1, 2}
    Frail = {1}
    Strategies = {"size_tiered", "level"}
    MergeThreshold = 2
    ZeroLevelSize = 2
    LevelSizeRatio = 2
    MaxVersion = 3
    MaxCrashes = 1
    Threads = {"scan"}
    Mortal = {}
    WriteFailures = TRUE
    Switch = TRUE
INVARIANTS KeyNeverLost ScanMissesOnlyUnderMerge
PROPERTIES CompactionTerminates
CHECK_DEADLOCK FALSE
