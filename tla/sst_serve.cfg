SPECIFICATION Spec
CONSTANTS
    Keys = {1, 2}
    Frail = {1}
    Strategies = {"size_tiered", "level"}
    MergeThreshold = 2
    ZeroLevelSize = 2
    LevelSizeRatio = 2
    MaxVersion = 4
    MaxCrashes = 1
    Threads = {"get"}
    Mortal = {}
    WriteFailures = TRUE
    Switch = FALSE
INVARIANTS IndexedOnDisk VectorOrderIsSequenceOrder LevelTablesAgree GetFindsNewest ReaderNeverStale
CHECK_DEADLOCK FALSE
