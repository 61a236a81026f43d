SPECIFICATION Spec
CONSTANTS
    Keys = {1, 2}
    Workloads <- Strings
    Members = {1}
    MemLimit = 3
    SyncModes = {TRUE, FALSE}
    Readers = {}
    MaxOps = 4
    MaxCrashes = 2
    FlushFailures = TRUE
INVARIANTS TypeOK RecoveryMatchesMemory
PROPERTIES NothingDurableIsLost DurableMapSpec EventuallyFlushed
CONSTRAINT Effort
CHECK_DEADLOCK FALSE
