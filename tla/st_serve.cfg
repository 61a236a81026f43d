SPECIFICATION Spec
CONSTANTS
    Keys = {1, 2}
    Workloads <- Everything
    Members = {1, 2}
    MemLimit = 3
    SyncModes = {FALSE}
    Readers = {"get", "range"}
    MaxOps = 4
    MaxCrashes = 0
    FlushFailures = TRUE
INVARIANTS GetNeverStale RangeCoversSSTables
PROPERTIES LiveMapSpec
CONSTRAINT ReadersOfStrings
CHECK_DEADLOCK FALSE
