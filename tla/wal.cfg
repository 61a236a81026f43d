SPECIFICATION Spec
CONSTANTS
    Writers = {"w1", "w2"}
    Strategies = {"background", "immediate", "os"}
    Failures = TRUE
    MaxRecords = 2
    MaxFiles = 2
INVARIANTS AckedSurvivesProcess
PROPERTIES EventuallyOnDisk
CHECK_DEADLOCK FALSE
