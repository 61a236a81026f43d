SPECIFICATION FairSpec
CONSTANTS
    Threads = {t1, t2}
    Followers = {f}
    Commands <- Writes
    Batches <- Mixed
    Modes = {TRUE, FALSE}
    Capacity = 2
    Null = Null
    LogThreshold = 2
    MaxSubmits = 2
    MaxCrashes = 2
    MaxFailures = 1
INVARIANTS TypeOK AnswerIsOwn RunsInOrder RecoveryFindsLog RetryFindsLatest
PROPERTY AppendedIsApplied
CONSTRAINT Effort
CHECK_DEADLOCK FALSE
