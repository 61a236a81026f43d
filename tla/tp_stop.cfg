SPECIFICATION Spec
CONSTANTS
    Workers = {w1, w2}
    Submitters = {s1, s2, s3}
    QueueSize = 1
    Stops = {"graceful", "immediate"}
    None = None
INVARIANTS QueueBounded StopDrains
PROPERTIES AcceptedTaskRuns ImmediateStopReturns
CHECK_DEADLOCK FALSE
