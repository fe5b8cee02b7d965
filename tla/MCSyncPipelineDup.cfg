SPECIFICATION PipelineSpec
CONSTANTS
    Users = {u1}
    Workers = {w1}
    JobIds = {j1, j2}
    OpIds = {o1, o2}
    None = None
    Concurrency = 2
    MaxStalled = 0
    MaxFaults = 0
    MaxCrashes = 0
    MaxCount = 0
    BreakerEnabled = FALSE
    Threshold = 5
    ReloadThreshold = 5
    Due = 1
    Stale = 1
    Dormant = 2
    MaxAge = 2
    BatchSize = 1
CHECK_DEADLOCK FALSE
INVARIANT NoDuplicateSync
