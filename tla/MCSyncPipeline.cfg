SPECIFICATION FairPipelineSpec
CONSTANTS
    Users = {u1}
    Workers = {w1}
    JobIds = {j1, j2}
    OpIds = {o1, o2}
    None = None
    Concurrency = 1
    MaxStalled = 1
    MaxFaults = 0
    MaxCrashes = 1
    MaxCount = 0
    BreakerEnabled = FALSE
    Threshold = 5
    ReloadThreshold = 5
    Due = 1
    Stale = 1
    Dormant = 2
    MaxAge = 2
    BatchSize = 1
CHECK_DEADLOCK FALSE
PROPERTIES
    OrphanSilences
    StaleIsForcedUnlessOrphaned
