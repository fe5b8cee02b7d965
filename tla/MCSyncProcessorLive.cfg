SPECIFICATION FairSpec
CONSTANTS
    Users = {u1}
    Workers = {w1}
    JobIds = {j1, j2}
    OpIds = {o1, o2, o3}
    None = None
    Concurrency = 1
    MaxStalled = 1
    MaxFaults = 1
    MaxCrashes = 1
    MaxCount = 0
    BreakerEnabled = FALSE
    Threshold = 5
    ReloadThreshold = 5
CHECK_DEADLOCK FALSE
PROPERTIES
    EverySyncEnds
