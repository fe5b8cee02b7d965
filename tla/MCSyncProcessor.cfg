SPECIFICATION Spec
CONSTANTS
    Users = {u1}
    Workers = {w1, w2}
    JobIds = {j1, j2}
    OpIds = {o1, o2, o3}
    None = None
    Concurrency = 1
    MaxStalled = 1
    MaxFaults = 1
    MaxCrashes = 1
    MaxCount = 8
    BreakerEnabled = TRUE
    Threshold = 2
    ReloadThreshold = 1
SYMMETRY Symmetry
CONSTRAINT OneDisruption
CHECK_DEADLOCK FALSE
INVARIANTS
    TypeOK
    CompletedMeansSaved
    EventsAreTrue
    OrphansExplained
    StatusSettles
    FailuresAreBacked
PROPERTY TerminalIsFinal
