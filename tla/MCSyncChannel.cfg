SPECIFICATION FairSpec
CONSTANTS
    Users = {u1}
    Calls = {c1, c2}
    Workers = {w1}
    None = None
    CorePrefix = shared
    WorkerPrefix = shared
    MaxRequests = 1
    MaxErrors = 2
    MaxFaults = 2
    MaxRestarts = 1
CHECK_DEADLOCK FALSE
INVARIANTS
    ChannelTypeOK
PROPERTIES
    CallsAreWoundUp
    ImplementsRequests
