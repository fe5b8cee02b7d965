SPECIFICATION FairSpec
CONSTANTS
    Users = {u1}
    Calls = {c1, c2}
    Workers = {w1}
    None = None
    CorePrefix = sync_proxy
    WorkerPrefix = sync_worker
    MaxRequests = 1
    MaxErrors = 5
    MaxFaults = 0
    MaxRestarts = 0
CHECK_DEADLOCK FALSE
PROPERTY RequestsAreTaken
