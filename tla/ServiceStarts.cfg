SPECIFICATION ServiceFairSpec
CONSTANTS
    Pids = {p1, p2}
    NoProcess = NoProcess
    MaxFailures = 2
    MaxTroubles = 2
    MaxRequests = 3
CHECK_DEADLOCK FALSE
INVARIANTS OneCore
PROPERTIES StopIsObeyed StartIsObeyed
