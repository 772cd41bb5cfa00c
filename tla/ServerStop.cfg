SPECIFICATION LifeFairSpec
CONSTANTS
    Clients = {c1, c2}
    NoServer = NoServer
    MaxServers = 2
    MaxEvents = 5
    SleepsInClose = FALSE
CHECK_DEADLOCK FALSE
INVARIANTS OnlyServerAlive
PROPERTY CloseEnds
