SPECIFICATION Spec
CONSTANTS
    Sockets = {s1}
    Listener = Listener
    None = None
    MaxData = 2
    MaxArrivals = 6
    AcceptFails = FALSE
CHECK_DEADLOCK FALSE
INVARIANTS JobsMatchPoll
PROPERTIES CallsReturn WritesAreSent ListensAgain
