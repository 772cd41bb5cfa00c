SPECIFICATION FairSpec
CONSTANTS
    Conns = {k1, k2}
    None = None
    Addresses <- TwoServers
    Reachable <- LastAddress
    MaxRestarts = 2
    MaxTroubles = 1
CHECK_DEADLOCK FALSE
INVARIANTS NeverStranded TimerCoversAttempt OwnedOnce WaitingFetched
PROPERTY ComesTogether
