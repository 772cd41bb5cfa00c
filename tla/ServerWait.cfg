SPECIFICATION Spec
CONSTANTS
    Clients = {c1, c2}
    Names = {"laptop", "tablet"}
    Primary = "desk"
    Null = Null
    NoName = NoName
    Directions <- MCDirections
    NoDirection = NoDirection
    Rank <- MCRank
    InitialConfig <- AllThree
    Configs <- Dropping
    SwitchDelay = TRUE
    TwoTap = TRUE
    LockedCorners = TRUE
    DisableLock = FALSE
    RelativeMoves = FALSE
    MayRefuseLeave = TRUE
    ScreenSaver = TRUE
    InputDuringSaver = TRUE
SYMMETRY ClientSymmetry
CHECK_DEADLOCK FALSE
INVARIANT PendingHasTarget
PROPERTY LockHolds
