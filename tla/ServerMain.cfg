SPECIFICATION FairSpec
CONSTANTS
    Clients = {c1, c2, c3}
    Names = {"laptop", "tablet"}
    Primary = "desk"
    Null = Null
    NoName = NoName
    Directions <- MCDirections
    NoDirection = NoDirection
    Rank <- MCRank
    InitialConfig <- AllThree
    Configs <- Dropping
    SwitchDelay = FALSE
    TwoTap = FALSE
    LockedCorners = TRUE
    DisableLock = FALSE
    RelativeMoves = TRUE
    MayRefuseLeave = FALSE
    ScreenSaver = TRUE
    InputDuringSaver = FALSE
INVARIANTS TypeOK ActiveConnected OneEntered Membership CursorOnActive NoFault SaverTargetConnected
PROPERTY DisconnectAnswered
