SPECIFICATION InputSpec
CONSTANTS
    Packets <- FivePackets
    Header = 2
    MaxMessages = 2
    MaxBytes = 2
CHECK_DEADLOCK FALSE
INVARIANTS EndComesLast
PROPERTIES AllHandled EndSignalled
