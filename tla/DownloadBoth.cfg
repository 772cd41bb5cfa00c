SPECIFICATION Spec
CONSTANTS
    MaxChunksPerTurn = 2
    ClipboardEnd = 2
    Sizes = {1, 3}
    Limit = 3
    MaxContents = 3
    MaxEnters = 2
    MaxBreaks = 1
CHECK_DEADLOCK FALSE
INVARIANTS NeverCorrupt
PROPERTY DeliverySpec
