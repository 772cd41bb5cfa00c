SPECIFICATION Spec
CONSTANTS
    MaxChunksPerTurn = 2
    ClipboardEnd = 2
    Sizes = {1, 3}
    Limits <- Growing
    MaxContents = 3
    MaxLeaves = 2
CHECK_DEADLOCK FALSE
INVARIANTS NeverRefused GrabsArrive
PROPERTY DeliverySpec
