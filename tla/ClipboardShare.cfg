SPECIFICATION Spec
CONSTANTS
    Clients = {c1, c2}
    Primary = Primary
    MaxCopies = 3
    MaxSwitches = 4
    MaxDrops = 1
    Paced = {3}
    Oversized = {2}
    Background = FALSE
SYMMETRY ClientSymmetry
CONSTRAINTS DropsReplace ShortQueues
CHECK_DEADLOCK FALSE
INVARIANTS ExpectedClient ActiveUpToDate OwnershipAgrees OversizedStays
PROPERTY NeverOlder
