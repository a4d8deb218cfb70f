SPECIFICATION Spec
CONSTANTS
    CLIs <- MCCLIs
    Disks <- MCDisks
    MaxSwitches = 2
    Partitions = {p1}
    Brokers = {b1, b2}
    MaxOffset = 2
    MaxMoves = 1
INVARIANTS TypeOK ClientsAreShown OwnCredentials NeverUndercounts SizesAgree
CHECK_DEADLOCK FALSE
