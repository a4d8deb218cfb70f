SPECIFICATION Spec
CONSTANTS
    Partitions = {p1}
    p1 = p1
    LogEnd = 2
    Starts <- SkippingStarts
    MaxTroubles = 2
CHECK_DEADLOCK FALSE
INVARIANT SkippedIsNotCommitted
