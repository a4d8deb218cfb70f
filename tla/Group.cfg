SPECIFICATION Spec
CONSTANTS
    Partitions = {p1, p2}
    p1 = p1
    p2 = p2
    LogEnd = 2
    Starts <- GroupStarts
    MaxTroubles = 2
CHECK_DEADLOCK FALSE
SYMMETRY PartitionSymmetry
INVARIANTS TypeOK AtLeastOnce LockFreeBetweenCalls AtMostOnce CommittedWasAsked
PROPERTY CommitMonotone
