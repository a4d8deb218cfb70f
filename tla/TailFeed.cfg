SPECIFICATION Spec
CONSTANTS
    Topics = {a}
    a = a
    Torn = torn
    NoTopic = none
    OtherViews = {}
    ChanCap = 1
    MaxLines = 2
    MaxSessions = 2
    MaxOffset = 2
    MaxOpens = 1
CHECK_DEADLOCK FALSE
INVARIANTS TypeOK OneLiveSession PumpAlive ShownOnce
PROPERTY ImplementsFeed
