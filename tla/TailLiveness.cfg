SPECIFICATION FairSpec
CONSTANTS
    Topics = {a}
    a = a
    Torn = torn
    NoTopic = none
    OtherViews = {"groups"}
    ChanCap = 1
    MaxLines = 1
    MaxSessions = 1
    MaxOffset = 3
    MaxOpens = 1
CHECK_DEADLOCK FALSE
PROPERTIES FetchedIsHandled StoppedRunEnds
