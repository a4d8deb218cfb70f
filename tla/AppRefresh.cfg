SPECIFICATION FairSpec
CONSTANTS
    Lists = {"topics", "groups"}
    Topics = {a}
    a = a
    None = none
    MaxClients = 2
    MaxOutstanding = 2
CHECK_DEADLOCK FALSE
INVARIANTS TypeOK RefreshAlive PauseIsSaid ClientsAccounted TabsAlive
PROPERTY ListCatchesUp
