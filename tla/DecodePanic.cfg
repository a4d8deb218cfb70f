CONSTANTS
    Callers = {c1}
    Records <- MCRecords
    Type <- MCType
    References <- MCReferences
    FileName <- MCFileName
    MaxCap = 100
    Messages <- MCMessages
    Configured = {TRUE}
    MaxFaults = 1
SPECIFICATION Spec
INVARIANTS NeverPanics
CHECK_DEADLOCK FALSE
