CONSTANTS
    Callers = {c1, c2}
    Records <- MCRecords
    Type <- MCType
    References <- MCReferences
    FileName <- MCFileName
    MaxCap = 100
    Messages <- MCMessages
    Configured = {TRUE, FALSE}
    MaxFaults = 1
SPECIFICATION FairSpec
INVARIANTS TypeOK ShownAsSent ImportsComplete ErrorsHaveCause StripUndoesPrepend
PROPERTY DecodeReturns
CHECK_DEADLOCK FALSE
