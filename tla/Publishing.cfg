CONSTANTS
    Callers = {c1, c2}
    Kinds = {"none", "basic", "memory", "holding"}
    Attempts = 5
    Answers = {16, 23}
    IDModulus = 16
    MaxMsgs = 3
    MaxFails = 2
SPECIFICATION Spec
INVARIANTS TypeOK Accounted FramedAsAnswered OneConsumer
PROPERTIES ImplementsProducer CloseStops
CHECK_DEADLOCK FALSE
