SPECIFICATION Spec
CONSTANTS
    Lists = {"topics"}
    Topics = {a, b}
    a = a
    b = b
    None = none
    MaxClients = 1
    MaxOutstanding = 3
CHECK_DEADLOCK FALSE
INVARIANT DetailIsOfTarget
