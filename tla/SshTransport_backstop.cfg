SPECIFICATION Spec
CONSTANTS
    Callers = {c1, c2}
    MaxConnectAttempts = 2
    MaxConns = 3
    MaxCalls = 3
    MaxFaults = 1
PROPERTY BackstopDropsItsOwn
CHECK_DEADLOCK FALSE
