SPECIFICATION Spec
CONSTANTS
    Callers = {c1, c2}
    MaxConnectAttempts = 2
    MaxConns = 4
    MaxCalls = 3
    MaxFaults = 2
INVARIANTS
    SingleFlight
    HandlesAreAlive
    WaitersHaveAnAttempt
PROPERTY EveryCallEnds
CHECK_DEADLOCK FALSE
