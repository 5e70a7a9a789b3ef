SPECIFICATION Spec
CONSTANTS
    MaxConns = 3
    MaxId = 2
INVARIANTS DispatchedAlive
CHECK_DEADLOCK FALSE
