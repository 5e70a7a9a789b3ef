SPECIFICATION StreamSpec
CONSTANTS
    Capacity = 3
    MaxMsgs = 2
    MaxLen = 4
INVARIANT StreamIntact
CHECK_DEADLOCK FALSE
