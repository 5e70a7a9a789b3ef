SPECIFICATION StreamFairSpec
CONSTANTS
    Capacity = 3
    MaxMsgs = 3
    MaxLen = 4
INVARIANTS RepeatBound RunsFromStart
PROPERTY SendReturns
CHECK_DEADLOCK FALSE
