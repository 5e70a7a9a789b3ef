SPECIFICATION Spec
CONSTANTS
    Strings <- MCStrings
    Ports = {0}
    NULL = NULL
    None = None
    Nonce <- MCNonce
    MaxUp = 3
    MaxDown = 2
INVARIANTS
    InOrder
    NothingLost
PROPERTIES
    AllArrives
    LeavingTearsDown
CHECK_DEADLOCK FALSE
