SPECIFICATION Spec
CONSTANTS
    Channels = {1, 2, 3, 4}
    Fds = {1, 2, 3, 4, 5}
    NULL = NULL
INVARIANTS
    NoLeak
    OwnFilesOnly
PROPERTIES
    EndsReleased
CHECK_DEADLOCK FALSE
