SPECIFICATION Calls
CONSTANTS
    Objs = {a, b}
    Strings <- MCStrings
    Ports = {0, 300}
    NULL = NULL
    None = None
INVARIANTS
    HasBitsSound
    SizeExact
    ParseMerges
    FramesReadWhole
    CommandsCross
PROPERTIES
    ImplementsValue
