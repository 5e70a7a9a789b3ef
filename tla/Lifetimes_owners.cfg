SPECIFICATION Spec
CONSTANTS
    MaxConns = 4
    MaxId = 2
INVARIANTS WatchedIffOpen ClosedForgotten
PROPERTIES DropNeedsCollision EndsTogether
CHECK_DEADLOCK FALSE
