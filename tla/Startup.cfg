SPECIFICATION StartupSpec
CONSTANTS
    Absent = Absent
    Bad = Bad
    Empty = Empty
    Unreadable = Unreadable
    ServerFiles <- MCServerFiles
    ClientFiles <- MCClientFiles
    Answers <- MCAnswers
    Timeout = 2
INVARIANTS
    AllOrNothing
    FailureStops
    TwoTimeouts
PROPERTIES
    ComesUpOrEnds
CHECK_DEADLOCK FALSE
