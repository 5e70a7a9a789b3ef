SPECIFICATION FairSpec
CONSTANTS
    s1 = s1
    s2 = s2
    Services = {s1}
    Visitors = {1, 2}
    DataChannels = {11, 12}
    MaxClientStarts = 1
    MaxServerStarts = 1
    MaxBatch = 2
    Files <- OneFile
    TakenPorts = {}
    Faults = {}
PROPERTY VisitorServed
CHECK_DEADLOCK FALSE
