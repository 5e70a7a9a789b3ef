SPECIFICATION FairSpec
CONSTANTS
    s1 = s1
    s2 = s2
    Services = {s1, s2}
    Visitors = {1, 2}
    DataChannels = {11, 12}
    MaxClientStarts = 2
    MaxServerStarts = 2
    MaxBatch = 2
    Files <- ThreeFiles
    TakenPorts = {6666}
    Faults = {"client_exits", "server_exits", "service_refuses", "visitor_leaves"}
INVARIANTS Pairing VisitorInOnePlace DeathHasCause
PROPERTIES BridgesFallWhole ServesInTurn ServedUnlessStuck BothEndsRelease
CHECK_DEADLOCK FALSE
