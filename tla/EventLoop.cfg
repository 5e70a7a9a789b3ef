SPECIFICATION FairSpec
CONSTANTS
    main = main
    worker1 = worker1
    worker2 = worker2
    NoThread = NoThread
    Threads = {main, worker1, worker2}
    Loop = main
    MaxPosts <- Posts
INVARIANTS NoLostWakeup EveryTaskOnce PostersInOrder
PROPERTIES OneStrayAtMost TaskEventuallyRuns StopEventuallySeen
CHECK_DEADLOCK FALSE
