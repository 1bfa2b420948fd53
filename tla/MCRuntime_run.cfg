CONSTANTS
    MaxTimers = 3
    Timeouts = {2}
    Threads = {"worker", "logic", "disk"}
    PoolOf <- MCPoolOf
    Tasks <- MCTasks
    MaxTasks = 1
    MaxOps = 1
    MaxTime = 3
SPECIFICATION FairSpec
INVARIANTS
    TimerIsAlive
    ZeroMeansDue
    StopOrder
PROPERTIES
    TimerLeaves
    CloseEnds
CHECK_DEADLOCK FALSE
