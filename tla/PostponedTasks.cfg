SPECIFICATION PostponeFairSpec
CONSTANTS
    t1 = t1
    t2 = t2
    Uuids <- MCTasks
    Timeout = 2
    LastPostpone = 2
    MaxTime = 5
    MaxEarly = 2
INVARIANTS
    DeadlineKept
    EarlyCallbackFound
PROPERTIES
    NoEarlyExpiry
    PostponementEnds
CHECK_DEADLOCK FALSE
