CONSTANTS
    w1 = w1
    w2 = w2
    a = a
    b = b
    None = None
    Workers <- MCWorkers
    Closures <- MCClosures
    MaxTime = 2
SPECIFICATION FairSpec
CHECK_DEADLOCK FALSE
INVARIANTS
    NothingLost
    NotEarly
PROPERTIES
    ClosuresRun
    DestructorReturns
