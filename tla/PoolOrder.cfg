CONSTANTS
    w1 = w1
    w2 = w2
    a = a
    b = b
    None = None
    Workers <- MCWorkers
    Closures <- MCClosures
    MaxTime = 2
SPECIFICATION Spec
CHECK_DEADLOCK FALSE
PROPERTY
    EarliestFirst
