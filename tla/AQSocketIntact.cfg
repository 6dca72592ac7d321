CONSTANTS
    w1 = w1
    w2 = w2
    c1 = c1
    q = q
    Writers <- MCWriters
    Closers <- MCClosers
    QThread = q
    WriteLen = 2
    MaxCalls = 2
    MaxIncoming = 1
SPECIFICATION Spec
CHECK_DEADLOCK FALSE
INVARIANT
    WrittenIntact
