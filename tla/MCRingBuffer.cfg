CONSTANTS
    Capacity = 4
    Bytes <- MCBytes
    MaxCall = 5
SPECIFICATION RingSpec
CHECK_DEADLOCK FALSE
INVARIANTS
    PositionsAgree
PROPERTIES
    StaysInMemory
    QueueOfBytes
