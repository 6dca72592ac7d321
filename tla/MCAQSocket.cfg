CONSTANTS
    w1 = w1
    w2 = w2
    c1 = c1
    q = q
    Writers <- MCWriters
    Closers <- MCClosers
    QThread = q
    WriteLen = 2
    MaxCalls = 2
    MaxIncoming = 1
SPECIFICATION FairSpec
CHECK_DEADLOCK FALSE
INVARIANTS
    ClaimedChannelIsThere
    DescriptorClosedOnce
    SuccessCountsAllBytes
PROPERTIES
    DisconnectIsFinal
    EndIsReported
    OrderedWrites
    AcceptedIsSettled
