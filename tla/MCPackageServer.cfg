CONSTANTS
    c1 = c1
    c2 = c2
    Connections <- MCConnections
    MaxServers = 2
    MaxReads = 1
SPECIFICATION FairSpec
CHECK_DEADLOCK FALSE
INVARIANTS
    ReadsExclusive
    LookupIsNotStale
PROPERTIES
    ReadersGetThrough
    ClosedIsForgotten
