CONSTANTS
    Spines <- MCSpines
    None = None
    MaxRequests = 4
SPECIFICATION Spec
CHECK_DEADLOCK FALSE
INVARIANTS
    SpreadIsShown
PROPERTIES
    LatestIsAnnounced
    PagesTurn
