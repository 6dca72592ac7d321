CONSTANTS
    Size = 3
    Chunk = 2
    None = None
    Headers <- MCHeaders
SPECIFICATION FairSpec
CHECK_DEADLOCK FALSE
INVARIANTS
    BodyIsAsked
    LengthHonest
    StreamedOnlyAsked
PROPERTIES
    ResponseEnds
