CONSTANTS
    Files = {f1, f2}
    Times <- MCTimes
    None = None
    MAX_SEEK_RETRIES = 1
    MaxSkips = 0
    MaxCommands = 3
SPECIFICATION Spec
CHECK_DEADLOCK FALSE
INVARIANTS
    SourceSettles
    EndsItsOwnSeek
    PauseHolds
    NothingLeftBehind
PROPERTIES
    SeekEnds
