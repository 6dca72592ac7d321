CONSTANTS
    Requests = 2
    Missing <- MCMissing
    Fatal <- MCFatal
SPECIFICATION Spec
CHECK_DEADLOCK FALSE
INVARIANT
    EveryRequestQueued
