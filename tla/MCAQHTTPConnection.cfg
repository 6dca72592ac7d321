CONSTANTS
    Requests = 2
    Missing <- MCMissing
    Fatal <- MCFatal
SPECIFICATION FairSpec
CHECK_DEADLOCK FALSE
INVARIANTS
    FragmentsInOrder
    OperationsInOrder
    ArmedMeansIdle
PROPERTIES
    RootWaits
    OperationsFinish
    NoLostWakeup
    DisconnectIsNoticed
