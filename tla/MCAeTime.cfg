\* Three timers, and an address that is used twice.
CONSTANTS
    Node = {n1, n2, n3}
    NULL = NULL
    MaxTimers = 3
    MaxNow = 1
    Delays = {0, 1}
    TicksPerSecond = 1
    SetBack = TRUE
SPECIFICATION FairSpec
INVARIANTS
    CursorIsAllocated
    SleepDelaysNoTimer
    FinalizedWhenFreed
PROPERTIES
    DueTimerFires
