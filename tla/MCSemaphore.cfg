SPECIFICATION FairSpec
CONSTANTS
    Threads = {a, b, c}
    InitialCount = 0
    UINT_MAX = 2
    MaxCalls = 2
    Faults = {"wait", "signal"}
    NoThread = none
INVARIANTS
    NoLostWakeup
    NoUseAfterDestroy
PROPERTIES
    ImplementsCountingSemaphore
    NoStrandedWaiter
