SPECIFICATION Spec
CONSTANTS
    UINT64_MAX = 15
    INT_MAX = 2
    NS_PER_MS = 2
    MaxSources = 4
    Sockets = {s1, s2}
    WakeSocket = wake
    Kinds = {"socket", "timer"}
    Delays = {1}
    Intervals = {0}
    PROCESS_MS = 1
    FILE_MS = 1
    MIN_CAPACITY = 1
    MAX_EVENTS = 2
    MaxQueue = 1
    Threads = {t1}
    MaxCalls = 1
    MaxClock = 2
SYMMETRY Symmetric
INVARIANTS
    NoUseAfterFree
    FreedExactlyOnce
    RegistrationsMatch
    StopNeverSleeps
PROPERTY
    RemovedNeverDispatched
