SPECIFICATION FairSpec
CONSTANTS
    UINT64_MAX = 31
    INT_MAX = 2
    NS_PER_MS = 1
    MaxSources = 2
    Sockets = {s1}
    WakeSocket = wake
    Kinds = {"socket"}
    Delays = {1}
    Intervals = {0, 1}
    PROCESS_MS = 1
    FILE_MS = 1
    MIN_CAPACITY = 1
    MAX_EVENTS = 2
    MaxQueue = 1
    Threads = {t1}
    MaxCalls = 1
    MaxClock = 0
PROPERTY
    CancelStopsLoop
