SPECIFICATION FairSpec
CONSTANTS
    UINT64_MAX = 31
    INT_MAX = 1
    NS_PER_MS = 1
    MaxSources = 3
    Sockets = {s1}
    WakeSocket = wake
    Kinds = {"socket", "timer", "process"}
    Delays = {1}
    Intervals = {1}
    PROCESS_MS = 1
    FILE_MS = 1
    MIN_CAPACITY = 8
    MAX_EVENTS = 2
    MaxQueue = 1
    Threads = {t1}
    MaxCalls = 1
    MaxClock = 2
PROPERTIES
    StopEndsRun
    DueSourceServed
    ChildExitReported
