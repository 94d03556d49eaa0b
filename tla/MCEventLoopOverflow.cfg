SPECIFICATION Spec
CONSTANTS
    UINT64_MAX = 15
    INT_MAX = 2
    NS_PER_MS = 1
    MaxSources = 2
    Sockets = {}
    WakeSocket = wake
    Kinds = {"timer"}
    Delays = {1}
    Intervals = {16}
    PROCESS_MS = 1
    FILE_MS = 1
    MIN_CAPACITY = 1
    MAX_EVENTS = 2
    MaxQueue = 1
    Threads = {}
    MaxCalls = 0
    MaxClock = 1
PROPERTY
    RepeatingTimersAdvance
