SPECIFICATION Spec
CONSTANTS
    UINT64_MAX = 31
    INT_MAX = 1
    NS_PER_MS = 2
    MaxSources = 3
    Sockets = {}
    WakeSocket = wake
    Kinds = {"timer", "process", "file"}
    Delays = {0, 1}
    Intervals = {0, 1, 2}
    PROCESS_MS = 1
    FILE_MS = 1
    MIN_CAPACITY = 1
    MAX_EVENTS = 2
    MaxQueue = 1
    Threads = {}
    MaxCalls = 0
    MaxClock = 5
INVARIANTS
    PassLeavesNothingDue
    WaitEndsWithNextDue
    CompletesOnce
