SPECIFICATION Spec
CONSTANTS
    MaxFd = 5
    StdOpen = {1, 2}
    Files = {}
    Capacity = 1
    Items = 2
    OtherThread = FALSE
    Faults = {}
INVARIANT
    StagesConnected
