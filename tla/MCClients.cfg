SPECIFICATION FairSpec
CONSTANTS
    Objects = {o1, o2, o3}
    Kinds = {"log", "diag", "trace"}
    Emitters = {e1}
    MaxInstalls = 5
    Fds = {1, 2}
    MaxSources = 3
    Size = 2
INVARIANTS
    ReleasedOnce
    Sealed
    CallsCurrent
    GuardsRemoveTheirHooks
    PointersLive
    DispatchedAsAsked
    TcpCheckSound
PROPERTY
    RunEnds
CHECK_DEADLOCK FALSE
