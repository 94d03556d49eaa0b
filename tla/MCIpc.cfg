SPECIFICATION IpcSpec
CONSTANTS
    Names <- NamesModel
    NAME_BUFFER = 3
    Procs = {p, q}
    Sizes = {1, 2}
    MaxObjects = 2
    Initial = {0, 1}
    SEM_VALUE_MAX = 1
    MaxSemaphores = 2
SYMMETRY Symmetric
INVARIANTS
    RegionsWhole
    PermitsConserved
PROPERTY
    NameKept
