SPECIFICATION FairSpec
CONSTANTS
    MaxSize = 3
    SIZE_MAX = 3
    Faults = {"calloc", "strdup", "thread", "open", "fstat", "malloc", "read"}
    Sizes = {0, 1, 2}
    MaxTime = 3
    Names = {"a", "b", "c"}
    TooLong = {"c"}
    Handles = {h1, h2}
    MaxFile = 3
    Letters = {"a"}
    MaxPath = 3
INVARIANTS
    AsyncReadMemory
    AsyncReadResult
    ChangesReported
    ListingSound
    OpenFilesSafe
    JoinedInside
PROPERTY
    WaitEnds
