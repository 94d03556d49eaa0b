SPECIFICATION FairSpec
CONSTANTS
    MaxFd = 5
    StdOpen = {0, 1, 2}
    Files = {0, 1, 2}
    Capacity = 1
    Items = 2
    OtherThread = TRUE
    Faults = {"pipe", "start", "setup", "waitpid"}
    Chars = {"a", "space", "backslash", "quote"}
    MaxLength = 3
    MaxArguments = 2
    PathChars = {"a", "space", "backslash"}
    MaxPath = 2
    Codes = {0, 1, 143}
    MaxBytes = 3
INVARIANTS
    StagesConnected
    PipelineSound
    CommandLineSound
    OneTrueExitCode
    EofMeansAll
    SignalsOwnChild
PROPERTY
    PipelineReturns
