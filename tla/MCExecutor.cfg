SPECIFICATION FairSpec
CONSTANTS
    MaxOutput = 3
    PipeSize = 1
    BufSize = 1
    MaxArg = 3
    MaxArgs = 2
    CmdlineMax = 12
INVARIANTS
    TypeOK
    CleanReturn
    TruthfulResult
    ArgumentsArrive
PROPERTIES
    DeadlineEnds
    EndIsNoticed
CHECK_DEADLOCK FALSE
