SPECIFICATION FairSpec
CONSTANTS
    Sessions = {s1}
    MaxFailures = 2
INVARIANTS
    EndedStaysEnded
PROPERTIES
    NoLoneConnection
    Unblocks
CHECK_DEADLOCK FALSE
