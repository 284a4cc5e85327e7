SPECIFICATION Spec
CONSTANTS
    NumCmds = 2
    NumConns = 2
    sendChanSize = 1
    MaxFailures = 1
INVARIANTS
    NoneForgotten
    CopiesBounded
PROPERTY MarkedNotResent
CHECK_DEADLOCK FALSE
