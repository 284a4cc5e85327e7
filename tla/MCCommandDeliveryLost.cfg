SPECIFICATION Spec
CONSTANTS
    NumCmds = 2
    NumConns = 2
    sendChanSize = 3
    MaxFailures = 0
INVARIANT SentReachesAgent
CHECK_DEADLOCK FALSE
