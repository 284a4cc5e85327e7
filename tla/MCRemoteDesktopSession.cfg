SPECIFICATION RdFairSpec
CONSTANTS
    RdSessions = {s1, s2, s3}
    NULL = NULL
INVARIANTS
    OneSession
    EndsClean
PROPERTIES
    SessionsEnd
    StopEndsSession
CHECK_DEADLOCK FALSE
