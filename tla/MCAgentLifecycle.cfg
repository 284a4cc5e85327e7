SPECIFICATION FairSpec
CONSTANTS
    c1 = c1
    c2 = c2
    Cmds = {c1, c2}
    KindsOf <- MCKindsOf
    NoCmd = NoCmd
    LEO_EXEC_MAX_CONCURRENT = 1
INVARIANTS
    SlotsMatchThreads
    AnsweredOnce
PROPERTIES
    CommandsEnd
    StopReturns
    ForcedIsTaken
CHECK_DEADLOCK FALSE
