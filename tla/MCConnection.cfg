CONSTANTS
    Senders = {s1}
    WSS = WSS
    NoMsg = NoMsg
    LEO_SEND_QUEUE_DEPTH = 2
    LEO_RECONNECT_INIT = 1
    LEO_RECONNECT_STEP = 1
    LEO_RECONNECT_MAX = 2
    MaxSends = 2
    MaxReceives = 1
    MaxContexts = 2
SPECIFICATION FairSpec
INVARIANTS
    NoLostWakeup FreedOnlyAfterExit
PROPERTIES
    ImplementsChannel QueuedIsWritten StopCompletes
CHECK_DEADLOCK FALSE
