SPECIFICATION FairSpec
CONSTANTS
    a1 = a1
    c1 = c1
    c2 = c2
    s1 = s1
    Agents = {a1}
    Conns = {c1, c2}
    AgentOf <- OneAgentOf
    NoConn = NoConn
    Callers = {s1}
    sendChanSize = 1
    MaxSends = 1
INVARIANTS
    OpenIffRegistered
PROPERTIES ClosedGoesAway GoneIsUnregistered
CHECK_DEADLOCK FALSE
