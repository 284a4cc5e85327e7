SPECIFICATION FairSpec
CONSTANTS
    Machines = {m1, m2}
    Tokens = {t1}
    Requests = {r1, r2}
    MaxAgents = 1
    None = None
    Truncated = Truncated
INVARIANTS
    NoMixedIdentity
    IdentityIsKnown
PROPERTIES
    StartEnds
CHECK_DEADLOCK FALSE
