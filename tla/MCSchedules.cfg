SPECIFICATION ScheduleFairSpec
CONSTANTS
    a1 = a1
    a2 = a2
    TargetAgents = {a1, a2}
    Periods = {1, 2}
    MaxTime = 4
    MaxFaults = 1
    MaxEdits = 1
    Once = Once
    Impossible = Impossible
    Invalid = Invalid
INVARIANTS
    OnePerDate
PROPERTIES
    NotDueAfterFiring
    DueIsHandled
CHECK_DEADLOCK FALSE
