CONSTANTS
    r1 = r1
    r2 = r2
    Repeating = {r1, r2}
    OneShot = {o1}
    Period <- MCPeriod
    Delays = {0, 3}
    None = None
    MAX_EVENTS = 3
    DEC_IDLE = 2
    MAX_EXCEPTION_RECURSION = 3
    MaxLate = 1
    DecSticky = TRUE
    IdleExpires = TRUE
    CancelScope = "self"
SPECIFICATION FairSpec
INVARIANT OrderKept
INVARIANT NoLostEvent
INVARIANT CancelledStaysOut
PROPERTY CalendarSpec
PROPERTY QueuedIsCalled
CHECK_DEADLOCK FALSE
