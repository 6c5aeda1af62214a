CONSTANTS
    Requests = {r1, r2}
    Limit = 2
    WindowSeconds = 2
    TicksPerSecond = 2
    None = None
SPECIFICATION Spec
PROPERTY LockoutEnds
