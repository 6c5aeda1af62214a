CONSTANTS
    Notices = {n1, n2}
    Requests = {r1, r2}
    Timeout = 3
    Dedupe = 2
    MaxDelay = 1
    Never = Never
    None = None
SPECIFICATION Spec
INVARIANT WrongForCause
PROPERTY NoticesApart
PROPERTY HeldForCause
PROPERTY CountSettles
