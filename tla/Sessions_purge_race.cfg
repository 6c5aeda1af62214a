CONSTANTS
    Users = {u1, u2}
    Keys = {k1, k2, k3}
    Requests = {r1, r2}
    None = None
    MayCrash = FALSE
SPECIFICATION Spec
\* Once every account is deleted nobody is left to make a request.
CHECK_DEADLOCK FALSE
SYMMETRY Symmetry
INVARIANT InactiveHasNoSession
