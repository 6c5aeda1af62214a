CONSTANTS
    e1 = e1
    e2 = e2
    i1 = i1
    i2 = i2
    p1 = p1
    Users = {u1, u2}
    Emails <- MCEmails
    Ids <- MCIds
    Providers <- MCProviders
    Provider <- MCProvider
    Email <- MCEmail
    Flows = {f1, f2}
    Keys = {k1, k2, k3}
    Requests = {r1, r2}
    MaxOverlaps = 3
    None = None
SPECIFICATION Spec
SYMMETRY Symmetry
INVARIANT StateUsedOnce
INVARIANT LastFlowCanFinish
PROPERTY LinkedAsAsked
