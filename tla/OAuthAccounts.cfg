CONSTANTS
    google1 = google1
    google2 = google2
    Google = Google
    Users = {u1, u2}
    Emails = {e1, e2}
    Ids <- MCIds
    Providers = {Google}
    Provider <- MCProvider
    Requests = {r1, r2}
    None = None
SPECIFICATION Spec
INVARIANT LinksAreSound
PROPERTY ImplementsLinks
PROPERTY EveryTransactionEnds
