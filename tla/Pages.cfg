CONSTANTS
    g0 = g0
    g1 = g1
    g2 = g2
    g3 = g3
    o1 = o1
    o2 = o2
    u1 = u1
    u2 = u2
    u3 = u3
    Requests = {r1, r2}
    None = None
    Titles = {t1, t2}
    Texts = {x1, x2}
    SeedTitle = t2
    SeedText = x2
    Chunks = {c1}
    Syncs = {r1, r2}
    MaxEdits = 3
    Timeout = 1
    MaxDelay = 1
    Pages = {g0, g1, g2, g3}
    Self = g0
    Latest <- MCLatest
    Limit = 2
    Posts = {o1, o2}
    Users = {u1, u2, u3}
    Author <- MCAuthor
    MaxComments = 3
    TTL = 1
    MaxTime = 1
    MaxMarks = 1
    l1 = l1
    Documents = {d1, d2, d3}
    MaxChips = 1
    MaxMoves = 1
    Attempts = 2
    WindowSeconds = 2
    TicksPerSecond = 2
    n1 = n1
    N1 = N1
    n2 = n2
    n3 = n3
    s1 = s1
    s2 = s2
    s3 = s3
    Names <- MCNames
    CaseKey <- MCCaseKey
    SlugFor <- MCSlugFor
    MaxAttempts = 2
    MaxNames = 2
    Entered <- MCEntered
SPECIFICATION Spec
SYMMETRY Symmetry
\* A list of recommended pages is put together, and a bounded number of changes made.
CHECK_DEADLOCK FALSE
INVARIANT RowDescribesDocument
INVARIANT CurrentWhenCalm
INVARIANT EmbeddedWhenPossible
INVARIANT ShowsItsRevision
INVARIANT ListIsRight
INVARIANT ThreadsAreWhole
INVARIANT EachHearsOnce
INVARIANT ReportsForCause
INVARIANT ListsShowWhatOpens
INVARIANT AtMostOneTooMany
INVARIANT LabelsFollowChips
INVARIANT LimitIsKept
INVARIANT EntryEndsWithWindow
INVARIANT NamesUnique
PROPERTY GivesUpForCause
PROPERTY SavesAreSound
