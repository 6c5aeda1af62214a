CONSTANTS
    c = c
    C = C
    cpp = cpp
    c2 = c2
    c22 = c22
    Names <- MCNames
    CaseKey <- MCCaseKey
    SlugFor <- MCSlugFor
    MaxAttempts = 2
    MaxNames = 2
    Entered <- MCEntered
    Requests = {r1, r2}
SPECIFICATION Spec
PROPERTY EverySubmissionEnds
