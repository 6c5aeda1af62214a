CONSTANTS
    t1 = t1
    t2 = t2
    a = a
    b = b
    c = c
    Posts = {p1, p2}
    Texts <- MCTexts
    Labels <- MCLabels
    LabelsOf <- MCLabelsOf
    Requests = {r1, r2, r3}
    None = None
SPECIFICATION Spec
SYMMETRY Symmetry
INVARIANT WholeSubmission
INVARIANT SearchFindsText
PROPERTY ImplementsBoard
