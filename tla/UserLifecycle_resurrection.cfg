CONSTANTS
    u1 = u1
    u2 = u2
    bob = bob
    Bob = Bob
    del1 = del1
    Del1 = Del1
    del2 = del2
    Nobody = Nobody
    NoName = NoName
    Users <- MCUsers
    Names <- MCNames
    CaseKey <- MCCaseKey
    Tombstone <- MCTombstone
    Requests = {r1, r2}
SPECIFICATION Spec
\* Two administrators who suspend each other leave nobody to act.
CHECK_DEADLOCK FALSE
SYMMETRY Symmetry
PROPERTY DeletedIsTerminal
