SPECIFICATION Spec
CONSTANTS
    Processes = {p1, p2}
    Memberships = {m1, m2}
    Rests = {r1, r2}
    Keyrings = {k1}
    None = None
    MaxUid = 1
    MaxTransitions = 2
    MaxRv = 3
    MaxOrphans = 1
SYMMETRY Symmetry
PROPERTY
    RefinesStateLog
CHECK_DEADLOCK FALSE
