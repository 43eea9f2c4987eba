SPECIFICATION Spec
CONSTANTS
    Processes = {p1, p2}
    Memberships = {m1}
    Rests = {r1}
    Keyrings = {}
    None = None
    MaxUid = 2
    MaxTransitions = 2
    MaxRv = 4
    MaxOrphans = 1
SYMMETRY Symmetry
INVARIANTS
    
    LiveNeverFenced
PROPERTY
    RefinesStateLog
CHECK_DEADLOCK FALSE
