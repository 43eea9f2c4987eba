SPECIFICATION FairSpec
CONSTANTS
    Processes = {p1, p2}
    Memberships = {m1}
    Rests = {r1}
    Keyrings = {}
    None = None
    MaxUid = 2
    MaxTransitions = 1
    MaxRv = 3
    MaxOrphans = 1
PROPERTY
    LeadersCommit
CHECK_DEADLOCK FALSE
