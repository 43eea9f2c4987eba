SPECIFICATION FairSpec
CONSTANTS
    Processes = {}
    Memberships = {m1}
    Rests = {r1, r2}
    Keyrings = {k1}
    None = None
    Followers = {f1}
    Freshness = 1
    Timeout = 0
    Tampering = TRUE
    MaxRv = 3
PROPERTY
    Recovers
