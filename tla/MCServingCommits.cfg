SPECIFICATION Spec
CONSTANTS
    Processes = {}
    Memberships = {m1}
    Rests = {r1}
    Keyrings = {k1, k2}
    None = None
    Followers = {f1}
    Freshness = 1
    Timeout = 0
    Tampering = FALSE
    MaxRv = 3
PROPERTY
    CommitsNeverClose
