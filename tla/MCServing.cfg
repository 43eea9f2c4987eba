SPECIFICATION Spec
CONSTANTS
    Processes = {}
    Memberships = {m1}
    Rests = {r1, r2}
    Keyrings = {k1}
    None = None
    Followers = {f1}
    Freshness = 3
    Timeout = 1
    Tampering = TRUE
    MaxRv = 3
SYMMETRY Symmetry
INVARIANT
    BoundedStaleness
PROPERTY
    PublicationsNeverClose
