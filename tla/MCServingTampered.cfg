SPECIFICATION Spec
CONSTANTS
    Processes = {}
    Memberships = {m1}
    Rests = {r1}
    Keyrings = {k1, k2}
    None = None
    Followers = {f1, f2}
    Freshness = 1
    Timeout = 0
    Tampering = TRUE
    MaxRv = 4
SYMMETRY Symmetry
INVARIANTS
    TypeOK
    BundleMatches
PROPERTY
    HighWaterRises
