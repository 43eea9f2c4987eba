SPECIFICATION Spec
CONSTANTS
    Contenders = {c1, c2}
    None = None
    Duration = 2
    Freshness = 2
    MaxRv = 4
    MaxUid = 2
SYMMETRY Symmetry
INVARIANTS
    TypeOK
    FreshMeansHeld
    OneFreshPrimary
    TermsUnique
PROPERTY
    RefinesLeaseTerms
