SPECIFICATION FairSpec
CONSTANTS
    Contenders = {c1, c2}
    None = None
    Duration = 2
    Freshness = 1
    MaxRv = 3
    MaxUid = 1
PROPERTY
    VacancyEnds
