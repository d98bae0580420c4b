\* Four clients, pages of up to three and an offset that is refused.
SPECIFICATION FairSpec
CONSTANTS
    ClientIds = {1, 2, 3, 4}
    MaxOffset = 2
    MaxLimit = 3
    Asked = {0, 1, 2, 3}
    MaxChanges = 2
    MaxPages = 6
    None = None
INVARIANTS
    NextMissesNobody
    NextRepeatsNobody
    PrevMissesNobody
    TotalPagesIsTrue
PROPERTY
    WalkEnds
