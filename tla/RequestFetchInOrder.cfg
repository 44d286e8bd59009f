SPECIFICATION FairSpec
CONSTANTS
    Ids = {r1, r2}
    Zones = {north, south}
    Items = {rice}
    None = None
    MaxRefreshes = 2
    InOrder = TRUE
CHECK_DEADLOCK FALSE
INVARIANT
    NewestWins
PROPERTY
    RefreshEnds
