SPECIFICATION Spec
CONSTANTS
    Ids = {r1, r2}
    Zones = {north, south}
    Items = {rice, milk}
    None = None
    MaxRefreshes = 2
    InOrder = FALSE
SYMMETRY Symmetry
CHECK_DEADLOCK FALSE
INVARIANTS
    TypeOK
    JoinDeliversAll
    TableFollowsList
    SpinsForAReason
