SPECIFICATION AccountsFairSpec
CONSTANTS
    ann = ann
    sam = sam
    nil = nil
    Users <- MCUsers
    Role <- MCRole
    Attempts = {a1, a2}
    None = None
    MaxRefreshes = 1
INVARIANTS
    TypeOK
    WrongRoleIsBeingChecked
    LandingIsForElderly
    OwnRequestsOnly
PROPERTY
    SpinnerStops
