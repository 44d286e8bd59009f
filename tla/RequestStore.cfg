SPECIFICATION Spec
CONSTANTS
    Ids = {r1, r2}
    Statuses = {sent, prep}
    Locales = {en, zh}
    Objs = {o1, o2, o3}
    Absent = Absent
    MaxFetchErrors = 0
SYMMETRY Symmetry
INVARIANTS
    TypeOK
    NoDuplicateRequests
    SyncedMirrorsFetched
    BadgeTellsNews
    SavedLocaleTellsTruth
