SPECIFICATION HSpec
CONSTANTS
    Ids = {r1, r2}
    Statuses = {sent, prep}
    Locales = {en}
    Objs = {o1, o2}
    Absent = Absent
    MaxFetchErrors = 0
PROPERTIES
    ImplementsShownRequests
    UpdateTerminates
