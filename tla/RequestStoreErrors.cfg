SPECIFICATION Spec
CONSTANTS
    Ids = {r1}
    Statuses = {sent, prep}
    Locales = {en, zh}
    Objs = {o1, o2, o3}
    Absent = Absent
    MaxFetchErrors = 2
SYMMETRY Symmetry
INVARIANTS
    DuplicatesHeal
