SPECIFICATION Spec
CONSTANTS
    Writes = {}
    Txns = {t1, t2}
    Reads = {zone}
    Above = {}
    Counter = stock
    FirstNodes <- MissingOrAtZero
    MaxTries = 2
    MaxReads = 1
    MaxBreaks = 0
    MaxDenials = 0
    MaxForeign = 1
INVARIANT
    NothingOverwritten
CHECK_DEADLOCK FALSE
