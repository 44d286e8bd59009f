SPECIFICATION Spec
CONSTANTS
    Writes = {store}
    Txns = {t1, t2}
    Reads = {item}
    Above = {item}
    Counter = stock
    FirstNodes <- NoNode
    MaxTries = 2
    MaxReads = 1
    MaxBreaks = 1
    MaxDenials = 1
    MaxForeign = 1
SYMMETRY Symmetry
INVARIANTS
    TypeOK
    OverwrittenOnlyWhenOvertaken
PROPERTY
    ImplementsContract
CHECK_DEADLOCK FALSE
