SPECIFICATION FairSpec
CONSTANTS
    Writes = {store}
    Txns = {t1}
    Reads = {zone}
    Above = {}
    Counter = stock
    FirstNodes <- AtZero
    MaxTries = 2
    MaxReads = 1
    MaxBreaks = 1
    MaxDenials = 1
    MaxForeign = 1
PROPERTY
    CallsAnswered
CHECK_DEADLOCK FALSE
