SPECIFICATION FairSpec
CONSTANTS
    Clients = {ann, bob}
    Items = {rice}
    Zones = {north, south}
    Qtys = {0, 2}
    MaxOrders = 2
    MaxOpened = 2
    MaxResent = 1
INVARIANTS
    TypeOK
    ResultTellsTruth
    HungSentNothing
    NoDanglingLink
    CountersNeverExceed
    CountersSettle
PROPERTY
    SendCompletes
