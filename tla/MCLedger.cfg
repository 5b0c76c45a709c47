SPECIFICATION FairSpec
CONSTANTS
    Events = {e1, e2}
    Clients = {a1}
    BackfillLimit = 2
    PageLimit = 2
    MaxLog = 4
    MaxDepth = 2
    MaxFaults = 2
PROPERTIES FeedSpec EveryEventArrives
CHECK_DEADLOCK FALSE
