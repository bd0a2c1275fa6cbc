SPECIFICATION FairSpec
CONSTANTS
    a = a
    b = b
    c1 = c1
    c2 = c2
    Nodes <- MCNodes
    Messages <- TwoMessages
    Summaries <- OneSummary
    Excludable = {}
    MaxRecords = 2
    MaxSummaries = 1
    PageLimit = 2
    MaxBatches = 2
    MaxCrashes = 0
INVARIANTS
    HeadOfQueueAcceptable
PROPERTIES
    EverythingDelivered
    EveryPageAcknowledged
