SPECIFICATION Spec
CONSTANTS
    a = a
    b = b
    c1 = c1
    c2 = c2
    Nodes <- MCNodes
    Messages <- TwoMessages
    Summaries <- OneSummary
    Excludable = {c2}
    MaxRecords = 2
    MaxSummaries = 1
    PageLimit = 1
    MaxBatches = 1
    MaxCrashes = 1
INVARIANTS
    AcknowledgedIsCommitted
    ReplicaHasNoGap
    PeerAcknowledgedMeansDelivered
