SPECIFICATION Spec
CONSTANTS
    a = a
    b = b
    c1 = c1
    c2 = c2
    Nodes <- MCNodes
    Messages <- ThreeMessages
    Summaries <- NoSummary
    Excludable = {c1}
    MaxRecords = 1
    MaxSummaries = 1
    PageLimit = 1
    MaxBatches = 1
    MaxCrashes = 1
INVARIANTS
    RetryingCreatesNoGap
