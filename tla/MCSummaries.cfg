SPECIFICATION LiveFairSpec
CONSTANTS
    c1 = c1
    c2 = c2
    Convs <- MCConvs
    Messages <- MCMessages
    Arrivals <- MCArrivals
    Internal = {c1}
    MinRounds = 1
    MinChildren = 2
    MaxLevel = 3
    MaxInput = 2
    Mishaps <- MCMishaps
INVARIANTS
    InputOnce
    
    PeersAccept
PROPERTIES
    DueIsSummarised
