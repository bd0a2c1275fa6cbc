SPECIFICATION FairSpec
CONSTANTS
    c1 = c1
    c2 = c2
    Bad = Bad
    Source <- MCSource
    Lines <- MCLines
    Convs <- MCConvs
    Internal = {c2}
    Events <- MCEvents
    Keep = 1
    Loads <- MCLoads
INVARIANTS
    CursorsCovered
    RoundsFresh
    NextPageAccepted
PROPERTIES
    EveryBlockImported
    DebtIsPaid
CHECK_DEADLOCK FALSE
