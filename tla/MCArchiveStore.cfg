SPECIFICATION FairSpec
CONSTANTS
    c1 = c1
    c2 = c2
    w1 = w1
    w2 = w2
    Writers = {w1, w2}
    Convs <- MCConvs
    Messages <- MCMessages
    Chunks = 2
    MaxInterruptions = 2
INVARIANTS
    TypeOK
    RecoveryNeverRefused
    IndexMatchesRaw
    RawFullyIndexed
    ReturnedIsDurable
    RoundsSound
PROPERTIES
    
    JournalledIsCommitted
    LogSpec
