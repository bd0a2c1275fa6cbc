SPECIFICATION FairSpec
CONSTANTS
    f1 = f1
    f2 = f2
    c1 = c1
    w1 = w1
    w2 = w2
    Skip = Skip
    Poison = Poison
    Garbled = Garbled
    Workers = {w1, w2}
    Watchers = {w2}
    Walk <- MCWalk
    Script <- MCScript
    Convs <- MCConvs
    MaxBatch = 2
    MaxUsage = 3
    MaxCrashes = 1
INVARIANTS
    CheckpointCovered
    CapturedInOrder
PROPERTIES
    CheckpointAdvances
    
