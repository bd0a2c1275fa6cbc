SPECIFICATION FairSpec
CONSTANTS
    rules = rules
    x = x
    y = y
    Artifacts = {rules}
    Contents = {x, y}
    Reverts = FALSE
    MaxChanges = 1
    MaxLocalEdits = 1
    MaxCrashes = 2
INVARIANTS
    NumberNeverReused
    StatusIsTrue
PROPERTIES
    TargetNeverGoesBack
    
    
CHECK_DEADLOCK FALSE
