SPECIFICATION FairSpec
CONSTANTS
    rules = rules
    x = x
    y = y
    Artifacts = {rules}
    Contents = {x, y}
    Reverts = TRUE
    MaxChanges = 2
    MaxLocalEdits = 0
    MaxCrashes = 0
PROPERTIES
    NewestDelivered
CHECK_DEADLOCK FALSE
