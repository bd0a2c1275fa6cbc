SPECIFICATION FairSpec
CONSTANTS
    f1 = f1
    f2 = f2
    f3 = f3
    c1 = c1
    c2 = c2
    bad = bad
    mine = mine
    Absent = Absent
    Files = {f1, f2, f3}
    Own = {mine}
    Broken = {bad}
    Packages <- MCVersions
    Disturbed = {"apply", "undo", "recover"}
    MaxEdits = 2
    MaxFaults = 2
INVARIANTS
    
    RollbackStaysPossible
PROPERTIES
    LocalEditsKept
    
