SPECIFICATION Spec
CONSTANTS
    f1 = f1
    f2 = f2
    f3 = f3
    c1 = c1
    c2 = c2
    bad = bad
    mine = mine
    Absent = Absent
    Files = {f1, f2, f3}
    Own = {mine}
    Broken = {bad}
    Packages <- MCVersions
    Disturbed = {"rollback"}
    MaxEdits = 0
    MaxFaults = 1
INVARIANTS
    InterruptedIsTakenUp
