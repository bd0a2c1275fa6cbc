SPECIFICATION Spec
CONSTANTS
    f1 = f1
    f2 = f2
    f3 = f3
    c1 = c1
    c2 = c2
    mine = mine
    Absent = Absent
    Files = {f1, f2, f3}
    Own = {mine}
    Revisions <- MCRevisions
    MaxEdits = 2
    MaxBinds = 1
    MaxFaults = 2
INVARIANTS
    BaselineMatchesFiles
    RecoveryAccepts
PROPERTIES
    LocalEditsKept

CHECK_DEADLOCK FALSE
