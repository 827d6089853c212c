SPECIFICATION Spec
CONSTANTS
    Clients = {c1, c2}
    Names = {id, a, b}
    Id = id
    Ref = a
    Keys = {1, 2}
    Null = Null
    Default = 1
    MaxDdls = 3
    MaxWrites = 3
INVARIANTS TypeOK OrphansHaveCause
PROPERTIES RebuildKeepsRows
CHECK_DEADLOCK FALSE
