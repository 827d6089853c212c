SPECIFICATION Spec
CONSTANTS
    Clients = {c1}
    Tables = {1, 2}
    Columns = {a, b}
    MaxDdls = 4
    MaxRaw = 1
    Faults = FALSE
INVARIANT
    NoDriftWhenQuiet
