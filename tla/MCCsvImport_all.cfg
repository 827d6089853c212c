SPECIFICATION Spec
CONSTANTS
    Keys = {k1, k2}
    Bad = bad
    Ignorable = ignorable
    FileLen = 4
    BatchSize = 2
SYMMETRY KeySymmetry
INVARIANTS TypeOK StoredIsPrefix DoneIsTrue
PROPERTIES NoLostUpdate
