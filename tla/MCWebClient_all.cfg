SPECIFICATION Spec
CONSTANTS
    d1 = d1
    d2 = d2
    Dbs = {d1, d2}
    t1 = t1
    t2 = t2
    Tables = {t1, t2}
    Pages <- MCPages
    MaxGestures = 5
    None = None
SYMMETRY MCSymmetry
INVARIANTS TypeOK ChangesHitTheirRow PendingIsUnsaved SchemaIsActive
PROPERTIES ResultIsNewest
CHECK_DEADLOCK FALSE
