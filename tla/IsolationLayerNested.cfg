SPECIFICATION Spec
CONSTANTS
    d1 = d1
    d2 = d2
    t1 = t1
    t2 = t2
    k1 = k1
    k2 = k2
    Dbs = {d1, d2}
    Tables = {t1, t2}
    Keys = {k1, k2}
    Values = {a, b}
    Drivers <- NestedSavepoints
INVARIANT RollbackToIsExact
CHECK_DEADLOCK FALSE
