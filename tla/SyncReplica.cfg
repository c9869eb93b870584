SPECIFICATION Spec
CONSTANTS
    a = a
    b = b
    None = None
    Absent = Absent
    Null = Null
    Devices = {1, 2, 3}
    Values = {a, b}
    BatchSize = 1
    Scopes <- SmallScopes
INVARIANTS TypeOK RowMatchesRecords WatermarksSkipNothing Converged
\* The bound on local commits stops every behaviour.
CHECK_DEADLOCK FALSE
