SPECIFICATION Spec
CONSTANTS
    t = t
    u = u
    a = a
    b = b
    None = None
    Tables = {t, u}
    Indexed = t
    Keys = {k}
    Values = {a, b}
    Scopes <- SmallScopes
INVARIANTS TypeOK ReadsExpected AllOrNothing IndexExact EventsTellRows CountsRows
\* The bound on transactions stops every behaviour.
CHECK_DEADLOCK FALSE
