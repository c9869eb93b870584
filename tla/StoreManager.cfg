SPECIFICATION Spec
CONSTANTS
    c1 = c1
    c2 = c2
    c3 = c3
    r1 = r1
    r2 = r2
    Ids = {d1, d2}
    Clients = {c1, c2, c3}
    MaxOpen = 1
    Runs = {r1, r2}
    Scopes <- SmallScopes
INVARIANTS TypeOK HeldStaysOpen SecondOpenOnlyAfterEviction EvictsUnused
PROPERTY AcquireAnswered
CHECK_DEADLOCK FALSE
