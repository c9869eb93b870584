SPECIFICATION Spec
CONSTANTS
    Conns = {c1, c2}
    NoConn = NoConn
    MaxDepth = 1
    MayReject = {}
    Concurrent = TRUE
INVARIANT NeverOverlap
