SPECIFICATION FairSpec
CONSTANTS
    Conns = {c1, c2, c3}
    NoConn = NoConn
    MaxDepth = 2
    MayReject = {"begin", "commit", "rollback"}
    Concurrent = FALSE
INVARIANTS IdleInAutocommit SavepointLockstep EveryWriteSettled
PROPERTIES HonoursContract NoCallAfterRemoval ClosingEnds
