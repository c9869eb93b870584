\* Two iterators, a statement and two handlers compete with a read and close().
SPECIFICATION FairSpec
CONSTANTS
    Iterations = {i1, i2}
    Execs = {e1}
    Handlers = {h1, h2}
    Reads = {r1}
    Closer = Closer
    Nobody = Nobody
INVARIANTS MutualExclusion TearDownAlone HandlersAwaited
PROPERTY CloseEnds
\* Everything may have settled.
CHECK_DEADLOCK FALSE
