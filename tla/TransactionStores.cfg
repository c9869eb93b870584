\* Two keys, so that a key change can land on the other key; two values, so that an
\* update can change and restore a row; two savepoint names, so that one can shadow.
SPECIFICATION Spec
CONSTANTS
    Keys = {k1, k2}
    Values = {a, b}
    NoRow = NoRow
    Books <- SomeBook
    Names = {s, t}
    MaxWork = 3
    MaxDepth = 2
INVARIANTS TypeOK ChangeLogIsNetChange
PROPERTY ImplementsTransaction
