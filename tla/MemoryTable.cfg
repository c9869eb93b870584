SPECIFICATION Spec
CONSTANTS
    c1 = c1
    c2 = c2
    c3 = c3
    Conns = {c1, c2, c3}
    Drivers <- SmallDrivers
    Keys = {k1, k2}
    Values = {a}
    NoRow = NoRow
    MaxWrites = 3
INVARIANTS TypeOK EveryCommitLands OwnWritesVisible WritableIsPrivate ReplicaFollows
