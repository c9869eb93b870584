------------------------- MODULE MCIsolationLayer -------------------------
\* Small instances of IsolationLayer.
EXTENDS IsolationLayer, TLC
CONSTANTS d1, d2, t1, t2, k1, k2

\* One Database and one table: every way to write a row, under a savepoint.
Alone(pk, uc) ==
    [dbs |-> {d1}, tables |-> {t1}, keys |-> {k1, k2}, pk |-> pk, uc |-> uc, shared |-> TRUE,
     maxDepth |-> 1, maxWork |-> 3, maxCommits |-> 1]
\* One row under nested savepoints.
Nested ==
    [dbs |-> {d1}, tables |-> {t1}, keys |-> {k1}, pk |-> "abort", uc |-> "abort", shared |-> TRUE,
     maxDepth |-> 3, maxWork |-> 3, maxCommits |-> 1]
\* Two Databases and two tables of one row: flushes and DROP TABLE.
Together(s) ==
    [dbs |-> {d1, d2}, tables |-> {t1, t2}, keys |-> {k1}, pk |-> "abort", uc |-> "abort", shared |-> s,
     maxDepth |-> 0, maxWork |-> 2, maxCommits |-> 2]
\* Two Databases and two rows: values that each sees as unique, and REPLACE after the fact.
Crowd ==
    [dbs |-> {d1, d2}, tables |-> {t1}, keys |-> {k1, k2}, pk |-> "abort", uc |-> "replace", shared |-> TRUE,
     maxDepth |-> 0, maxWork |-> 2, maxCommits |-> 1]

SmallDrivers ==
    {Alone("abort", "replace"), Alone("replace", "abort"), Alone("ignore", "ignore"), Nested,
     Together(TRUE), Together(FALSE), Crowd}
NestedSavepoints == {Nested}
ValueSymmetry == Permutations(Values)
===========================================================================
