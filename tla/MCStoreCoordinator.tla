------------------------- MODULE MCStoreCoordinator -------------------------
(* Small stores: an indexed table and a plain one, one key.                *)
EXTENDS StoreCoordinator

CONSTANTS t, u, a, b

SmallScopes ==
    { \* savepoints, and tables that join late
      [tables |-> {t, u}, values |-> {a}, depth |-> 2, writes |-> 4,
       transactions |-> 1, faults |-> FALSE],
      \* an index over rows that change
      [tables |-> {t}, values |-> {a, b}, depth |-> 1, writes |-> 4,
       transactions |-> 2, faults |-> FALSE],
      \* failed batches and crashes
      [tables |-> {t, u}, values |-> {a}, depth |-> 1, writes |-> 3,
       transactions |-> 2, faults |-> TRUE] }
=============================================================================
