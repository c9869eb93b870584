--------------------------- MODULE MCMemoryTable ---------------------------
\* A small instance of MemoryTable.
EXTENDS MemoryTable
CONSTANTS c1, c2, c3

\* A writer and a reader with nested savepoints and early commits; three writers to one
\* table without savepoints; two writers with one savepoint.
SmallDrivers ==
    {[opens |-> {c1, c2}, writers |-> {c1}, early |-> {c1, c2}, maxDepth |-> 2],
     [opens |-> {c1, c2, c3}, writers |-> {c1, c2, c3}, early |-> {c1}, maxDepth |-> 0],
     [opens |-> {c1, c2}, writers |-> {c1, c2}, early |-> {}, maxDepth |-> 1]}
=============================================================================
