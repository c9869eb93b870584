--------------------------- MODULE MCStoreManager ---------------------------
(***************************************************************************)
(* StoreManager on two databases with room for one open store.             *)
(***************************************************************************)
EXTENDS StoreManager

CONSTANTS c1, c2, c3, r1, r2

Bounds(clients, cleanups, stops) == [clients |-> clients, cleanups |-> cleanups, stops |-> stops]

\* Two clients and a cleanup run; one client and two runs, which may overlap; three clients,
\* the third of which may wait on an open that another has superseded; two clients, or one
\* and a cleanup run, and shutdown.
SmallScopes ==
    {Bounds({c1, c2}, {r1}, FALSE), Bounds({c1}, {r1, r2}, FALSE), Bounds({c1, c2, c3}, {}, FALSE),
     Bounds({c1, c2}, {}, TRUE), Bounds({c1}, {r1}, TRUE)}
=============================================================================
