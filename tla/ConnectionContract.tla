------------------------- MODULE ConnectionContract -------------------------
(***************************************************************************)
(* The lifecycle the engine owes every virtual-table connection passed to  *)
(* Database.registerConnection, as the repository's own run-time checker   *)
(* states it (vtab/test-support/connection-lifecycle-check.ts): which      *)
(* calls are legal in which state, what a settled call does to the state,  *)
(* and that a connection has at most one unsettled call at a time.         *)
(* A call also carries who made it, so that two like calls stay distinct.  *)
(***************************************************************************)
EXTENDS Naturals

CONSTANTS
    Conns,       \* connections
    MaxDepth     \* bound: savepoints open at once

VARIABLE record  \* the checker's ConnectionRecord of each connection

SavepointMethods == {"createSavepoint", "releaseSavepoint", "rollbackToSavepoint"}
Methods == {"begin", "commit", "rollback"} \cup SavepointMethods
Callers == {"driver", "join"}
Call == [by : Callers, method : Methods, depth : 0..MaxDepth]
Record == [state : {"idle", "open", "commit-failed"}, depth : 0..MaxDepth, inFlight : SUBSET Call]
IdleRecord == [state |-> "idle", depth |-> 0, inFlight |-> {}]

HoldsDepth(r, d) == r.state = "open" /\ d < r.depth

\* TRANSITIONS: legal.
Legal(r, call) ==
    CASE call.method = "begin"           -> r.state = "idle"
      [] call.method = "commit"          -> r.state = "open"
      [] call.method = "rollback"        -> r.state # "idle"
      [] call.method = "createSavepoint" -> r.state = "open" /\ call.depth = r.depth
      [] OTHER                           -> HoldsDepth(r, call.depth)

\* TRANSITIONS: settle.
StateAfter(r, method, resolved) ==
    CASE method = "begin" /\ resolved   -> "open"
      [] method = "commit" /\ resolved  -> "idle"
      [] method = "commit" /\ ~resolved -> "commit-failed"
      [] method = "rollback"            -> "idle"
      [] OTHER                          -> r.state

DepthAfter(r, call, resolved) ==
    CASE call.method = "rollback" \/ (call.method = "commit" /\ resolved) -> 0
      [] call.method = "releaseSavepoint" /\ resolved -> call.depth
      [] call.method \in {"createSavepoint", "rollbackToSavepoint"} /\ resolved -> call.depth + 1
      [] OTHER -> r.depth

AfterIssue(r, call) == [state |-> r.state, depth |-> r.depth, inFlight |-> r.inFlight \cup {call}]

AfterSettle(r, call, resolved) ==
    [state    |-> StateAfter(r, call.method, resolved),
     depth    |-> DepthAfter(r, call, resolved),
     inFlight |-> r.inFlight \ {call}]

\* checkedCall: a call is let through only when none is unsettled and it is legal.
MayIssue(r, call) == r.inFlight = {} /\ Legal(r, call)

ConnectionStep(r, r2) ==
    \/ r2 = r
    \/ \E call \in Call : MayIssue(r, call) /\ r2 = AfterIssue(r, call)
    \/ \E call \in r.inFlight, resolved \in BOOLEAN : r2 = AfterSettle(r, call, resolved)

ContractInit == record = [c \in Conns |-> IdleRecord]
ContractNext == \A c \in Conns : ConnectionStep(record[c], record'[c])
ContractSpec == ContractInit /\ [][ContractNext]_record
=============================================================================
