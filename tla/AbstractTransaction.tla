------------------------ MODULE AbstractTransaction ------------------------
(***************************************************************************)
(* What the engine's TransactionManager promises about the work done in    *)
(* one transaction, whatever stores it keeps that work in.                 *)
(*                                                                         *)
(* A unit of work is one row change together with what the engine books    *)
(* for it: any of an undo action, a deferred check and a data event.  The  *)
(* work that still counts is one sequence, `live'.  A savepoint is a named *)
(* mark in it: RELEASE forgets marks, ROLLBACK TO cuts `live' back to the  *)
(* mark and undoes what it cuts, COMMIT checks and announces what is left, *)
(* ROLLBACK undoes it.  Undoing always runs newest first.                  *)
(***************************************************************************)
EXTENDS Naturals, Sequences, SequencesExt

CONSTANTS
    Books,       \* what one row change may book: subsets of {"undo", "check", "event"}
    Names,       \* savepoint names
    MaxWork,     \* bound: units of work over a behaviour
    MaxDepth     \* bound: savepoints open at once

VARIABLES
    inTransaction,  \* a transaction is open
    live,           \* the work that counts, oldest first
    booked,         \* what each unit of work booked
    marks,          \* open savepoints: [name, at], at = Len(live) when made
    checked,        \* work whose deferred check a successful commit ran, in order
    delivered,      \* work whose event reached the listeners, in order
    undone,         \* work whose undo action ran, in order
    worked          \* units of work begun so far: the next one is worked + 1

txnVars == <<inTransaction, live, booked, marks, checked, delivered, undone, worked>>

Work == 1..MaxWork
TxnInit ==
    /\ inTransaction = FALSE
    /\ live = <<>> /\ marks = <<>>
    /\ booked = [w \in Work |-> {}]
    /\ checked = <<>> /\ delivered = <<>> /\ undone = <<>>
    /\ worked = 0

\* The stack index of the innermost savepoint called n.
Innermost(n, i) ==
    /\ i \in DOMAIN marks
    /\ marks[i].name = n
    /\ \A j \in DOMAIN marks : marks[j].name = n => j <= i

\* The units of s that booked something in a store, in order.
In(store, s) == SelectSeq(s, LAMBDA w : store \in booked[w])

Begin ==
    /\ ~inTransaction
    /\ inTransaction' = TRUE
    /\ UNCHANGED <<live, booked, marks, checked, delivered, undone, worked>>

DoWork(b) ==
    /\ inTransaction
    /\ worked < MaxWork
    /\ worked' = worked + 1
    /\ live' = Append(live, worked + 1)
    /\ booked' = [booked EXCEPT ![worked + 1] = b]
    /\ UNCHANGED <<inTransaction, marks, checked, delivered, undone>>

\* An event from outside: part of the transaction in progress, or announced at once.
Announce ==
    /\ worked < MaxWork
    /\ worked' = worked + 1
    /\ booked' = [booked EXCEPT ![worked + 1] = {"event"}]
    /\ live' = IF inTransaction THEN Append(live, worked + 1) ELSE live
    /\ delivered' = IF inTransaction THEN delivered ELSE Append(delivered, worked + 1)
    /\ UNCHANGED <<inTransaction, marks, checked, undone>>

Savepoint(n) ==
    /\ inTransaction
    /\ Len(marks) < MaxDepth
    /\ marks' = Append(marks, [name |-> n, at |-> Len(live)])
    /\ UNCHANGED <<inTransaction, live, booked, checked, delivered, undone, worked>>

Release(n) ==
    /\ inTransaction
    /\ \E i \in DOMAIN marks :
        /\ Innermost(n, i)
        /\ marks' = SubSeq(marks, 1, i - 1)
    /\ UNCHANGED <<inTransaction, live, booked, checked, delivered, undone, worked>>

RollbackTo(n) ==
    /\ inTransaction
    /\ \E i \in DOMAIN marks :
        /\ Innermost(n, i)
        /\ live' = SubSeq(live, 1, marks[i].at)
        /\ undone' = undone \o Reverse(In("undo", SubSeq(live, marks[i].at + 1, Len(live))))
        /\ marks' = SubSeq(marks, 1, i)
    /\ UNCHANGED <<inTransaction, booked, checked, delivered, worked>>

Commit ==
    /\ inTransaction
    /\ checked' = checked \o In("check", live)
    /\ delivered' = delivered \o In("event", live)
    /\ inTransaction' = FALSE /\ live' = <<>> /\ marks' = <<>>
    /\ UNCHANGED <<booked, undone, worked>>

Rollback ==
    /\ inTransaction
    /\ undone' = undone \o Reverse(In("undo", live))
    /\ inTransaction' = FALSE /\ live' = <<>> /\ marks' = <<>>
    /\ UNCHANGED <<booked, checked, delivered, worked>>

TxnNext ==
    \/ Begin
    \/ \E b \in Books : DoWork(b)
    \/ Announce
    \/ \E n \in Names : Savepoint(n) \/ Release(n) \/ RollbackTo(n)
    \/ Commit
    \/ Rollback

TxnSpec == TxnInit /\ [][TxnNext]_txnVars
=============================================================================
