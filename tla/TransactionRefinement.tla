----------------------- MODULE TransactionRefinement -----------------------
(***************************************************************************)
(* The layered stores of TransactionStores implement AbstractTransaction.  *)
(***************************************************************************)
EXTENDS TransactionStores, SequencesExt

\* The work that still counts, in the layer of savepoint depth d - 1: what any store
\* holds there.  The savepoints are marks in it.
LiveLayer(d) ==
    SetToSortSeq(ToSet(undoLayers[d]) \cup ToSet(deferred[d]) \cup ToSet(events[d]), <)
LiveLayers(n) == FlattenSeq([d \in 1..n |-> LiveLayer(d)])
LiveWork == LiveLayers(Len(savepointStack) + 1)
LiveMarks == [i \in DOMAIN savepointStack |-> [name |-> savepointStack[i], at |-> Len(LiveLayers(i))]]

Abstract == INSTANCE AbstractTransaction WITH live <- LiveWork, marks <- LiveMarks

\* The layered stores implement the flat promise.  A savepoint is a mark in one
\* sequence of work; RELEASE keeps the work; ROLLBACK TO and ROLLBACK run the undo
\* actions of exactly what they take back, newest first; COMMIT runs the checks and
\* delivers the events of exactly what is left, in order.
ImplementsTransaction == Abstract!TxnSpec
=============================================================================
