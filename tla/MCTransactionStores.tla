------------------------ MODULE MCTransactionStores ------------------------
\* A small instance of the transaction stores.
EXTENDS TransactionRefinement

\* A row change books something in every store, or in some of them only, so that the
\* stores diverge.
SomeBook == {{"undo", "check", "event"}, {"undo"}, {"check", "event"}}
=============================================================================
