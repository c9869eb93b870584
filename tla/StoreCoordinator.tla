-------------------------- MODULE StoreCoordinator --------------------------
(***************************************************************************)
(* The persistent store's transaction coordinator (quereus-store,          *)
(* common/transaction.ts), shared by every table of one StoreModule: the   *)
(* log of pending writes, the savepoints that index into it, the data      *)
(* events queued beside it, the flush to the key-value stores, and what    *)
(* the tables hang on it: a secondary index kept in a store of its own and *)
(* the running row count.  One Database drives it, under its execution     *)
(* mutex, so a statement is one step; a flush awaits the stores and is not.*)
(*                                                                         *)
(* A cell is one key of one store.  A row is identified with its indexed   *)
(* value, so an entry of the index store is <<Index, key, value>>.         *)
(***************************************************************************)
EXTENDS Integers, FiniteSets, SequencesExt

CONSTANTS Tables,     \* the module's tables
          Indexed,    \* the one CREATE INDEX names
          Keys, Values,
          None,       \* no row, no entry
          Scopes      \* bounds on what one behaviour may do, see Scope

(* The tables and values written, user savepoints open, rows written in    *)
(* all, transactions begun, and whether batches may fail and the process   *)
(* crash.                                                                  *)
Scope == [tables : SUBSET Tables, values : SUBSET Values, depth : Nat, writes : Nat,
          transactions : Nat, faults : BOOLEAN]

ASSUME ScopesAssumption == Scopes \subseteq Scope

ASSUME IndexedAssumption == Indexed \in Tables
ASSUME NoneAssumption == None \notin Values

VARIABLES
    scope,        \* the bounds of this behaviour
    atomic,       \* whether the provider offers one batch over all its stores
    kv,           \* what the stores hold
    coordinator,  \* inTransaction, pendingOps, pendingEvents, savepointStack, pendingIndex
    connected,    \* tables whose StoreConnection the Database has registered
    flush,        \* the commit() under way: on whose behalf, and the batches left
    engine,       \* the Database's transaction: open, savepoint depth, begun and rows written so far
    indexed,      \* whether the table's schema lists the index
    rowCount, pendingStatsDelta, persistedCount,
    announced,    \* the rows as the data events fired so far describe them
    base, want, saved,  \* the rows SQL promises: committed, now, at each savepoint
    lapses        \* the known ways the promise was broken

vars == <<scope, atomic, kv, coordinator, connected, flush, engine, indexed, rowCount,
          pendingStatsDelta, persistedCount, announced, base, want, saved, lapses>>

Index == "index"
Row == Values \cup {None}
RowCells == Tables \X Keys
IndexCells == {Index} \X Keys \X Values
Cells == RowCells \cup IndexCells

RowsOf(contents) == [c \in RowCells |-> contents[c]]

(* The entry an index holds for a row.                                     *)
Entry(k, row) == IF row = None THEN {} ELSE {<<Index, k, row>>}

(* Pending writes laid over a store, as every read path does.              *)
Over(contents, pending) ==
    [c \in DOMAIN contents |-> IF c \in DOMAIN pending THEN pending[c] ELSE contents[c]]

(* Last write wins.                                                        *)
Replay(ops) == FoldLeft(LAMBDA p, op : (op.cell :> op.val) @@ p, <<>>, ops)

Cleared(open) == [inTransaction |-> open, pendingOps |-> <<>>, pendingEvents |-> <<>>,
                  savepointStack |-> <<>>, pendingIndex |-> <<>>]

-----------------------------------------------------------------------------
(* The coordinator's operations, each from one of its states to the next.  *)

Begun(c) == IF c.inTransaction THEN c ELSE Cleared(TRUE)

Put(c, op) == [c EXCEPT !.pendingOps = Append(@, op),
                        !.pendingIndex = (op.cell :> op.val) @@ @]

(* One row's write: the row, its index entries, its event.                 *)
Written(c, ops, event) ==
    [FoldLeft(Put, c, ops) EXCEPT !.pendingEvents = Append(@, event)]

SavepointHere(c) ==
    [c EXCEPT !.savepointStack =
        Append(@, [op |-> Len(c.pendingOps), event |-> Len(c.pendingEvents)])]

(* Depth-idempotent: N connections, and the replay for a late one, all     *)
(* report the same savepoint to the one stack.                             *)
CreateSavepoint(c, depth) ==
    IF Len(Begun(c).savepointStack) # depth THEN Begun(c) ELSE SavepointHere(Begun(c))

ReleaseSavepoint(c, depth) ==
    IF depth > Len(c.savepointStack) THEN c
    ELSE [c EXCEPT !.savepointStack = SubSeq(@, 1, depth)]

\* mutated form: the events of the undone writes stay queued
RollbackToSavepointKeepingEvents(c, depth) ==
    IF depth >= Len(c.savepointStack) THEN c
    ELSE LET ops == SubSeq(c.pendingOps, 1, c.savepointStack[depth + 1].op)
         IN [c EXCEPT !.pendingOps = ops, !.pendingIndex = Replay(ops),
                      !.savepointStack = SubSeq(@, 1, depth + 1)]

RollbackToSavepoint(c, depth) ==
    IF depth >= Len(c.savepointStack) THEN c
    ELSE LET at == c.savepointStack[depth + 1]
             ops == SubSeq(c.pendingOps, 1, at.op)
         IN [c EXCEPT !.pendingOps = ops, !.pendingIndex = Replay(ops),
                      !.pendingEvents = SubSeq(@, 1, at.event),
                      !.savepointStack = SubSeq(@, 1, depth + 1)]

\* mutated form: a late connection is only begun
JoinedWithoutReplay(c, depth) == Begun(c)

(* A connection registered mid-transaction is begun and told of every      *)
(* savepoint already open.                                                 *)
Joined(c, depth) ==
    FoldLeft(CreateSavepoint, Begun(c), [i \in 1..depth |-> i - 1])

(* Replace the i-th op by expand[i]; a savepoint keeps its place among the *)
(* ops it followed.                                                        *)
RewriteLog(c, expand) ==
    LET upTo(n) == FlattenSeq(SubSeq(expand, 1, n))
    IN [c EXCEPT !.pendingOps = FlattenSeq(expand),
                 !.pendingIndex = Replay(FlattenSeq(expand)),
                 !.savepointStack = [i \in DOMAIN @ |-> [@[i] EXCEPT !.op = Len(upTo(@))]]]

IndexOps(k, before, after) ==
    SetToSeq({[cell |-> e, val |-> None] : e \in Entry(k, before)})
        \o SetToSeq({[cell |-> e, val |-> k] : e \in Entry(k, after)})

(* The index ops owed for the i-th op, given the row before it.            *)
DerivedOps(c, i) ==
    LET op == c.pendingOps[i]
        before == Over(kv, Replay(SubSeq(c.pendingOps, 1, i - 1)))[op.cell]
    IN IF op.cell[1] = Indexed THEN IndexOps(op.cell[2], before, op.val) ELSE <<>>

\* mutated form: the owed ops are queued at the end of the log
QueueDerivedOpsAtEnd(c) ==
    FoldLeft(Put, c, FlattenSeq([i \in DOMAIN c.pendingOps |-> DerivedOps(c, i)]))

(* What an index built mid-transaction owes for the writes already         *)
(* pending, each op right after the write it belongs to.                   *)
QueueDerivedOps(c) ==
    RewriteLog(c, [i \in DOMAIN c.pendingOps |-> <<c.pendingOps[i]>> \o DerivedOps(c, i)])

DiscardOpsFor(c, store) ==
    RewriteLog(c, [i \in DOMAIN c.pendingOps |->
        IF c.pendingOps[i].cell[1] = store THEN <<>> ELSE <<c.pendingOps[i]>>])

-----------------------------------------------------------------------------
NoFlush == [for |-> "nobody", batches |-> <<>>]
Flushing == flush.for # "nobody"
Closed(e) == [e EXCEPT !.open = FALSE, !.depth = 0]

(* What the tables' read paths return.                                     *)
View == Over(kv, coordinator.pendingIndex)

RowsIn(contents, t) == Cardinality({k \in Keys : contents[<<t, k>>] # None})

Zero == [t \in Tables |-> 0]

Init ==
    /\ scope \in Scopes
    /\ atomic \in BOOLEAN
    /\ kv = [c \in Cells |-> None]
    /\ coordinator = Cleared(FALSE)
    /\ connected = {}
    /\ flush = NoFlush
    /\ engine = [open |-> FALSE, depth |-> 0, begun |-> 0, writes |-> 0]
    /\ indexed = FALSE
    /\ rowCount = Zero
    /\ pendingStatsDelta = Zero
    /\ persistedCount = Zero
    /\ announced = RowsOf(kv)
    /\ base = RowsOf(kv)
    /\ want = RowsOf(kv)
    /\ saved = <<>>
    /\ lapses = {}

(* Broadcast to the registered connections: all of them are this           *)
(* coordinator, and a repeated call changes nothing.                       *)
Broadcast(c) == IF connected = {} THEN coordinator ELSE c

Ready == engine.open /\ ~Flushing

(* A rollback-to leaves the row counts alone.  While a savepoint opened    *)
(* before a flush is still open the stack is short of it, and a            *)
(* rollback-to, out of range or at a savepoint replayed late, may leave    *)
(* writes alone too.                                                       *)
Lapsed ==
    LET now == Over(kv, coordinator'.pendingIndex)
    IN lapses' = lapses
           \cup {t \in Tables : rowCount[t] + pendingStatsDelta'[t] # RowsIn(now, t)}
           \cup (IF (\E i \in DOMAIN saved : saved[i].flushed) /\ RowsOf(now) # want'
                 THEN {"kept"} ELSE {})

(* BEGIN.                                                                  *)
Begin ==
    /\ ~engine.open /\ engine.begun < scope.transactions
    /\ engine' = [engine EXCEPT !.open = TRUE, !.begun = @ + 1]
    /\ coordinator' = Broadcast(Begun(coordinator))
    /\ base' = RowsOf(kv)
    /\ want' = RowsOf(kv)
    /\ saved' = <<>>
    /\ lapses' = lapses \ {"kept", "dropped"}
    /\ UNCHANGED <<scope, atomic, kv, connected, flush, indexed, rowCount, pendingStatsDelta,
                   persistedCount, announced>>

Savepoint ==
    /\ Ready /\ engine.depth < scope.depth
    /\ engine' = [engine EXCEPT !.depth = @ + 1]
    /\ coordinator' = Broadcast(CreateSavepoint(coordinator, engine.depth))
    /\ saved' = Append(saved, [rows |-> want, flushed |-> FALSE])
    /\ UNCHANGED <<scope, atomic, kv, connected, flush, indexed, rowCount, pendingStatsDelta,
                   persistedCount, announced, base, want, lapses>>

Release(depth) ==
    /\ Ready /\ depth < engine.depth
    /\ engine' = [engine EXCEPT !.depth = depth]
    /\ coordinator' = Broadcast(ReleaseSavepoint(coordinator, depth))
    /\ saved' = SubSeq(saved, 1, depth)
    /\ UNCHANGED <<scope, atomic, kv, connected, flush, indexed, rowCount, pendingStatsDelta,
                   persistedCount, announced, base, want, lapses>>

RollbackTo(depth) ==
    /\ Ready /\ depth < engine.depth
    /\ engine' = [engine EXCEPT !.depth = depth + 1]
    /\ coordinator' = Broadcast(RollbackToSavepoint(coordinator, depth))
    /\ want' = saved[depth + 1].rows
    /\ saved' = SubSeq(saved, 1, depth + 1)
    /\ UNCHANGED <<scope, atomic, kv, connected, flush, indexed, rowCount, pendingStatsDelta,
                   persistedCount, announced, base>>
    /\ Lapsed

(* One row of a DML statement under the statement's own savepoint: the     *)
(* table's connection is registered on first use, the row is written with  *)
(* its index entries, counted and announced, and the savepoint released,   *)
(* after being rolled back to when the statement fails.  The table's       *)
(* disconnect() that ends every statement saves the row count.             *)
Statement(t, k, row, fails) ==
    LET old == View[<<t, k>>]
        here == Broadcast(CreateSavepoint(coordinator, engine.depth))
        joined == IF t \in connected THEN here ELSE Joined(here, engine.depth + 1)
        ops == <<[cell |-> <<t, k>>, val |-> row]>>
                   \o (IF indexed /\ t = Indexed THEN IndexOps(k, old, row) ELSE <<>>)
        written == Written(joined, ops, [cell |-> <<t, k>>, val |-> row])
        undone == RollbackToSavepoint(written, engine.depth)
    IN /\ Ready /\ engine.writes < scope.writes
       /\ row # old
       /\ pendingStatsDelta' = [pendingStatsDelta EXCEPT ![t] =
              @ + (IF old = None THEN 1 ELSE IF row = None THEN -1 ELSE 0)]
       /\ connected' = connected \cup {t}
       /\ coordinator' = ReleaseSavepoint(IF fails THEN undone ELSE written, engine.depth)
       /\ want' = IF fails THEN want ELSE [want EXCEPT ![<<t, k>>] = row]
       /\ persistedCount' = [persistedCount EXCEPT ![t] = rowCount[t]]
       /\ IF fails THEN Lapsed ELSE UNCHANGED lapses
       /\ engine' = [engine EXCEPT !.writes = @ + 1]
       /\ UNCHANGED <<scope, atomic, kv, flush, indexed, rowCount, announced, base, saved>>

(* commit() groups the pending ops by store, in the order the stores were  *)
(* first written: one batch for all of them, or one each.                  *)
StoresWritten(c) ==
    FoldLeft(LAMBDA stores, op : IF Contains(stores, op.cell[1]) THEN stores
                                 ELSE Append(stores, op.cell[1]),
             <<>>, c.pendingOps)

\* mutated form: the atomic batch is not used
BatchesPerStore(c) == [i \in DOMAIN StoresWritten(c) |-> {StoresWritten(c)[i]}]

Batches(c) ==
    IF c.pendingOps = <<>> THEN <<>>
    ELSE IF atomic THEN <<ToSet(StoresWritten(c))>>
    ELSE [i \in DOMAIN StoresWritten(c) |-> {StoresWritten(c)[i]}]

(* COMMIT, or a statement that must flush first: ALTER TABLE and RENAME    *)
(* ("alter"), DROP INDEX ("drop").                                         *)
Commit(for) ==
    /\ Ready
    /\ for = "drop" => indexed
    /\ flush' = [for |-> for, batches |-> Batches(coordinator)]
    /\ UNCHANGED <<scope, atomic, kv, coordinator, connected, engine, indexed, rowCount,
                   pendingStatsDelta, persistedCount, announced, base, want, saved, lapses>>

WriteBatch ==
    /\ Flushing /\ flush.batches # <<>>
    /\ kv' = [c \in Cells |->
                 IF c[1] \in Head(flush.batches) THEN View[c] ELSE kv[c]]
    /\ flush' = [flush EXCEPT !.batches = Tail(@)]
    /\ UNCHANGED <<scope, atomic, coordinator, connected, engine, indexed, rowCount,
                   pendingStatsDelta, persistedCount, announced, base, want, saved, lapses>>

(* Every savepoint still open on the engine now stands for these rows.     *)
Restart(rows) == [i \in DOMAIN saved |-> [rows |-> rows, flushed |-> TRUE]]

\* mutated form: a drifted count may go below zero
CountedAsIs(n) == n

Counted(n) == IF n < 0 THEN 0 ELSE n

(* The index store deleted.                                                *)
Emptied == [c \in Cells |-> IF c \in IndexCells THEN None ELSE kv[c]]

(* The stores have it all: the events fire, the counts are applied, the    *)
(* coordinator is cleared.  DROP INDEX goes on to remove the index store.  *)
CommitDone ==
    /\ Flushing /\ flush.batches = <<>>
    /\ announced' = RowsOf(Over(announced, Replay(coordinator.pendingEvents)))
    /\ rowCount' = [t \in Tables |-> Counted(rowCount[t] + pendingStatsDelta[t])]
    /\ pendingStatsDelta' = Zero
    /\ coordinator' = Cleared(FALSE)
    /\ flush' = NoFlush
    /\ base' = want
    /\ IF flush.for = "commit"
       THEN engine' = Closed(engine) /\ saved' = <<>>
       ELSE saved' = Restart(want) /\ UNCHANGED engine
    /\ IF flush.for = "drop"
       THEN /\ indexed' = FALSE
            /\ kv' = Emptied
            /\ lapses' = lapses \ {"leftover"}
       ELSE UNCHANGED <<indexed, kv, lapses>>
    /\ UNCHANGED <<scope, atomic, connected, persistedCount, want>>

(* Whether some batches of this flush have landed and others have not.     *)
Torn == Flushing /\ flush.batches \notin {<<>>, Batches(coordinator)}

\* mutated form: the tables are not told that the commit failed
CommitFailedSilently ==
    /\ scope.faults /\ Flushing /\ flush.batches # <<>>
    /\ coordinator' = Cleared(FALSE)
    /\ flush' = NoFlush
    /\ engine' = IF flush.for = "commit" THEN Closed(engine) ELSE engine
    /\ want' = base
    /\ saved' = IF flush.for = "commit" THEN <<>> ELSE Restart(base)
    /\ lapses' = lapses \cup (IF Torn THEN {"torn"} ELSE {})
                        \cup (IF flush.for # "commit" /\ want # base THEN {"dropped"} ELSE {})
    /\ UNCHANGED <<scope, atomic, kv, connected, indexed, rowCount, pendingStatsDelta,
                   persistedCount, announced, base>>

(* A batch that rejects: the counts are discarded and the coordinator is   *)
(* cleared.  COMMIT ends the engine's transaction; a statement that was    *)
(* only flushing leaves it open, its pending writes gone.                  *)
CommitFailed ==
    /\ scope.faults /\ Flushing /\ flush.batches # <<>>
    /\ pendingStatsDelta' = Zero
    /\ coordinator' = Cleared(FALSE)
    /\ flush' = NoFlush
    /\ engine' = IF flush.for = "commit" THEN Closed(engine) ELSE engine
    /\ want' = base
    /\ saved' = IF flush.for = "commit" THEN <<>> ELSE Restart(base)
    /\ lapses' = lapses \cup (IF Torn THEN {"torn"} ELSE {})
                        \cup (IF flush.for # "commit" /\ want # base THEN {"dropped"} ELSE {})
    /\ UNCHANGED <<scope, atomic, kv, connected, indexed, rowCount, persistedCount,
                   announced, base>>

(* ROLLBACK, also of a transaction whose coordinator a flush has cleared.  *)
Rollback ==
    /\ Ready
    /\ engine' = Closed(engine)
    /\ coordinator' = Broadcast(Cleared(FALSE))
    /\ pendingStatsDelta' = IF coordinator.inTransaction THEN Zero ELSE pendingStatsDelta
    /\ want' = base
    /\ saved' = <<>>
    /\ UNCHANGED <<scope, atomic, kv, connected, flush, indexed, rowCount, persistedCount,
                   announced, base, lapses>>

(* CREATE INDEX: an entry per committed row, straight into the store, over *)
(* whatever it holds.                                                      *)
Populated(ks) ==
    [c \in Cells |-> IF c \in IndexCells /\ c[2] \in ks /\ kv[<<Indexed, c[2]>>] = c[3]
                    THEN c[2] ELSE kv[c]]

(* Entries of an earlier CREATE or DROP INDEX that did not come to its end *)
(* and that no row has any more.                                           *)
Leftover == \E c \in IndexCells : kv[c] # None /\ kv[<<Indexed, c[2]>>] # c[3]

(* Then the ops the pending writes owe it, and the catalog entry.          *)
CreateIndex ==
    /\ Ready /\ ~indexed
    /\ indexed' = TRUE
    /\ kv' = Populated(Keys)
    /\ coordinator' = IF coordinator.inTransaction THEN QueueDerivedOps(coordinator)
                      ELSE coordinator
    /\ lapses' = IF Leftover THEN lapses \cup {"leftover"} ELSE lapses
    /\ UNCHANGED <<scope, atomic, connected, flush, engine, rowCount, pendingStatsDelta,
                   persistedCount, announced, base, want, saved>>

(* A later step of CREATE INDEX fails: the queued ops are forgotten and    *)
(* the store is removed.                                                   *)
CreateIndexFailed ==
    /\ Ready /\ ~indexed
    /\ coordinator' = IF coordinator.inTransaction
                      THEN DiscardOpsFor(QueueDerivedOps(coordinator), Index) ELSE coordinator
    /\ kv' = Emptied
    /\ UNCHANGED <<scope, atomic, connected, flush, engine, indexed, rowCount,
                   pendingStatsDelta, persistedCount, announced, base, want, saved, lapses>>

(* The process dies and is started again over the same stores.  Listeners  *)
(* of the new process start from the rows it finds.                        *)
Restarted ==
    /\ scope.faults
    /\ coordinator' = Cleared(FALSE)
    /\ connected' = {}
    /\ flush' = NoFlush
    /\ engine' = Closed(engine)
    /\ pendingStatsDelta' = Zero
    /\ rowCount' = persistedCount
    /\ announced' = RowsOf(kv)
    /\ base' = RowsOf(kv)
    /\ want' = RowsOf(kv)
    /\ saved' = <<>>
    /\ lapses' = (lapses \ {"kept", "dropped"})
                   \cup {t \in Tables : persistedCount[t] # RowsIn(kv, t)}
                   \cup (IF Torn THEN {"torn"} ELSE {})
    /\ UNCHANGED <<scope, atomic, persistedCount>>

(* DROP INDEX has the index out of the catalog before it flushes.          *)
Crash ==
    /\ Restarted
    /\ indexed' = (indexed /\ flush.for # "drop")
    /\ UNCHANGED kv

(* It dies in CREATE INDEX, some entries written and the catalog not yet.  *)
CrashInCreateIndex ==
    /\ Ready /\ ~indexed
    /\ Restarted
    /\ \E ks \in SUBSET Keys : kv' = Populated(ks)
    /\ UNCHANGED indexed

Next ==
    \/ Begin \/ Savepoint \/ Rollback
    \/ \E depth \in 0..scope.depth - 1 : Release(depth) \/ RollbackTo(depth)
    \/ \E t \in scope.tables, k \in Keys, row \in scope.values \cup {None}, fails \in BOOLEAN :
          Statement(t, k, row, fails)
    \/ \E for \in {"commit", "alter", "drop"} : Commit(for)
    \/ WriteBatch \/ CommitDone \/ CommitFailed
    \/ CreateIndex \/ CreateIndexFailed
    \/ Crash \/ CrashInCreateIndex

Spec == Init /\ [][Next]_vars

-----------------------------------------------------------------------------
(* Properties.                                                             *)

(* Every variable has its type.                                            *)
TypeOK ==
    /\ kv \in [Cells -> Row \cup Keys]
    /\ coordinator.inTransaction \in BOOLEAN
    /\ connected \subseteq Tables
    /\ engine.depth \in 0..scope.depth
    /\ indexed \in BOOLEAN
    /\ pendingStatsDelta \in [Tables -> Int]
    /\ rowCount \in [Tables -> Nat]
    /\ announced \in [RowCells -> Row]
    /\ want \in [RowCells -> Row]
    /\ Len(saved) = engine.depth
    /\ lapses \subseteq {"kept", "dropped", "torn", "leftover"} \cup Tables

(* A transaction reads exactly the rows its own statements, failed         *)
(* statements and ROLLBACK TOs leave, however many connections share the   *)
(* coordinator and whenever they joined, across index builds and flushing  *)
(* DDL.  Except after a rollback-to while a savepoint older than a flush   *)
(* is open, and after a flushing statement whose write failed.             *)
ReadsExpected ==
    engine.open /\ lapses \cap {"kept", "dropped", "torn"} = {}
        => RowsOf(View) = want

(* Between flushes the stores hold the committed rows and nothing else; in *)
(* the middle of one, a provider with an atomic batch holds the old rows   *)
(* or the new, so a crash there loses or keeps the transaction whole.      *)
AllOrNothing ==
    lapses \cap {"kept", "dropped", "torn"} = {}
        => /\ ~Flushing => RowsOf(kv) = base
           /\ atomic => RowsOf(kv) \in {base, want}

Exact(contents) ==
    \A c \in IndexCells :
        contents[c] = IF contents[<<Indexed, c[2]>>] = c[3] THEN c[2] ELSE None

(* Commit, rollback and rollback-to each leave the index exact: its        *)
(* entries are those of the rows in the committed state, in what the       *)
(* transaction reads, and in the state each recorded savepoint restores,   *)
(* also for an index built while writes were pending.  Except for an index *)
(* built over what a crash in an earlier CREATE or DROP INDEX left behind. *)
IndexExact ==
    indexed /\ lapses \cap {"torn", "leftover"} = {}
        => /\ ~Flushing => Exact(kv)
           /\ Exact(View)
           /\ \A i \in DOMAIN coordinator.savepointStack :
                 LET ops == SubSeq(coordinator.pendingOps, 1, coordinator.savepointStack[i].op)
                 IN Flushing \/ Exact(Over(kv, Replay(ops)))

(* The data events fired add up to the committed rows: none for a write    *)
(* that was rolled back or failed to commit, none missing for one that     *)
(* committed.  Except when a commit over several batches failed half way.  *)
EventsTellRows ==
    ~Flushing /\ "torn" \notin lapses => announced = RowsOf(kv)

(* The running row count, with the open transaction's delta, is the number *)
(* of rows the transaction reads.  Except for a table that had counted     *)
(* rows undone by a rollback-to, or whose last count a crash lost.         *)
CountsRows ==
    "torn" \notin lapses /\ ~Flushing
        => \A t \in Tables \ lapses :
              rowCount[t] + pendingStatsDelta[t] = RowsIn(View, t)

=============================================================================
