# A TLA+ model of Quereus

Quereus (`src/`) is a federated SQL engine in TypeScript. Tables live in *modules*
(in memory, in a key-value store, behind an isolation overlay, synchronised between
peers), and the engine compiles SQL to asynchronous programs that call them. Almost
everything is a promise: a statement, a begin, a commit, a rollback, a callback. The
hard part of the engine is what happens between two awaits, and that is what this
project models, checks with TLC and, for the parts listed under Proofs, proves with
TLAPS.

Paths below are relative to `src/packages/quereus/src/` unless they start with
`packages/` or `docs/`.

## The system's parts

| Part | State | Operations | What makes it hard |
| --- | --- | --- | --- |
| Transaction manager (`core/database-transaction.ts`) | in-transaction and closing flags, savepoint stack, open connections | begin, commit, rollback, savepoints, early commit, join | each connection call is an await, any may reject, connections register in the middle |
| Connection registry (`core/database.ts`) | active connections | register, remove, savepoint broadcasts | registered before begun |
| Transaction stores (change log, undo actions, deferred checks, event batch) | a base and one layer per savepoint, four times over | record, push, pop, merge, flush | aligned by calling order only |
| Memory table (`vtab/memory/layer/`) | a chain of copy-on-write layers, per-connection pending and read layers, savepoint snapshots | write, savepoints, commit, collapse, disconnect | several connections to one table commit in turn |
| Latches (`util/latches.ts`) | a queue of promises per key | acquire, release, time-out | a waiter that gives up |
| Watchers (`core/database-watchers.ts`) and the delta executor (`runtime/delta-executor.ts`) | subscriptions, captured columns | watch, unsubscribe, post-commit dispatch | callbacks that subscribe while being dispatched |
| Execution mutex (`core/database.ts`) | a chain of promises, closing flag | acquire, release, close | close racing queued statements |
| Isolation overlay (`packages/quereus-isolation`) | an overlay per Database and table, over a shared underlying table | merged reads, checked writes, savepoints, two-phase flush | an overlay made in mid-transaction; flushes that fail or overlap |
| Store coordinator and store tables (`packages/quereus-store`) | one log of pending writes, savepoints, events and counts for all tables | put, delete, commit, rollback, savepoints, CREATE INDEX, flushing DDL | one log driven by many connections; an index built over pending rows; a failed batch or a crash |
| Sync manager and clock (`packages/quereus-sync`) | a record per fact, tombstones, delta floor, hybrid clock | capture, resolve, apply, file, prune | the row and its records are written apart, with local commits in between |
| Sync client and coordinator service (`packages/quereus-sync-client`, `packages/sync-coordinator`) | session, watermarks, pushes awaiting an answer | connect, push, pull, broadcast, snapshot | messages cut, lost, repeated and reordered |
| Store manager of the coordinator (`packages/sync-coordinator`) | open stores with their references, pending opens and closes | acquire, release, evict, close, delete, shut down | every check is followed by an await |
| Parser, planner, optimizer, functions, types | none that outlives a statement | pure | not a matter of interleaving |

## Modules

`ConnectionContract` states the life of a registered connection the way the
repository's own run-time checker does
(`vtab/test-support/connection-lifecycle-check.ts`): what is legal in which state, what
a settled call changes, at most one call unsettled.

`TransactionManager` models the engine's side. The *driver* is the statement holding the
execution mutex. A call on a connection takes three steps: the engine issues it, the
module settles it (resolved, or rejected if `MayReject` has its kind), the code after the
await runs. `registerConnection` is a task of its own per connection (`join`), because a
statement may open a table while it does other work. Loops visit connections in any
order, a superset of registration order.
`pc` says where the driver is: `none` (autocommit), `begin` (in the loop of
`beginTransaction`), `body` (between two calls), the name of a savepoint broadcast,
`early` and `rejoin` (`commitConnectionEarly`), `checks` (assertions and deferred
constraints), `commit`, `rollback`. `Concurrent` says whether the driver goes on while a
registration is unfinished.

| Action | Code |
| --- | --- |
| `RegisterConnection`, `JoinBegun`, `JoinReplayed`, `JoinRejected` | `registerConnection`, `joinConnection`, `replaySavepoints` |
| `BeginTransaction`, `BeginNext`, `DriverJoined`, `BeginDone` | `beginTransaction` |
| `CreateSavepointBroadcast`, `ReleaseSavepointBroadcast`, `RollbackToSavepointBroadcast`, `BroadcastAnswered` | the `_...SavepointBroadcast` methods |
| `CommitConnectionEarly`, `EarlyCommitted`, `EarlyCommitRejected` | `commitConnectionEarly` |
| `CommitTransaction`, `ChecksPassed`, `ChecksRefused`, `ConnectionCommitted`, `ConnectionCommitRejected` | `commitTransaction`, `commitOpenConnections` |
| `RollbackTransaction`, `RollbackDone` | `rollbackTransaction`, `rollbackOpenConnections` |
| `RemoveConnection` | `removeConnection`, `removeConnectionsForTable` |
| `Settle`, `Write` | the module |

`TransactionStores` models the four stores. Element 1 of each sequence is the base,
element d + 1 the layer of savepoint depth d. A unit of work is one row change: its
change-log record, and any of an undo action, a deferred check and a data event, as
`Books` allows. `AbstractTransaction` is the promise: one sequence of live work with
savepoints as marks in it. `LiveWork` and `LiveMarks` (`TransactionRefinement`) are the
refinement mapping.

`MemoryTable` models the layers of one in-memory table and the connections to it.
`layers` holds every layer ever made with its parent, its rows and the writes recorded in
it, `head` is `_currentCommittedLayer`, `conn` the fields of each
`MemoryTableConnection` (read layer, pending layer, savepoint snapshots). The engine's
calls arrive the way `TransactionManager` makes them: all connections begin together,
savepoints are broadcast, commits come one after another (`StartCommit`,
`CommitConnection`, `CommitDone`) or early (`CommitEarly`). `Publish` is the body of
`commitTransaction`: wholesale if the head is still an ancestor of the pending layer, a
replay onto the head if a sibling moved it. The variables `ghosts` only serve the properties:
what every commit promised, the view each transaction should have, and a listener's copy
of the table.

`ExecutionMutex` models the chain of promises in `takeExecMutex`, who holds it, the watch
handlers of each hold, committed reads, and `close()`. A promise of the chain is a slot,
a number; `resolved` are the slots whose promise is resolved. A party's `pc` moves from
await to await.

| Action | Code |
| --- | --- |
| `Enqueue`, `Take`, `Release`, `Released` | `takeExecMutex` before and after its await, its release function before and after its await |
| `Call`, `Check`, `Start`, `Finish` | `_withMutex`, `_acquireExecMutex`, `serializedIteration` |
| `Fire` | a commit calling a watch handler, `deferWatchHandler` |
| `BeginRead`, `EndRead` | `_beginCommittedRead`, `_endCommittedRead` |
| `Close`, `StopWork`, `CloseQueues`, `TearDown` | `close`, `closeAfterRunningWork`, `tearDown` |
| `Settle`, `AwaitClose`, `CloseAwaited` | the handler, which is the host's code |

`Latches` models `acquire` and `release` of `util/latches.ts` for one key.

`IsolationLayer` models the overlays of one or two Databases over one module. `under` are
the committed rows of the underlying tables, `pending` what their open transaction holds,
`tab` the overlay of a Database and table with the savepoint depths from before it
existed. A statement takes its own savepoint, writes one row and releases or rolls back,
in one step; the code awaits its reads in between (see "Not modelled"). The flush takes one
step per table. `mine`, `saved`, `promised` and `lapses` serve the properties: what SQL says the
transaction wrote, and which known exception has occurred.

| Action | Code (`packages/quereus-isolation/src/`) |
| --- | --- |
| `Insert`, `Update`, `Delete` | `update` of `isolated-table.ts`, under `runWithStatementSavepoints` of the DML executor; their branches are `InsertRow`, `UpdateInPlace`, `Relocate`, `DeleteRow` |
| `Savepoint`, `ReleaseSavepoint`, `RollbackToSavepoint` | the broadcasts, and `onConnectionSavepoint` and its siblings (`OnSavepoint`, `OnRelease`, `OnRollbackTo`) |
| `Commit`, `ApplyOverlay`, `ApplyFails`, `CommitUnderlying`, `CommitUnderlyingFails`, `CommitDone` | `commitConnectionOverlays`, `applyOverlayToUnderlying` |
| `Rollback`, `DropTable` | `rollback` of the connection, `destroy` of the module |

`StoreCoordinator` models the transaction coordinator that all tables of a store module
share, and what the tables hang on it. A cell is one key of one store; a row is identified
with its indexed value, so that an index entry is a cell of its own. `coordinator` has the
log of pending operations, the queued events and the savepoints, which are indices into
both. A statement is one step; a flush is one step per batch, and `atomic` says whether
the provider has one batch for all stores or one for each.

| Action | Code (`packages/quereus-store/src/common/`) |
| --- | --- |
| `Begin`, `Savepoint`, `Release`, `RollbackTo`, `Rollback` | the broadcasts, and `transaction.ts`, called once per connected table |
| `Statement` | `update` of the store table: the row, its index entries, its event and its count, under a statement savepoint, with a connection that joins if it is the table's first |
| `Commit`, `WriteBatch`, `CommitDone`, `CommitFailed` | `commit`, on behalf of COMMIT or of DDL that flushes first |
| `CreateIndex`, `CreateIndexFailed` | the index build, `queueDerivedOps`, the catalog entry; `discardOpsFor` and the removal of the store |
| `Crash`, `CrashInCreateIndex` | external: the process dies and restarts over the same stores, in CREATE INDEX with some entries written and the catalog entry not, in DROP INDEX with the catalog entry gone and the store not |

`SyncReplica` models one row on devices and a relay. A device has the row in its database
and, in another store, a record per fact (one per cell, one for the delete). `replica` are
the records, clock and delta floor of each site, `device` the row, the commits still to be
captured, the batch being applied and the session of each device, `net` the messages.

| Action | Code (`packages/`) |
| --- | --- |
| `Insert`, `Update`, `Delete`, `Capture` | a commit in the device's database; `enqueueTransactionCommit`, `noteLocalWrites`, `handleTransactionCommit` of `quereus-sync/src/sync/sync-manager-impl.ts` |
| `BeginApply`, `ResolveBatch`, `ApplyToStore`, `ApplyFails`, `FileAtNextTick`, `FinishApply` | the phases of `change-applicator.ts` and `store-adapter.ts` |
| `Connect`, `PushLocalChanges`, `HandleApplyResult`, `CaughtUp`, `SnapshotRequired`, `TakeSnapshot`, `MaybeBootstrap` | `quereus-sync-client/src/sync-client.ts` |
| `ApplyAtServer`, `RejectedByServer`, `GetChangesSince` | `sync-coordinator/src/service/coordinator-service.ts` |
| `PruneTombstones` | `pruneTombstones` |
| `Disconnect`, `LosePush`, `Crash`, `CrashAtServer` | external: a socket closes, a process dies |

`StoreManager` models the open stores of the coordinator, with every await a point where
others run. The timer of `cleanup` does not wait for a run to end, so `janitor` has a state
per run, and runs overlap. A run takes the time once, when it starts: `justClosed` are the
stores closed after that, which it cannot find old enough to delete. A timer fires only when
no promise reaction is queued, which the guards of `Cleanup` say.

| Action | Code (`packages/sync-coordinator/src/service/store-manager.ts`) |
| --- | --- |
| `Acquire`, `ResumeAfterClose`, `EvictDone`, `ResumeAfterEvict` | `acquire` up to its open, `evictLRU` |
| `OpenStore`, `OpenFails`, `OpenDone`, `SyncModuleFails`, `RestoreFails`, `FailedStoreClosed` | `openAndRestore`, `openStore` |
| `Release`, `AcquireIfOpen`, `ReleasePin` | the methods of these names |
| `Cleanup`, `CloseIdle`, `CloseIdleDone` | `cleanup`, `closeStore` |
| `EvictFromDisk`, `AskEvict`, `AnswerEvict`, `RemoveDirectory`, `CleanupDone` | `evictFromDisk` |
| `Shutdown`, `ShutdownDone` | `shutdown` |

The modules meet at these places. The driver of `TransactionManager` is the party that
holds the mutex of `ExecutionMutex`. Its savepoint and commit calls are those that
`TransactionStores` books and that the connections of `MemoryTable`, `IsolationLayer` and
`StoreCoordinator` answer. The latch of `Latches` is the one a memory table's commit holds
while it publishes. The server of `SyncReplica` works on stores that `StoreManager` keeps
open for it.

## Runs

| Run | Shows | Bounds |
| --- | --- | --- |
| `transaction_manager` | TXN-001 of `docs/invariants.md`: the lifecycle contract, no call after removal, idle connections in autocommit, savepoint depths in lockstep, every write committed or rolled back; and that a transaction that starts to close ends | three connections (one committed, one committing, one still to come), two savepoints (nesting), every kind of rejection |
| `transaction_manager_overlap` | a violation, see below | two connections, one savepoint |
| `transaction_stores` | the merged change log is the net change of the table; nothing outlives its transaction; the layered stores implement `AbstractTransaction` | two keys (a key change can land on the other), two values, three changes, two nested savepoints of two names (a name can shadow itself), stores that book together or apart |
| `memory_table` | commits land, a transaction sees its own writes and nothing else, a writable layer is nobody else's, events rebuild the table | three row operations on two keys, in three settings: a writer and a reader under nested savepoints with early commits; three writers that commit in turn; two writers and a savepoint |
| `execution_mutex` | one holder, a teardown with nothing beside it, handlers awaited; `close()` resolves and everything that started settles | two iterators, a statement, two handlers (one may be called by the other's statement), a read |
| `latches` | two tasks hold the latch together only across a waiter that gave up; nobody is wedged behind such a waiter; a free key is forgotten | four tasks, two of which may give up, five acquisitions |
| `isolation` | a transaction reads what SQL says it wrote; a flush lands whole or not at all; committed rows stay unique although the flush writes them unchecked | one Database, two keys, three statements and a savepoint under each of three pairs of conflict actions; one row under three savepoints; two Databases flushing two tables, over a module with one transaction for all tables or one each; two Databases writing the same values to two keys of one table; symmetric values |
| `isolation_nested` | a violation, see below | one row, three savepoints |
| `store_coordinator` | a transaction reads what it should; the stores hold whole transactions; the index is exact now and at every savepoint; events and counts follow the rows | two tables that join late under two savepoints, four writes; an indexed table whose rows change, two transactions; failed batches and crashes, also inside CREATE and DROP INDEX, two transactions |
| `sync_replica` | a device's row is what its records say; no watermark passes a fact that was not taken in; devices that have caught up show the server's row | two devices and the relay, two local commits, batches of one, and one of: an empty replica, a dropped connection, a crash, a failed apply and the reconnect that repairs it, a pruned delete; a third device that only pulls; clocks that start apart (in the settings with an empty replica and with a drop, the other device only pushes) |
| `store_manager` | until shutdown a held store is open and counted; a directory is opened twice, or deleted in use, only in the named races; every acquire is answered | two databases, room for one; two clients and a cleanup run; one client and two overlapping runs; three clients; two clients, or one and a run, and shutdown |
| `store_manager_evict` | a violation, see below | the same |

The bounds are the smallest at which every case of the code occurs: a third connection is
needed for a rebase onto a rebased layer, a second savepoint for a snapshot over a
snapshot, a second handler for a handler called by a handler's statement, a third task
for somebody behind a waiter that gives up, a third client for a waiter on an open that a
second one has superseded, a third device for facts that arrive in another order than
they were written. Where one instance with every feature would be out of reach, the MC
module lists several settings (`Drivers`, `Scopes`) and the initial state picks one. The
passing runs have between 40 thousand and 2.6 million states and end within two to three
minutes each on two cores.

### Exceptions named in the properties

Some behaviours break what a property says and are known. A history variable (`lapses`;
in `StoreManager` `stale`, `raced` and `leaked`) records that one has happened, and the
property says what it says unless it has. So the property also shows that nothing else
breaks it. They are listed under the disagreements below.

### Fairness

Fairness matters to the leads-to properties only.

- `transaction_manager` (`ClosingEnds`): every call a module is given settles, and the code
  after an await runs. The second is what the JavaScript event loop guarantees. The first
  is the module's duty; the engine has no time-out on it, and a module that never settles
  a commit does hang the engine. Nothing is assumed about statements, registrations or
  which calls are rejected.
- `execution_mutex` (`CloseEnds`): continuations run, a statement that runs by itself ends, a
  called handler does something, an *interrupted* iterator or read unwinds
  (`core/interruptible-iteration.ts`). A consumer need never pull its iterator again.
- `latches` (`NeverWedged`): continuations run and holders release.
- `store_manager` (`AcquireAnswered`): what is awaited ends, that is the opens and closes of
  LevelDB, the restore and the callback. Nobody need ever release a store, and nothing is
  assumed about which opens fail.

## Disagreements with the documentation and comments

### Shown by a run

**Overlapping calls.** `registerConnection` (`core/database.ts:2781`) adds a connection to
the registry, then awaits its `begin`. A savepoint broadcast calls whatever is in the registry. If the
statement goes on while the registration is unfinished (an eager prefetch or an async
gather under an INSERT opens its table while the DML executor makes its statement
savepoint), the connection gets `createSavepoint` before its `begin` settled.
`vtab/connection.ts:12` says that calls on one connection never overlap. The run
`transaction_manager_overlap` shows the shortest such behaviour. With `Concurrent = FALSE`
every property holds, and the safety properties are proved.

**A savepoint taken for an older one.** `onConnectionReleaseSavepoint`
(`packages/quereus-isolation/src/isolated-table.ts:2135`) forgets the released depth, but
RELEASE of an outer savepoint ends the inner ones too. An inner depth from before the
overlay stays recorded, and a later savepoint at that depth is taken for one from before
the overlay: rolling back to it, or the failure of a statement, discards everything the
transaction has written. `isolation_nested` shows it.

**A directory deleted in use.** `evictFromDisk`
(`packages/sync-coordinator/src/service/store-manager.ts:483`) asks `onEvictStore` and then
deletes, without looking again whether the store was acquired meanwhile.
`store_manager_evict` shows it; `EvictsUnused` (proved) says that this race is the only way.

### Named as exceptions in a property

Each of these is a value of `lapses` (or the named operator); TLC reaches all of them.

| Module | Exception | What happens, and what the text says |
| --- | --- | --- |
| `MemoryTable` | `Stranded` | When all a connection has changed sits in a savepoint's snapshot and a sibling's commit has moved the head off the snapshot's chain, the commit finds nothing to publish (`vtab/memory/layer/manager.ts:573`). `docs/memory-table.md:53` says that any number of sibling commits to one table all land. |
| `IsolationLayer` | `slipped` | An UPDATE that moves a row onto a key with a live overlay row, under ON CONFLICT IGNORE, is ignored only after the old key's tombstone is written, so the row is lost. |
| `IsolationLayer` | `leftover` | `isolation_nested`, above. |
| `IsolationLayer` | `crowded` | Two Databases commit the same value of a UNIQUE column under different keys, since each checks its own view. A later REPLACE of that value evicts one of the rows; SQL's would evict every conflicting row. |
| `IsolationLayer` | `overlapped`, `torn` | Two Databases flush into one shared underlying transaction at once; a module with one transaction per table fails on the second commit after the first. |
| `StoreCoordinator` | `kept` | After a DDL flush inside savepoints the coordinator's stack is empty while the engine's is not. A later savepoint, a statement's own included, is not recorded, and rolling back to it keeps the writes. `packages/quereus-store/src/common/transaction.ts:408` notes that what precedes the DDL stays committed; the DML executor counts on the statement savepoint (`runtime/emit/dml-executor.ts:974`). |
| `StoreCoordinator` | `dropped` | A flush that fails inside a DDL discards the pending writes while the engine's transaction stays open. |
| `StoreCoordinator` | `torn` | Without an atomic batch, a crash or failure between two stores' batches. The code says so. |
| `StoreCoordinator` | `leftover` | A crash in CREATE INDEX before its catalog entry, or in DROP INDEX after its catalog entry is gone, leaves the entries in the store. A later CREATE INDEX of the same name adds to them, so entries of rows changed in between stay. The comment at `store-module-index.ts:174` takes the store as freshly created. |
| `StoreCoordinator` | a table's name | ROLLBACK TO and a failed statement do not undo the row count's delta, which `store-table-base.ts:1294` includes in the count. |
| `SyncReplica` | `unrefused` | A device that has only pushed sends no watermark, so the server's check against the delta floor (`sync-coordinator/src/service/coordinator-service.ts:342`) does not apply and the pruned delete is not heard of. `docs/sync-transactions.md:358` says the floor refuses. |
| `SyncReplica` | `unswept` | A crash between the filing of a delete and its clean-up leaves column versions beside a tombstone (`change-applicator.ts:1385`). `docs/sync-transactions.md:420` calls the state consistent. |
| `SyncReplica` | `swept` | The clean-up removes the versions of a row reinserted locally after the filing; compare `docs/sync-transactions.md:432`. |
| `SyncReplica` | `unrecorded` | A crash between the engine's commit and its capture. |
| `SyncReplica` | `reinserted` | A row inserted again after its delete, which the default configuration blocks elsewhere; documented in `docs/sync.md:136`. |
| `StoreManager` | `stale`, `raced`, `leaked` | A directory opened although it is already in use, after the wait in `evictLRU`; an acquire during disk eviction; an open that fails after LevelDB opened. |

A batch that fails to apply is asked for again only at the next connection; the note at
`sync-client.ts:674` says so. `RowMatchesRecords` and `Converged` are about devices whose
repair is not outstanding; in the setting with a failed apply the connection may also drop,
and they hold again of the device once it has caught up.

An exception narrows what a property says about the hazard it belongs to. `EveryCommitLands`
shows that `Stranded` is the only way a commit is lost, `AllOrNothing` of `IsolationLayer`
that nothing breaks it but overlapping flushes, separate transactions and what
`ReadsOwnWrites` excepts, and
`SecondOpenOnlyAfterEviction` that the wait in `evictLRU` is the only stale one; none of them
says that the excepted case is harmless. `WatermarksSkipNothing` says nothing of what a delta
floor has pruned; that a pruned delete does not come back is `Converged`.

## Proofs

### The transaction manager

For every set of connections, every savepoint bound and every choice of rejections, from
`ConstantsAssumption` and `~Concurrent`:

- `Invariance`: `Spec => []IInv`.
- `TypeCorrect`, `CallsNeverOverlap` (`NeverOverlap`), `AutocommitIsIdle`
  (`IdleInAutocommit`), `SavepointsInLockstep` (`SavepointLockstep`), `WritesAreSettled`
  (`EveryWriteSettled`).
- `ContractHonoured`: `Spec => HonoursContract`, that is, the specification implements
  `ConnectionContract`.
- `RemovedNeverCalled`: `Spec => NoCallAfterRemoval`.

None of the properties is inductive. That a commit is legal depends on the connection
having been begun, given every savepoint since and called by nobody else, over several
awaits. `IInv` says, for every phase of the driver, who is open (`MemberInv`), what the
driver has yet to visit (`DriverInv`), how the flags follow the phase (`PhaseInv`), and
exactly in which state each connection is: in the middle of joining (`JoiningOK`), or
settled, in which case the phase and its place in the driver's loop determine its record
(`SettledOK`).

The proof (`TransactionManagerProofs`) has one lemma per action, in three parts: commit and
rollback; broadcasts, begin, registration and early commit; the settling of a call. The
refinement of the contract needs one more state fact, `CallsLegal`: every issued call was
let through by `MayIssue`.

### The transaction stores

For any keys, rows, savepoint names, number of row changes and depth of nesting, from
`ConstantsAssumption` (`TransactionStoresProofs`):

- `Invariance`: `Spec => []Layered`.
- `TypeCorrect`: `TypeOK`, which includes that no store holds anything outside a
  transaction.
- `ChangeLogTellsTheTransaction`: `ChangeLogIsNetChange`.

That the merged log is the net change is not inductive: a rollback to a savepoint drops
layers, and what is left must then tell the way to the table of that time. `Layered` says so
for every layer (`Spans`): the one of savepoint depth d tells how the table went from what it
was at that savepoint to what it was at the next. It also says that every store has one
layer per open savepoint. The core is `MergeTells`: `mergeRecord` makes of two records
that tell successive changes of a key one that tells both. `ReleasedSpans` and `NetTells`
carry it through any number of layers. What a recursive function computes is
proved by looking at the set of rounds for which it is right (`UpTo`, `Loop`).

### The execution mutex

For any sets of iterators, statements, handlers and reads, finite or not, from
`PartiesAssumption` (`ExecutionMutexProofs`):

- `Invariance`: `Spec => []IInv`.
- `OneHolder`: `MutualExclusion`.
- `TearDownIsAlone`: `TearDownAlone`.
- `HandlersAreAwaited`: `HandlersAwaited`.

Mutual exclusion is not inductive, because the mutex has no owner field, only promises.
`SlotInv` says that slots are resolved in order, no two parties share one, and a holder's
slot is the first unresolved one; so whoever finds its predecessor resolved finds nobody
holding. `HoldInv` ties the depth and the handler list to that holder. `CloseInv` says that
`close()` has the last slot there will be, since nobody enqueues after `isOpen` fell, so that
when it is served every slot before it is resolved and nobody waits. `HandlerInv` says
that each called handler is on the list of the party whose commit called it. One lemma
per action shows that `IInv` is preserved; `TakesFreeMutex`, `ReleaseSlots` and
`EnqueueSlots` hold the arithmetic of the slots.

### Latches

For any set of tasks, any set of tasks that may time out and any number of slots
(`LatchesProofs`):

- `Invariance`: `Spec => []IInv`.
- `OverlapOnlyByTimeOut`: `OverlapNeedsTimeOut`.
- `FreeKeyForgotten`: type correctness, which includes that the map has no entry when no
  task is waiting or holding.

A latch has no owner either, only a chain of promises. `EntryInv` says that the map knows
the last slot exactly as long as it is in use. `SlotInv` says that slots in use are
unresolved and distinct, that each awaits the one before it, and that a holder's
predecessor is resolved. `OrderInv` says that a resolved slot behind one in use has a slot
that was given up in front of it. Two holders therefore have such a slot between them.

### The store manager

For every finite set of clients, every set of databases, any number of overlapping cleanup
runs and every `MaxOpen > 0` (`ConstantsAssumption`, `StoreManagerProofs`):

- `Invariance`: `Spec => []IInv`.
- `HeldStoresStayOpen`: `HeldStaysOpen`.
- `OneOpenAtATime`: `SecondOpenOnlyAfterEviction`.
- `OnlyRacedAreEvicted`: `EvictsUnused`.
- `TypeCorrect`: `TypeOK`, which includes that the order by last access lists the open
  stores, each once, and that every lock has an owner.

Every property needs to know who answers for a LevelDB lock, because no variable of the
program says it. `LockInv` says that it is an entry of the map, a close under way, or a
client that has opened but not yet entered the store, each with a lock of its own.
`CallInv` and `PendingInv` say that whoever waits on an open waits on one under way,
`CloserInv` that no two close the same store. `CountInv` makes the reference count of an
entry the number of clients that hold it, which is where the clients have to be finite.
`OpenInv` says that an open is the registered one of its database unless it was started
stale, `EvictInv` that the candidates of each run are closed or known to have been acquired.
One lemma per action shows that `IInv` is preserved. `Ordered`, for the order by last
access, is an invariant on top of it: `OrderSteps` says that a step uses one entry, takes
one out or leaves the order alone.

### The isolation layer

For any sets of Databases, tables, keys and values, any number of
statements and savepoints, and every combination of conflict actions
(`ConstantsAssumption`, `IsolationLayerProofs`):

- `TypeCorrect`: `TypeOK`, which includes that the savepoint stack of an overlay is as deep
  as the engine's. The depths remembered as older than the overlay (`pre`) are only bounded:
  some stay when their savepoint is gone, which is what `isolation_nested` shows.
- `TransactionReadsItsWrites`: `ReadsOwnWrites`.
- `CommitIsAtomic`: `AllOrNothing`.
- `CommittedRowsUnique`: `CommittedUnique`, which is about a driver that uses one Database
  (`OneDatabase`).

`Shapes` is the inductive type of the state: an overlay that exists has exactly one saved
state per open savepoint, and depths are recorded as older than the overlay only for a table
that has a connection. On it rest three invariants.

`Own` says that an overlay is what SQL says the transaction wrote, and that the state saved
for each open savepoint is what SQL says it had written by then. The second half is what
makes it inductive under ROLLBACK TO, and it has a case for savepoints older than the
overlay: those depths are the outermost ones, and nothing was written by then. `Faithful`
is the same for one statement: whatever branch `update` takes, the
entries it writes are those SQL demands of the merged view.

`Distinct` says that the merged rows are unique now, and would be after a rollback to any
savepoint or after the flush. Uniqueness of the committed rows alone is not inductive: the
flush checks nothing, so what it writes must have been unique since the statement.

`Whole` follows the flush table by table: which tables are applied, which committed, and
that the underlying rows and their open transaction hold the overlays of just those. It
needs `Own`, because what a commit promises is what SQL says and what it writes is the
overlay.

### The memory table

For any connections, drivers, keys, values and number of writes, from
`ConstantsAssumption`:

- `TypeCorrect` (`MemoryTableProofs`): `TypeOK`.
- `PendingLayersArePrivate` (`MemoryTableProofs`): `WritableIsPrivate`.
- `CommitsLand` (`MemoryTableCommits`): `EveryCommitLands`.
- `ReadsOwnWrites` (`MemoryTableCommits`): `OwnWritesVisible`.
- `EventsTellTheTable` (`MemoryTableCommits`): `ReplicaFollows`.

`Safe` is inductive and gives the first two. It says that the layers form a tree in which
only frozen layers have others over them (`Sound`), that connections refer to layers that
exist (`Shapes`), have the engine's savepoints (`Lockstep`), and share only frozen layers,
while a pending layer is not frozen and has one owner (`Private`). That nobody derives from a
pending layer follows: whoever made a layer over it would have had to find it frozen.

The other three need `Lands`. A commit is right if the log it replays is what the
transaction changed, and the log is what `collectPendingChanges` finds between the pending
layer and the head, or the fork point. No variable of the program says where a transaction
began. `Lands` says that there is such a layer for each transaction in progress, its origin:
the origin is committed, the layer the connection reads is the origin with the transaction's
log over it, the layers its savepoints return to are the origin with the logs of those times
(`Traces`), and the layers above the origin are neither committed nor of another
transaction (`Tracked`). So a head that is still below the pending layer is the origin, and
otherwise the newest common ancestor of the two is the origin (`PublishedRebased`), however
many siblings committed in between (`CommitOthers`). What the two walks up the layers
compute is proved first (`ChainWalk`, `WritesWalk`), by looking at the first layer where it
would be wrong. `Lands` quantifies over all choices of origins, so TLC checks the properties
it implies and not `Lands` itself.

### Only model-checked

The liveness properties (`ClosingEnds`, `CloseEnds`, `NeverWedged`, `AcquireAnswered`), which
are out of the prover's reach, `ImplementsTransaction`, whose mapping sorts sets and filters
sequences, and the properties of `StoreCoordinator` and `SyncReplica`.

## Not modelled

Inside the modelled parts:

- Transactions: BEGIN over an implicit transaction (the code notes that it is unreached);
  `transactionSource`, which only chooses who calls commit and rollback; a module that
  rejects a savepoint call (no module in the repository does, and `replaySavepoints` notes
  what would follow); schema and collision events (the same layers as data events);
  row-scoped check layers (`detachLayer`, `adoptChecks`); renames of tables with parked checks.
- `MemoryTable`: secondary indexes and UNIQUE constraints (further trees kept in step
  with the primary one), schema changes (consolidation, drift, commits without a common
  ancestor), writes outside a transaction, and layer collapse, which has nothing to do
  in today's code because a committed layer's trees are detached already.
- `ExecutionMutex`: the probe that refuses hosts with broken async generators, and
  what each step of the teardown disposes of.
- `IsolationLayer`: the migration of overlays under ALTER TABLE, CREATE INDEX and rename,
  and the order of a merged scan, both about rows of several columns; the conflict actions
  FAIL and ROLLBACK; a flush by another Database while a statement awaits a read; DROP TABLE
  during another Database's flush.
- `StoreCoordinator`: CREATE INDEX is one step unless the process dies in it; UNIQUE checks, an UPDATE that moves the primary key, writes outside a
  transaction, the catalog, key encodings, several Databases over one module.
- `SyncReplica`: replicated schema changes, tables a replica lacks and their quarantine, the
  stages, checkpoints and resumption of a snapshot (one step here, taken when no local commit
  is waiting for its capture), the gap between filing and clean-up at the server other than
  by a crash, `allowResurrection`,
  `conflictResolver`, the adopt and replace policies, more than one row, the HTTP routes, S3
  storage, the clock's drift check and the limits of its 16-bit counter.
- `StoreManager`: a close that rejects is taken as one that resolves.

Whole parts, with the reason in `PROJECT.json`:

- Watchers, assertions, materialized views, external ingestion, constraints and foreign
  keys run inside one statement or commit, under the execution mutex that is modelled.
  What is hard in them is what a query plan computes.
- The parser, planner, optimizer, functions and types are pure.
- Statements, the scheduler and the concurrent operators keep no state beyond a
  statement. Their one effect on others is in `transaction_manager_overlap`.
- Auto-analyze steers plan choice only. The schema manager changes under the mutex, with
  the undo actions of `TransactionStores`.
- The cached key-value store, the storage plugins, the plugin loader and the shells are
  adapters. The models take a store that answers with what was last written to it.
