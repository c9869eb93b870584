---------------------------- MODULE MemoryTable ----------------------------
(***************************************************************************)
(* The layers of one in-memory table (vtab/memory/layer/).                 *)
(*                                                                         *)
(* A layer is a copy-on-write view over its parent.  A connection reads    *)
(* from readLayer and writes into a pending layer made at the first write. *)
(* A savepoint freezes the pending layer and makes it the read layer.      *)
(* A commit makes the pending layer the committed head, or, when a sibling *)
(* connection moved the head meanwhile, replays its writes onto the head.  *)
(*                                                                         *)
(* The connections get their calls from the engine: all of them begin with *)
(* the transaction, savepoints are broadcast, commits come one after       *)
(* another.  Savepoint and rollback calls on a memory connection are       *)
(* synchronous, and a commit does not await anything under its latch, so   *)
(* each call is one step.                                                  *)
(***************************************************************************)
EXTENDS Naturals, Sequences

CONSTANTS
    Conns,       \* connections to the table
    Drivers,     \* ways the engine uses the table: which connections it opens, which of
                 \* them write, which commit early (a materialized view's backfill), and
                 \* (a bound) how many savepoints are open at once
    Keys,        \* primary keys
    Values,      \* row contents
    NoRow,       \* "no row under this key"
    MaxWrites    \* bound: row operations over a behaviour

ASSUME ConstantsAssumption ==
    /\ Drivers \subseteq [opens : SUBSET Conns, writers : SUBSET Conns, early : SUBSET Conns, maxDepth : Nat]
    /\ NoRow \notin Values
    /\ MaxWrites \in Nat

VARIABLES
    layers,      \* every layer ever made, in order; element 1 is the base layer
    head,        \* _currentCommittedLayer
    registered,  \* connections the engine knows
    conn,        \* per connection: the fields of MemoryTableConnection
    phase,       \* the engine: "idle", "body" of a transaction, "closing" it
    todo,        \* connections the coordinated commit still has to commit
    depth,       \* the engine's savepoint depth
    written,     \* row operations made so far
    driver,      \* how the engine uses the table in this behaviour
    \* What the properties compare with.
    promised,    \* the table, if every commit applies its transaction's changes (but see
                 \* Stranded)
    start,       \* per connection: the rows its transaction began with
    changes,     \* per connection: what its transaction changed and not undid
    saved,       \* per connection: `changes' at each open savepoint
    replica      \* the table of a listener that applies every change event

engine == <<phase, todo, depth>>
ghosts == <<promised, start, changes, saved, replica>>
vars == <<layers, head, registered, conn, engine, written, driver, ghosts>>

NoLayer == 0
Base == 1
Rows == Values \cup {NoRow}
Table == [Keys -> Rows]
Change == [key : Keys, row : Rows]
Upsert(k, v) == [key |-> k, row |-> v]
Deletion(k) == [key |-> k, row |-> NoRow]

\* The last change a log makes to a key, and the rows after all of it.
Touches(log, k) == {i \in DOMAIN log : log[i].key = k}
LastTouch(log, k) == CHOOSE i \in Touches(log, k) : \A j \in Touches(log, k) : j <= i
Apply(rows, log) == [k \in Keys |-> IF Touches(log, k) = {} THEN rows[k] ELSE log[LastTouch(log, k)].row]

LayerIds == DOMAIN layers
TypeOK ==
    /\ layers \in Seq([parent : Nat, writes : Seq(Change), rows : Table, frozen : BOOLEAN, linked : BOOLEAN])
    /\ head \in LayerIds
    /\ registered \subseteq Conns
    /\ \A c \in Conns :
        /\ conn[c].readLayer \in LayerIds
        /\ {conn[c].pending, conn[c].readSnapshot} \subseteq LayerIds \cup {NoLayer}
        /\ conn[c].explicit \in BOOLEAN
        /\ \A i \in DOMAIN conn[c].savepoints : LET s == conn[c].savepoints[i] IN
            /\ s.readLayer \in LayerIds
            /\ {s.snapshot, s.readSnapshot} \subseteq LayerIds \cup {NoLayer}
    /\ phase \in {"idle", "body", "closing"} /\ todo \subseteq registered /\ depth \in 0..driver.maxDepth
    /\ written \in 0..MaxWrites /\ driver \in Drivers

Connection(readLayer) ==
    [readLayer |-> readLayer, pending |-> NoLayer, explicit |-> FALSE, savepoints |-> <<>>, readSnapshot |-> NoLayer]

Init ==
    /\ layers = << [parent |-> NoLayer, writes |-> <<>>, rows |-> [k \in Keys |-> NoRow],
                    frozen |-> TRUE, linked |-> FALSE] >>
    /\ head = Base
    /\ registered = {}
    /\ conn = [c \in Conns |-> Connection(Base)]
    /\ phase = "idle" /\ todo = {} /\ depth = 0
    /\ written = 0
    /\ driver \in Drivers
    /\ promised = layers[Base].rows /\ replica = promised
    /\ start = [c \in Conns |-> promised]
    /\ changes = [c \in Conns |-> <<>>] /\ saved = [c \in Conns |-> <<>>]

-----------------------------------------------------------------------------
\* Layers.

\* TransactionLayer's constructor.
NewLayer(ls, parent) ==
    [parent |-> parent, writes |-> <<>>, rows |-> ls[parent].rows, frozen |-> FALSE, linked |-> TRUE]

HasDerivedChildren(ls, l) == \E m \in DOMAIN ls : ls[m].parent = l

\* The layer stops taking writes, and its trees let go of their base unless another
\* layer's trees were built over them.
Freeze(ls, l) ==
    [ls EXCEPT ![l].frozen = TRUE, ![l].linked = @ /\ HasDerivedChildren(ls, l)]

\* recordUpsert and recordDelete, one change of the log after the other.
Record(layer, log) == [layer EXCEPT !.rows = Apply(@, log), !.writes = @ \o log]

\* The changes of a log that a replay onto these rows records: a deletion of a row that
\* is not there, after the changes before it, is passed over (and would change no row).
Recorded(rows, log) ==
    LET Lasts(i) == log[i].row # NoRow \/ Apply(rows, SubSeq(log, 1, i - 1))[log[i].key] # NoRow
        kept[i \in 0..Len(log)] ==
            IF i = 0 THEN <<>> ELSE IF Lasts(i) THEN Append(kept[i - 1], log[i]) ELSE kept[i - 1]
    IN  kept[Len(log)]

\* The layer and all its ancestors.
Chain(ls, l) ==
    LET up[n \in 0..Len(ls)] == IF n = NoLayer THEN {} ELSE {n} \cup up[ls[n].parent]
    IN  up[l]

\* Layers are numbered in the order they are made, so ancestors come first.
Newest(ids) == CHOOSE l \in ids : \A m \in ids : m <= l

WritesAboveLastOnly(ls, l, boundary) == ls[l].writes

\* collectPendingChanges: the writes of l and its ancestors above boundary, oldest first.
WritesAbove(ls, l, boundary) ==
    LET log[n \in 0..Len(ls)] == IF n \in {boundary, NoLayer} THEN <<>> ELSE log[ls[n].parent] \o ls[n].writes
    IN  log[l]

\* rebaseLayerOntoHead.
Rebased(ls, pending, forkPoint) ==
    LET log == WritesAbove(ls, pending, forkPoint)
    IN  [NewLayer(ls, head) EXCEPT !.rows = Apply(@, log), !.writes = Recorded(ls[head].rows, log),
                                   !.frozen = TRUE, !.linked = FALSE]

-----------------------------------------------------------------------------
\* Calls on one connection.

\* begin, and the savepoints the engine already has.
Begun(r) ==
    [r EXCEPT !.explicit = TRUE,
              !.savepoints = [i \in 1..depth |-> [snapshot |-> NoLayer, readLayer |-> r.readLayer,
                                                  readSnapshot |-> r.readSnapshot]]]

SavepointCreatedKeepsPending(r) ==
    [r EXCEPT !.explicit = TRUE,
              !.savepoints = Append(@, [snapshot |-> r.pending, readLayer |-> r.readLayer,
                                        readSnapshot |-> r.readSnapshot])]

\* createSavepoint: a pending layer becomes the snapshot and the read layer.
SavepointCreated(r) ==
    LET entry == [snapshot |-> r.pending, readLayer |-> r.readLayer, readSnapshot |-> r.readSnapshot]
        kept == [r EXCEPT !.explicit = TRUE, !.savepoints = Append(@, entry)]
    IN  IF r.pending = NoLayer THEN kept
        ELSE [kept EXCEPT !.readLayer = r.pending, !.pending = NoLayer, !.readSnapshot = r.pending]

SavepointReleased(r, d) == [r EXCEPT !.savepoints = SubSeq(@, 1, d)]

RolledBackToSnapshot(r, d) ==
    [r EXCEPT !.readLayer = r.savepoints[d + 1].snapshot, !.readSnapshot = r.savepoints[d + 1].snapshot,
              !.pending = NoLayer, !.savepoints = SubSeq(@, 1, d + 1)]

RolledBackToKeepsReadLayer(r, d) ==
    LET entry == r.savepoints[d + 1]
    IN  [r EXCEPT !.readLayer = IF entry.snapshot = NoLayer THEN @ ELSE entry.snapshot,
                  !.readSnapshot = IF entry.snapshot = NoLayer THEN @ ELSE entry.snapshot,
                  !.pending = NoLayer,
                  !.savepoints = SubSeq(@, 1, d + 1)]

\* rollbackToSavepoint: the snapshot, or for a lazy marker the view it was made in.
RolledBackTo(r, d) ==
    LET entry == r.savepoints[d + 1]
        lazy == entry.snapshot = NoLayer
    IN  [r EXCEPT !.readLayer = IF lazy THEN entry.readLayer ELSE entry.snapshot,
                  !.readSnapshot = IF lazy THEN entry.readSnapshot ELSE entry.snapshot,
                  !.pending = NoLayer,
                  !.savepoints = SubSeq(@, 1, d + 1)]

RolledBack(r) == Connection(head)

\* The pending layer, made over the read layer if there is none.
EnsureTransactionLayer(r) ==
    IF r.pending # NoLayer THEN [ls |-> layers, l |-> r.pending]
    ELSE [ls |-> Append(layers, NewLayer(layers, r.readLayer)), l |-> Len(layers) + 1]

\* The first half of commitTransaction: a snapshot ahead of the head is wrapped in an
\* empty pending layer.  The layers, and the layer to publish (or none).
ToPublish(r) ==
    IF r.pending = NoLayer /\ r.readLayer # head /\ head \in Chain(layers, r.readLayer)
      THEN [ls |-> Append(layers, NewLayer(layers, r.readLayer)), l |-> Len(layers) + 1]
      ELSE [ls |-> layers, l |-> r.pending]

PublishWholesale(ls, l) ==
    [ls |-> Freeze(ls, l), head |-> l, events |-> WritesAbove(ls, l, head)]

\* The second half, under the commit latch: the new layers, the new head, the events.
Publish(ls, l) ==
    IF head \in Chain(ls, l)
      THEN [ls |-> Freeze(ls, l), head |-> l, events |-> WritesAbove(ls, l, head)]
      ELSE LET forkPoint == Newest(Chain(ls, ls[l].parent) \cap Chain(ls, head))
           IN  [ls |-> Append(ls, Rebased(ls, l, forkPoint)), head |-> Len(ls) + 1,
                events |-> WritesAbove(ls, l, forkPoint)]

CommitTransaction(r) ==
    LET p == ToPublish(r)
    IN  IF p.l = NoLayer THEN [ls |-> layers, head |-> head, events |-> <<>>]
        ELSE Publish(p.ls, p.l)

\* All that c changed sits in a savepoint's snapshot, and a sibling has moved the head off
\* the snapshot's chain: commitTransaction finds nothing to publish, and drops it.
Stranded(c) ==
    /\ conn[c].pending = NoLayer /\ conn[c].readSnapshot # NoLayer
    /\ head \notin Chain(layers, conn[c].readLayer)

\* c commits: the table gets what its transaction changed, listeners hear of it.
Commit(c) ==
    LET out == CommitTransaction(conn[c])
    IN  /\ layers' = out.ls /\ head' = out.head
        /\ replica' = Apply(replica, out.events)
        /\ promised' = IF Stranded(c) THEN promised ELSE Apply(promised, changes[c])

-----------------------------------------------------------------------------
\* The engine's calls.

\* A connection registers, and joins the transaction in progress.
Connect(c) ==
    /\ c \in driver.opens \ registered /\ phase \in {"idle", "body"}
    /\ registered' = registered \cup {c}
    /\ conn' = [conn EXCEPT ![c] = IF phase = "body" THEN Begun(Connection(head)) ELSE Connection(head)]
    /\ start' = [start EXCEPT ![c] = layers[head].rows]
    /\ changes' = [changes EXCEPT ![c] = <<>>]
    /\ saved' = [saved EXCEPT ![c] = [i \in 1..depth |-> <<>>]]
    /\ UNCHANGED <<layers, head, engine, written, promised, replica, driver>>

\* ensureConnection reuses a connection that is outside any transaction.
Reuse(c) ==
    /\ c \in registered /\ ~conn[c].explicit /\ conn[c].pending = NoLayer
    /\ conn' = [conn EXCEPT ![c].readLayer = head]
    /\ UNCHANGED <<layers, head, registered, engine, written, ghosts, driver>>

Begin ==
    /\ phase = "idle" /\ phase' = "body"
    /\ conn' = [c \in Conns |-> IF c \in registered THEN Begun(conn[c]) ELSE conn[c]]
    /\ start' = [c \in Conns |-> layers[conn[c].readLayer].rows]
    /\ changes' = [c \in Conns |-> <<>>] /\ saved' = [c \in Conns |-> <<>>]
    /\ UNCHANGED <<layers, head, registered, todo, depth, written, promised, replica, driver>>

\* What c reads: query's startLayer.
ViewLayer(c) == IF conn[c].pending # NoLayer THEN conn[c].pending ELSE conn[c].readLayer
View(c) == layers[ViewLayer(c)].rows

\* performMutation: the pending layer is made, changed or not, and takes the changes.
PerformMutation(c, log) ==
    /\ phase = "body" /\ c \in registered \cap driver.writers
    /\ written < MaxWrites
    /\ written' = written + 1
    /\ LET out == EnsureTransactionLayer(conn[c])
       IN  /\ layers' = [out.ls EXCEPT ![out.l] = Record(@, log)]
           /\ conn' = [conn EXCEPT ![c].pending = out.l]
    /\ changes' = [changes EXCEPT ![c] = @ \o log]
    /\ UNCHANGED <<head, registered, engine, promised, start, saved, replica, driver>>

\* INSERT of a new row, INSERT OR REPLACE, UPDATE of a row in place.
PerformUpsert(c, k, v) == PerformMutation(c, <<Upsert(k, v)>>)

PerformDelete(c, k) ==
    /\ View(c)[k] # NoRow
    /\ PerformMutation(c, <<Deletion(k)>>)

\* UPDATE that moves a row to another key and replaces what was there.
PerformMove(c, k, k2, v) ==
    /\ k # k2 /\ View(c)[k] # NoRow
    /\ PerformMutation(c, (IF View(c)[k2] = NoRow THEN <<>> ELSE <<Deletion(k2)>>)
                            \o <<Deletion(k), Upsert(k2, v)>>)

\* The row to change is not there, or a key conflict is ignored or refused.
PerformNothing(c) == PerformMutation(c, <<>>)

CreateSavepoint ==
    /\ phase = "body" /\ depth < driver.maxDepth
    /\ depth' = depth + 1
    /\ layers' = LET open == {conn[c].pending : c \in registered} \ {NoLayer}
                 IN  [l \in DOMAIN layers |-> IF l \in open THEN Freeze(layers, l)[l] ELSE layers[l]]
    /\ conn' = [c \in Conns |-> IF c \in registered THEN SavepointCreated(conn[c]) ELSE conn[c]]
    /\ saved' = [c \in Conns |-> IF c \in registered THEN Append(saved[c], changes[c]) ELSE saved[c]]
    /\ UNCHANGED <<head, registered, phase, todo, written, promised, start, changes, replica, driver>>

ReleaseSavepoint(d) ==
    /\ phase = "body" /\ d < depth
    /\ depth' = d
    /\ conn' = [c \in Conns |-> IF c \in registered THEN SavepointReleased(conn[c], d) ELSE conn[c]]
    /\ saved' = [c \in Conns |-> IF c \in registered THEN SubSeq(saved[c], 1, d) ELSE saved[c]]
    /\ UNCHANGED <<layers, head, registered, phase, todo, written, promised, start, changes, replica, driver>>

RollbackToSavepoint(d) ==
    /\ phase = "body" /\ d < depth
    /\ depth' = d + 1
    /\ conn' = [c \in Conns |-> IF c \in registered THEN RolledBackTo(conn[c], d) ELSE conn[c]]
    /\ changes' = [c \in Conns |-> IF c \in registered THEN saved[c][d + 1] ELSE changes[c]]
    /\ saved' = [c \in Conns |-> IF c \in registered THEN SubSeq(saved[c], 1, d + 1) ELSE saved[c]]
    /\ UNCHANGED <<layers, head, registered, phase, todo, written, promised, start, replica, driver>>

StartCommit ==
    /\ phase = "body" /\ phase' = "closing"
    /\ todo' = registered
    /\ UNCHANGED <<layers, head, registered, conn, depth, written, ghosts, driver>>

CommitConnection(c) ==
    /\ phase = "closing" /\ c \in todo
    /\ todo' = todo \ {c}
    /\ Commit(c)
    /\ conn' = [conn EXCEPT ![c] = Connection(head')]
    /\ UNCHANGED <<registered, phase, depth, written, start, changes, saved, driver>>

CommitDone ==
    /\ phase = "closing" /\ todo = {}
    /\ phase' = "idle" /\ depth' = 0
    /\ UNCHANGED <<layers, head, registered, conn, todo, written, ghosts, driver>>

\* ROLLBACK, or a commit that failed elsewhere: what is still open is rolled back.
Rollback ==
    /\ \/ phase = "body"
       \/ phase = "closing" /\ todo # {}
    /\ LET open == IF phase = "body" THEN registered ELSE todo
       IN  conn' = [c \in Conns |-> IF c \in open THEN RolledBack(conn[c]) ELSE conn[c]]
    /\ phase' = "idle" /\ todo' = {} /\ depth' = 0
    /\ UNCHANGED <<layers, head, registered, written, ghosts, driver>>

\* commitConnectionEarly: commit, begin again, get the savepoints back.
CommitEarly(c) ==
    /\ phase = "body" /\ c \in registered \cap driver.early
    /\ Commit(c)
    /\ conn' = [conn EXCEPT ![c] = Begun(Connection(head'))]
    /\ start' = [start EXCEPT ![c] = layers'[head'].rows]
    /\ changes' = [changes EXCEPT ![c] = <<>>]
    /\ saved' = [saved EXCEPT ![c] = [i \in 1..depth |-> <<>>]]
    /\ UNCHANGED <<registered, engine, written, driver>>

Next ==
    \/ Begin
    \/ CreateSavepoint
    \/ \E d \in 0..driver.maxDepth : ReleaseSavepoint(d) \/ RollbackToSavepoint(d)
    \/ StartCommit
    \/ CommitDone
    \/ Rollback
    \/ \E c \in Conns :
        \/ Connect(c)
        \/ Reuse(c)
        \/ CommitConnection(c)
        \/ CommitEarly(c)
        \/ PerformNothing(c)
        \/ \E k \in Keys : PerformDelete(c, k)
        \/ \E k \in Keys, v \in Values : PerformUpsert(c, k, v)
        \/ \E k, k2 \in Keys, v \in Values : PerformMove(c, k, k2, v)

Spec == Init /\ [][Next]_vars

-----------------------------------------------------------------------------
\* Every commit lands: the committed table is what one gets by applying, commit after
\* commit, what each transaction changed and had not rolled back, sibling connections
\* included.  The one exception is work commitTransaction drops because it is stranded in
\* a savepoint's snapshot; work written after the last savepoint is rebased and is safe.
EveryCommitLands == layers[head].rows = promised

\* A connection reads the rows its transaction began with and its own changes, through
\* any savepoints, and nothing a sibling commits meanwhile.
OwnWritesVisible ==
    phase = "body" => \A c \in registered : View(c) = Apply(start[c], changes[c])

\* A layer that takes writes belongs to one connection alone: it is not frozen, no layer
\* derives from it, it is not the committed head, and no connection reads it or would
\* return to it, so `Cannot modify a committed layer' is never raised and freezing a
\* layer always detaches its trees.
WritableIsPrivate ==
    /\ \A c \in registered : LET l == conn[c].pending IN l # NoLayer =>
        /\ ~layers[l].frozen /\ ~HasDerivedChildren(layers, l) /\ l # head
        /\ \A o \in registered :
            /\ o # c => conn[o].pending # l
            /\ conn[o].readLayer # l
            /\ \A i \in DOMAIN conn[o].savepoints :
                l \notin {conn[o].savepoints[i].snapshot, conn[o].savepoints[i].readLayer}
    /\ ~layers[head].linked

\* The change events of the commits tell a listener exactly what the table became.
ReplicaFollows == replica = layers[head].rows
=============================================================================
