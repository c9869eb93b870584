------------------------- MODULE TransactionStores -------------------------
(***************************************************************************)
(* The four stores in which the engine keeps the work of a transaction,    *)
(* each with one layer per open savepoint:                                 *)
(*   changeLog   net row changes per key   (TransactionManager)            *)
(*   undoLayers  compensating actions      (TransactionManager)            *)
(*   deferred    parked constraint checks  (DeferredConstraintQueue)       *)
(*   events      batched data events       (DatabaseEventEmitter)          *)
(* The code keeps the base of a store and its savepoint layers apart; here *)
(* element 1 of each sequence is the base and element d + 1 the layer of   *)
(* savepoint depth d.  Every store has its own push, pop and merge, and    *)
(* nothing but the TransactionManager's calling order keeps them aligned.  *)
(***************************************************************************)
EXTENDS Naturals, Sequences

CONSTANTS
    Keys,        \* primary keys of the one table modelled
    Values,      \* row contents
    NoRow,       \* "no row under this key"
    Books,       \* what one row change may leave in the other stores
    Names,       \* savepoint names
    MaxWork,     \* bound: row changes over a behaviour
    MaxDepth     \* bound: savepoints open at once

ASSUME ConstantsAssumption ==
    /\ NoRow \notin Values
    /\ MaxWork \in Nat /\ MaxDepth \in Nat
    /\ Books \subseteq (SUBSET {"undo", "check", "event"}) \ {{}}

VARIABLES
    inTransaction,
    savepointStack,  \* savepoint names, outermost first
    changeLog,
    undoLayers,
    deferred,
    events,
    isBatching,      \* the emitter queues events instead of delivering them
    image,           \* the table as this transaction sees it
    saved,           \* the image at each open savepoint
    base,            \* the image the transaction began with
    booked,          \* what each row change so far booked
    checked,         \* deferred checks run by commits that succeeded, in order
    delivered,       \* events delivered to listeners, in order
    undone,          \* undo actions run, in order
    worked           \* row changes made so far

stores == <<savepointStack, changeLog, undoLayers, deferred, events>>
tables == <<image, saved, base>>
vars == <<inTransaction, stores, isBatching, tables, booked, checked, delivered, undone, worked>>

Work == 1..MaxWork
Rows == Values \cup {NoRow}
NoRec == [op |-> "none", old |-> NoRow, new |-> NoRow]
Rec == [op : {"insert", "update", "delete"}, old : Rows, new : Rows] \cup {NoRec}
EmptyLog == [k \in Keys |-> NoRec]

-----------------------------------------------------------------------------
\* The change log: one record per key and layer.

MergeRecordUpdateLosesOld(existing, incoming) ==
    LET prev == existing.op
        next == incoming.op
    IN  CASE prev = "none"                        -> incoming
          [] prev = "insert" /\ next = "delete"   -> NoRec
          [] prev = "insert" /\ next \in {"insert", "update"} -> [existing EXCEPT !.new = incoming.new]
          [] prev = "update" /\ next = "delete"   -> [existing EXCEPT !.op = "delete", !.new = NoRow]
          [] prev = "delete" /\ next = "insert"   -> [existing EXCEPT !.op = "update", !.new = incoming.new]
          [] prev = "delete" /\ next = "delete"   -> existing
          [] OTHER                                -> incoming

\* How a record already in a layer absorbs the next change of the same key.
MergeRecord(existing, incoming) ==
    LET prev == existing.op
        next == incoming.op
    IN  CASE prev = "none"                        -> incoming
          [] prev = "insert" /\ next = "delete"   -> NoRec
          [] prev = "insert" /\ next \in {"insert", "update"} -> [existing EXCEPT !.new = incoming.new]
          [] prev = "update" /\ next = "update"   -> [existing EXCEPT !.new = incoming.new]
          [] prev = "update" /\ next = "delete"   -> [existing EXCEPT !.op = "delete", !.new = NoRow]
          [] prev = "delete" /\ next = "insert"   -> [existing EXCEPT !.op = "update", !.new = incoming.new]
          [] prev = "delete" /\ next = "delete"   -> existing
          [] OTHER                                -> incoming

MergeLayers(lower, upper) ==
    [k \in Keys |-> IF upper[k] = NoRec THEN lower[k] ELSE MergeRecord(lower[k], upper[k])]

Top(s) == s[Len(s)]
OnTop(s, layer) == [s EXCEPT ![Len(s)] = layer]

RecordInsert(log, k, new) == [log EXCEPT ![k] = MergeRecord(@, [op |-> "insert", old |-> NoRow, new |-> new])]
RecordDelete(log, k, old) == [log EXCEPT ![k] = MergeRecord(@, [op |-> "delete", old |-> old, new |-> NoRow])]

\* A key change is recorded as the deletion of one key and the insertion of the other.
RecordUpdate(log, k, old, k2, new) ==
    IF k = k2
      THEN [log EXCEPT ![k] = MergeRecord(@, [op |-> "update", old |-> old, new |-> new])]
      ELSE RecordInsert(RecordDelete(log, k, old), k2, new)

-----------------------------------------------------------------------------
\* The sequence-valued stores.

PushLayer(s) == Append(s, <<>>)
PopLayers(s, n) == SubSeq(s, 1, Len(s) - n)
ReleaseLayerBefore(s) == Append(PopLayers(s, 2), s[Len(s)] \o s[Len(s) - 1])
ReleaseLayer(s) == Append(PopLayers(s, 2), s[Len(s) - 1] \o s[Len(s)])

\* The layers one after another, and a layer from its last element to its first.
Flat(layers) ==
    LET upTo[i \in 0..Len(layers)] == IF i = 0 THEN <<>> ELSE upTo[i - 1] \o layers[i]
    IN  upTo[Len(layers)]
Backwards(s) == [i \in 1..Len(s) |-> s[Len(s) - i + 1]]

\* runUndoActions on one layer after another, the top layer first.
Unwind(layers) == Flat(Backwards([i \in DOMAIN layers |-> Backwards(layers[i])]))

ReleaseLog(s) == Append(PopLayers(s, 2), MergeLayers(s[Len(s) - 1], s[Len(s)]))

\* Several savepoints released, one after another.
ReleaseLayers(s, n) ==
    LET left[i \in 0..n] == IF i = 0 THEN s ELSE ReleaseLayer(left[i - 1]) IN left[n]
ReleaseLogs(s, n) ==
    LET left[i \in 0..n] == IF i = 0 THEN s ELSE ReleaseLog(left[i - 1]) IN left[n]

-----------------------------------------------------------------------------
\* The variables keep their shapes, and outside a transaction no store holds anything a
\* later one could inherit: no record, undo action, parked check, event or savepoint
\* outlives the transaction it belongs to, whichever way that one ended.
TypeOK ==
    /\ inTransaction \in BOOLEAN /\ isBatching \in BOOLEAN
    /\ savepointStack \in Seq(Names)
    /\ changeLog \in Seq([Keys -> Rec])
    /\ undoLayers \in Seq(Seq(Work)) /\ deferred \in Seq(Seq(Work)) /\ events \in Seq(Seq(Work))
    /\ image \in [Keys -> Rows] /\ base \in [Keys -> Rows] /\ saved \in Seq([Keys -> Rows])
    /\ booked \in [Work -> Books \cup {{}, {"event"}}]
    /\ checked \in Seq(Work) /\ delivered \in Seq(Work) /\ undone \in Seq(Work)
    /\ worked \in 0..MaxWork
    /\ ~inTransaction =>
          /\ savepointStack = <<>> /\ changeLog = <<EmptyLog>>
          /\ \A s \in {undoLayers, deferred, events} : s = << <<>> >>

Init ==
    /\ inTransaction = FALSE /\ isBatching = FALSE
    /\ savepointStack = <<>>
    /\ changeLog = <<EmptyLog>>
    /\ undoLayers = << <<>> >> /\ deferred = << <<>> >> /\ events = << <<>> >>
    /\ image = [k \in Keys |-> NoRow] /\ base = image /\ saved = <<>>
    /\ booked = [w \in Work |-> {}]
    /\ checked = <<>> /\ delivered = <<>> /\ undone = <<>>
    /\ worked = 0

\* beginTransaction: batching starts; the other stores were left empty by the last reset.
BeginTransaction ==
    /\ ~inTransaction
    /\ inTransaction' = TRUE
    /\ isBatching' = TRUE /\ events' = << <<>> >>
    /\ base' = image
    /\ UNCHANGED <<savepointStack, changeLog, undoLayers, deferred, image, saved,
                   booked, checked, delivered, undone, worked>>

\* A layered store after the current row change, w, went into its top layer, or did not.
Booked(store, b, s, w) == IF store \in b THEN OnTop(s, Append(Top(s), w)) ELSE s

\* handleModuleDataEvent: queued while a transaction batches, delivered at once otherwise.
HandleDataEvent(b, w) ==
    IF isBatching
      THEN events' = Booked("event", b, events, w) /\ UNCHANGED delivered
      ELSE delivered' = (IF "event" \in b THEN Append(delivered, w) ELSE delivered) /\ UNCHANGED events

\* A module announces a change of its own (a remote one, say), whatever the engine does.
ModuleEvent ==
    /\ worked < MaxWork
    /\ worked' = worked + 1
    /\ booked' = [booked EXCEPT ![worked + 1] = {"event"}]
    /\ HandleDataEvent({"event"}, worked + 1)
    /\ UNCHANGED <<inTransaction, savepointStack, changeLog, undoLayers, deferred, isBatching, tables,
                   checked, undone>>

\* One row change: its change-log record, and what else it books.
Book(log) ==
    \E b \in Books :
        LET w == worked + 1
        IN  /\ worked' = w
            /\ booked' = [booked EXCEPT ![w] = b]
            /\ changeLog' = OnTop(changeLog, log)
            /\ undoLayers' = Booked("undo", b, undoLayers, w)
            /\ deferred' = Booked("check", b, deferred, w)
            /\ HandleDataEvent(b, w)
            /\ UNCHANGED <<inTransaction, savepointStack, isBatching, saved, base, checked, undone>>

CanWork == inTransaction /\ worked < MaxWork

Insert(k, v) ==
    /\ CanWork /\ image[k] = NoRow
    /\ image' = [image EXCEPT ![k] = v]
    /\ Book(RecordInsert(Top(changeLog), k, v))

Delete(k) ==
    /\ CanWork /\ image[k] # NoRow
    /\ image' = [image EXCEPT ![k] = NoRow]
    /\ Book(RecordDelete(Top(changeLog), k, image[k]))

Update(k, k2, v) ==
    /\ CanWork /\ image[k] # NoRow
    /\ k2 # k => image[k2] = NoRow
    /\ image' = [image EXCEPT ![k] = NoRow, ![k2] = v]
    /\ Book(RecordUpdate(Top(changeLog), k, image[k], k2, v))

CreateSavepoint(n) ==
    /\ inTransaction /\ Len(savepointStack) < MaxDepth
    /\ savepointStack' = Append(savepointStack, n)
    /\ changeLog' = Append(changeLog, EmptyLog)
    /\ undoLayers' = PushLayer(undoLayers)
    /\ deferred' = PushLayer(deferred)
    /\ events' = PushLayer(events)
    /\ saved' = Append(saved, image)
    /\ UNCHANGED <<inTransaction, isBatching, image, base, booked, checked, delivered, undone, worked>>

\* findSavepoint: the innermost savepoint of that name (1-based index).
FindSavepoint(n, i) ==
    /\ i \in DOMAIN savepointStack /\ savepointStack[i] = n
    /\ \A j \in DOMAIN savepointStack : savepointStack[j] = n => j <= i

ReleaseSavepoint(n) ==
    \E i \in DOMAIN savepointStack :
        LET count == Len(savepointStack) - i + 1
        IN  /\ inTransaction /\ FindSavepoint(n, i)
            /\ savepointStack' = SubSeq(savepointStack, 1, i - 1)
            /\ changeLog' = ReleaseLogs(changeLog, count)
            /\ undoLayers' = ReleaseLayers(undoLayers, count)
            /\ deferred' = ReleaseLayers(deferred, count)
            /\ events' = ReleaseLayers(events, count)
            /\ saved' = SubSeq(saved, 1, i - 1)
            /\ UNCHANGED <<inTransaction, isBatching, image, base, booked, checked, delivered, undone, worked>>

\* Every layer from the target up is popped, its undo actions run, and the target
\* savepoint gets a fresh layer.
RollbackToSavepoint(n) ==
    \E i \in DOMAIN savepointStack :
        LET count == Len(savepointStack) - i + 1
        IN  /\ inTransaction /\ FindSavepoint(n, i)
            /\ savepointStack' = SubSeq(savepointStack, 1, i)
            /\ changeLog' = Append(PopLayers(changeLog, count), EmptyLog)
            /\ undone' = undone \o Unwind(SubSeq(undoLayers, i + 1, Len(undoLayers)))
            /\ undoLayers' = PushLayer(PopLayers(undoLayers, count))
            /\ deferred' = PushLayer(PopLayers(deferred, count))
            /\ events' = PushLayer(PopLayers(events, count))
            /\ image' = saved[i]
            /\ saved' = SubSeq(saved, 1, i)
            /\ UNCHANGED <<inTransaction, isBatching, base, booked, checked, delivered, worked>>

ResetKeepsUndo ==
    /\ inTransaction' = FALSE /\ isBatching' = FALSE
    /\ savepointStack' = <<>> /\ saved' = <<>>
    /\ changeLog' = <<EmptyLog>>
    /\ undoLayers' = <<Flat(undoLayers)>>
    /\ deferred' = << <<>> >> /\ events' = << <<>> >>

\* resetToAutocommit and the emitter's flush or discard: no store keeps a layer.
ResetToAutocommit ==
    /\ inTransaction' = FALSE /\ isBatching' = FALSE
    /\ savepointStack' = <<>> /\ saved' = <<>>
    /\ changeLog' = <<EmptyLog>>
    /\ undoLayers' = << <<>> >> /\ deferred' = << <<>> >> /\ events' = << <<>> >>

\* Undo actions run newest first, and the table goes back to where the transaction began.
UndoAll ==
    /\ ResetToAutocommit
    /\ undone' = undone \o Backwards(Flat(undoLayers))
    /\ image' = base
    /\ UNCHANGED <<base, booked, checked, delivered, worked>>

\* commitTransaction, every check passed and every connection committed: the queue's
\* checks ran, the batch is flushed base first.
CommitTransaction ==
    /\ inTransaction
    /\ ResetToAutocommit
    /\ checked' = checked \o Flat(deferred)
    /\ delivered' = delivered \o Flat(events)
    /\ base' = image
    /\ UNCHANGED <<image, booked, undone, worked>>

\* commitTransaction, an assertion or a deferred check refused: nothing is committed.
CommitRefused == inTransaction /\ UndoAll

RollbackTransaction == inTransaction /\ UndoAll

Next ==
    \/ BeginTransaction
    \/ ModuleEvent
    \/ \E k \in Keys, v \in Values : Insert(k, v)
    \/ \E k \in Keys : Delete(k)
    \/ \E k, k2 \in Keys, v \in Values : Update(k, k2, v)
    \/ \E n \in Names : CreateSavepoint(n) \/ ReleaseSavepoint(n) \/ RollbackToSavepoint(n)
    \/ CommitTransaction
    \/ CommitRefused
    \/ RollbackTransaction

Spec == Init /\ [][Next]_vars

-----------------------------------------------------------------------------
\* All layers of the change log merged, bottom first.
NetLog ==
    LET net[i \in 0..Len(changeLog)] ==
            IF i = 0 THEN EmptyLog ELSE MergeLayers(net[i - 1], changeLog[i])
    IN  net[Len(changeLog)]

\* The change log is the net difference between the table the transaction began with
\* and the table it sees now, whichever savepoint layers the changes of a key went
\* through: commit-time assertions and watchers re-evaluate exactly what it names.
ChangeLogIsNetChange ==
    \A k \in Keys : LET r == NetLog[k] IN
        /\ r.op = "none"   => image[k] = base[k]
        /\ r.op = "insert" => base[k] = NoRow /\ image[k] = r.new /\ r.new # NoRow
        /\ r.op = "delete" => base[k] = r.old /\ image[k] = NoRow /\ r.old # NoRow
        /\ r.op = "update" => base[k] = r.old /\ image[k] = r.new /\ NoRow \notin {r.old, r.new}
=============================================================================
