--------------------------- MODULE IsolationLayer ---------------------------
(***************************************************************************)
(* The isolation layer (packages/quereus-isolation): tables whose          *)
(* uncommitted rows live in an overlay, one per Database and table, made   *)
(* at the first write.                                                     *)
(*                                                                         *)
(* A read merges the overlay over the underlying table.  A write is        *)
(* checked against the merged view and goes to the overlay.  A commit      *)
(* applies every overlay of the Database to the underlying tables and then *)
(* commits these one by one.  Savepoints are those of the overlay, itself  *)
(* a memory table; the depths taken before it existed are kept apart.      *)
(*                                                                         *)
(* The statements of one Database exclude each other; a statement awaits   *)
(* only its own overlay and reads, so it is one step.  The flush awaits    *)
(* the underlying module, and flushes of two Databases that share the      *)
(* module take turns: one step per table.                                  *)
(***************************************************************************)
EXTENDS Naturals, Sequences

CONSTANTS
    Dbs,         \* Databases that share the module
    Tables,
    Keys,        \* primary keys
    Values,      \* contents of a row, under a UNIQUE constraint
    Drivers      \* which Databases, tables and keys take part, what the tables declare ON
                 \* CONFLICT for the primary key (pk) and the UNIQUE constraint (uc), whether
                 \* the underlying tables commit together (shared), and the bounds: savepoints
                 \* open at once, statements of a Database, commits over a behaviour

Actions == {"abort", "ignore", "replace"}

Absent == "absent"
Tombstone == "tombstone"
Nobody == "nobody"

ASSUME ConstantsAssumption ==
    /\ Drivers \subseteq [dbs : SUBSET Dbs, tables : SUBSET Tables, keys : SUBSET Keys,
                          pk : Actions, uc : Actions, shared : BOOLEAN,
                          maxDepth : Nat, maxWork : Nat, maxCommits : Nat]
    /\ Absent \notin Values /\ Tombstone \notin Values /\ Nobody \notin Dbs

VARIABLES
    driver,      \* the member of Drivers this behaviour is about
    under,       \* per table: the committed rows of the underlying table
    pending,     \* per table: what the open transaction of the underlying table wrote
    dropper,     \* per table: the Database that dropped it, if any
    tab,         \* per Database and table: overlay, savepoints before it, connection
    depth,       \* per Database: the engine's savepoint depth
    phase,       \* per Database: "body" of a transaction, "apply" or "commit" of its flush
    todo,        \* per Database: tables the phase still has to do
    applied,     \* per Database: tables the flush has applied
    work,        \* per Database: statements so far
    commits,     \* commits so far
    \* What the properties compare with.
    mine,        \* per Database and table: what the open transaction wrote, by the rules of SQL
    saved,       \* per Database: `mine' at each savepoint
    promised,    \* per table: the rows, if every commit reported lands and no other does
    lapses       \* what has happened of the following:
                 \*   "slipped"     an UPDATE was ignored because its new key is taken in the overlay
                 \*   "crowded"     a REPLACE found its value in two rows that other Databases had committed
                 \*   "leftover"    RELEASE left a depth recorded from before the overlay
                 \*   "overlapped"  two flushes have overlapped
                 \*   "torn"        an underlying table of its own transaction refused its commit

flush == <<phase, todo, applied>>
ghosts == <<mine, saved, promised, lapses>>
vars == <<driver, under, pending, dropper, tab, depth, flush, work, commits, ghosts>>

Rows == Values \cup {Absent}
Entries == Rows \cup {Tombstone}
Blank == [k \in Keys |-> Absent]

\* `entries' laid over `rows': a tombstone hides the row, no entry lets it through.
Over(rows, entries) ==
    [k \in Keys |-> CASE entries[k] = Tombstone -> Absent
                      [] entries[k] = Absent -> rows[k]
                      [] OTHER -> entries[k]]
\* The later entries win.
Stack(entries, later) == [k \in Keys |-> IF later[k] = Absent THEN entries[k] ELSE later[k]]

Unique(rows) == \A j, k \in Keys : j # k /\ rows[j] # Absent => rows[j] # rows[k]

NoOverlay == [created |-> FALSE, overlay |-> Blank, poison |-> FALSE,
              stack |-> <<>>, pre |-> {}, registered |-> FALSE]

TypeOK ==
    /\ driver \in Drivers
    /\ under \in [Tables -> [Keys -> Rows]] /\ promised \in [Tables -> [Keys -> Rows]]
    /\ pending \in [Tables -> [Keys -> Entries]]
    /\ dropper \in [Tables -> Dbs \cup {Nobody}]
    /\ \A d \in Dbs, t \in Tables :
        /\ tab[d][t].overlay \in [Keys -> Entries]
        /\ tab[d][t].pre \subseteq 0..driver.maxDepth
        \* The overlay's savepoint stack is as deep as the engine's.
        /\ Len(tab[d][t].stack) = IF tab[d][t].created THEN depth[d] ELSE 0
        /\ tab[d][t].created => tab[d][t].registered
        /\ ~tab[d][t].created => tab[d][t].overlay = Blank /\ ~tab[d][t].poison
    /\ depth \in [Dbs -> 0..driver.maxDepth]
    /\ phase \in [Dbs -> {"body", "apply", "commit"}]
    /\ todo \in [Dbs -> SUBSET Tables] /\ applied \in [Dbs -> SUBSET Tables]
    /\ work \in [Dbs -> 0..driver.maxWork] /\ commits \in 0..driver.maxCommits
    /\ mine \in [Dbs -> [Tables -> [Keys -> Entries]]]
    /\ \A d \in Dbs : Len(saved[d]) = depth[d]
    /\ lapses \subseteq {"slipped", "crowded", "leftover", "overlapped", "torn"}

Init ==
    /\ driver \in Drivers
    /\ under \in [Tables -> [Keys -> Rows]]
    /\ \A t \in Tables :
        /\ Unique(under[t])
        /\ \A k \in Keys : t \notin driver.tables \/ k \notin driver.keys => under[t][k] = Absent
    /\ pending = [t \in Tables |-> Blank]
    /\ dropper = [t \in Tables |-> Nobody]
    /\ tab = [d \in Dbs |-> [t \in Tables |-> NoOverlay]]
    /\ depth = [d \in Dbs |-> 0]
    /\ phase = [d \in Dbs |-> "body"]
    /\ todo = [d \in Dbs |-> {}] /\ applied = [d \in Dbs |-> {}]
    /\ work = [d \in Dbs |-> 0] /\ commits = 0
    /\ mine = [d \in Dbs |-> [t \in Tables |-> Blank]]
    /\ saved = [d \in Dbs |-> <<>>]
    /\ promised = under
    /\ lapses = {}
-----------------------------------------------------------------------------
\* Savepoints, as one table's connection and overlay see the engine's broadcasts.

\* Altered: the isolated connection passes the savepoint to the overlay as well.
OnSavepointTwice(r, i) ==
    CASE r.created -> [r EXCEPT !.stack = @ \o <<r.overlay, r.overlay>>]
      [] r.registered /\ ~r.created -> [r EXCEPT !.pre = @ \cup {i}]
      [] OTHER -> r

OnSavepoint(r, i) ==
    CASE r.created -> [r EXCEPT !.stack = Append(@, r.overlay)]
      [] r.registered /\ ~r.created -> [r EXCEPT !.pre = @ \cup {i}]
      [] OTHER -> r

OnRelease(r, i) ==
    [r EXCEPT !.pre = @ \ {i}, !.stack = IF r.created THEN SubSeq(@, 1, i) ELSE @]

\* A depth taken before the overlay existed has nothing to go back to in the overlay.
OnRollbackTo(r, i) ==
    CASE i \in r.pre -> [NoOverlay EXCEPT !.registered = TRUE, !.pre = {j \in r.pre : j <= i}]
      [] i \notin r.pre /\ r.created -> [r EXCEPT !.overlay = r.stack[i + 1], !.stack = SubSeq(@, 1, i + 1)]
      [] OTHER -> r

\* Registration replays the n open savepoints onto the connection ...
EnsureConnection(r, n) ==
    IF r.registered THEN r ELSE [r EXCEPT !.registered = TRUE, !.pre = 0..(n - 1)]

\* ... and onto that of a new overlay.
EnsureOverlay(r, n) ==
    IF r.created THEN r ELSE [r EXCEPT !.created = TRUE, !.stack = [i \in 1..n |-> Blank]]

\* The overlay and the depths before it are forgotten; the connection stays.
Cleared(r) == [NoOverlay EXCEPT !.registered = r.registered]

-----------------------------------------------------------------------------
\* Writes: overlay o over the rows u of the underlying table.  The outcome is "ok",
\* "skip" (nothing to report) or "constraint" (the statement is to be undone).

Result(outcome, o) == [outcome |-> outcome, overlay |-> o]
Refusal(action) == IF action = "abort" THEN "constraint" ELSE "skip"

FindMergedUniqueConflict(o, u, v, selfPks) ==
    LET inOverlay == {k \in Keys \ selfPks : o[k] = v}
    IN IF inOverlay # {} THEN inOverlay ELSE {k \in Keys \ selfPks : o[k] = Absent /\ u[k] = v}

CheckMergedUniqueConstraints(o, u, v, selfPks, uc) ==
    LET conflicts == FindMergedUniqueConflict(o, u, v, selfPks)
    IN CASE conflicts = {} -> {Result("ok", o)}
         [] conflicts # {} /\ uc = "replace" -> {Result("ok", [o EXCEPT ![k] = Tombstone]) : k \in conflicts}
         [] OTHER -> {Result(Refusal(uc), o)}

\* Altered: the overlay is not asked first.
CheckUnderlyingPKConflict(o, u, k, pk) == u[k] # Absent /\ pk # "replace"

\* An overlay entry is left to the overlay's own check.
CheckMergedPKConflict(o, u, k, pk) == o[k] = Absent /\ u[k] # Absent /\ pk # "replace"

\* The results of `checks', with a row under key k where they let it through.
Written(checks, k, v) ==
    {IF c.outcome = "ok" THEN Result("ok", [c.overlay EXCEPT ![k] = v]) ELSE c : c \in checks}

InsertRow(o, u, k, v, pk, uc) ==
    IF (o[k] \in Values /\ pk # "replace") \/ CheckMergedPKConflict(o, u, k, pk)
    THEN {Result(Refusal(pk), o)}
    ELSE Written(CheckMergedUniqueConstraints(o, u, v, {k}, uc), k, v)

\* Altered: a row that is in the overlay already is not checked.
UpdateInPlaceUnchecked(o, u, k, v, uc) ==
    Written(IF o[k] # Absent THEN {Result("ok", o)} ELSE CheckMergedUniqueConstraints(o, u, v, {k}, uc), k, v)

\* A row that keeps its key; the UNIQUE check is skipped for an overlay row whose value
\* does not change.
UpdateInPlace(o, u, k, v, uc) ==
    Written(IF o[k] = v THEN {Result("ok", o)} ELSE CheckMergedUniqueConstraints(o, u, v, {k}, uc), k, v)

\* The old slot is a tombstone by now; a live overlay row at k is a conflict there.
WriteRelocatedRow(o, k, v, pk) ==
    IF o[k] \in Values /\ pk # "replace" THEN Result(Refusal(pk), o) ELSE Result("ok", [o EXCEPT ![k] = v])

Relocate(o, u, j, k, v, pk, uc) ==
    IF CheckMergedPKConflict(o, u, k, pk)
    THEN {Result(Refusal(pk), o)}
    ELSE {IF c.outcome = "ok" THEN WriteRelocatedRow([c.overlay EXCEPT ![j] = Tombstone], k, v, pk) ELSE c :
             c \in CheckMergedUniqueConstraints(o, u, v, {j, k}, uc)}

UpdateRow(o, u, j, k, v, pk, uc) ==
    IF j = k THEN UpdateInPlace(o, u, k, v, uc) ELSE Relocate(o, u, j, k, v, pk, uc)

DeleteRow(o, k) == {Result("ok", [o EXCEPT ![k] = Tombstone])}

\* What SQL says of a row that leaves the keys `self' and takes key k with value v: the
\* entries it makes, given the rows the transaction sees.
SqlWrites(rows, self, k, v, pk, uc) ==
    LET taken == k \notin self /\ rows[k] # Absent
        rivals == {c \in Keys \ (self \cup {k}) : rows[c] = v}
    IN IF (taken /\ pk # "replace") \/ (rivals # {} /\ uc # "replace")
       THEN Blank
       ELSE [c \in Keys |-> CASE c = k -> v
                             [] c # k /\ c \in self \cup rivals -> Tombstone
                             [] OTHER -> Absent]
-----------------------------------------------------------------------------
\* Statements.

\* The underlying table reads its own open transaction.
Underlying(t) == Over(under[t], pending[t])
\* What Database d reads, and what it should read.
View(d, t) == Over(Underlying(t), tab[d][t].overlay)
Expected(d, t) == Over(Underlying(t), mine[d][t])

LapseIf(lapse, condition) == IF condition THEN {lapse} ELSE {}
\* REPLACE evicts one row.
Crowded(d, t, v, uc) ==
    uc = "replace" /\ \E j, k \in Keys : j # k /\ View(d, t)[j] = v /\ View(d, t)[k] = v

Usable(d, t) ==
    /\ d \in driver.dbs /\ t \in driver.tables
    /\ phase[d] = "body"
    /\ dropper[t] = Nobody

\* The statement takes a savepoint of its own, and the table written makes its connection
\* and its overlay.
Entered(d) == [s \in Tables |-> OnSavepoint(tab[d][s], depth[d])]
Ready(d, t) == EnsureOverlay(EnsureConnection(Entered(d)[t], depth[d] + 1), depth[d] + 1)

\* It writes one row, with one of the `results', and releases the savepoint, after rolling
\* back to it when the write breaks a constraint.
Statement(d, t, results, writes) ==
    LET n == depth[d]
    IN /\ Usable(d, t) /\ ~tab[d][t].poison
       /\ work[d] < driver.maxWork
       /\ work' = [work EXCEPT ![d] = @ + 1]
       /\ \E r \in results :
            LET written == [Entered(d) EXCEPT ![t] = [Ready(d, t) EXCEPT !.overlay = r.overlay]]
                left == IF r.outcome = "constraint" THEN [s \in Tables |-> OnRollbackTo(written[s], n)] ELSE written
            IN tab' = [tab EXCEPT ![d] = [s \in Tables |-> OnRelease(left[s], n)]]
       /\ mine' = [mine EXCEPT ![d][t] = Stack(@, writes)]
       /\ UNCHANGED <<driver, under, pending, dropper, depth, flush, commits, saved, promised>>

\* INSERT, with or without an OR clause.
Insert(d, t) ==
    \E k \in driver.keys, v \in Values, or \in Actions \cup {"none"} :
        LET pk == IF or = "none" THEN driver.pk ELSE or
            uc == IF or = "none" THEN driver.uc ELSE or
        IN /\ Statement(d, t, InsertRow(Ready(d, t).overlay, Underlying(t), k, v, pk, uc),
                        SqlWrites(Expected(d, t), {}, k, v, pk, uc))
           /\ lapses' = lapses \cup LapseIf("crowded", Crowded(d, t, v, uc))

Update(d, t) ==
    \E j, k \in driver.keys, v \in Values :
        /\ View(d, t)[j] # Absent
        /\ Statement(d, t, UpdateRow(Ready(d, t).overlay, Underlying(t), j, k, v, driver.pk, driver.uc),
                     SqlWrites(Expected(d, t), {j}, k, v, driver.pk, driver.uc))
        /\ lapses' = lapses \cup LapseIf("crowded", Crowded(d, t, v, driver.uc))
                    \cup LapseIf("slipped", j # k /\ driver.pk = "ignore" /\ tab[d][t].overlay[k] \in Values)

Delete(d, t) ==
    \E k \in Keys :
        /\ View(d, t)[k] # Absent
        /\ Statement(d, t, DeleteRow(Ready(d, t).overlay, k), [Blank EXCEPT ![k] = Tombstone])
        /\ UNCHANGED lapses

-----------------------------------------------------------------------------
\* Savepoints and rollback.

Broadcast(d, after) == tab' = [tab EXCEPT ![d] = after]
Elsewhere == <<driver, under, pending, dropper, flush, work, commits, promised>>

Savepoint(d) ==
    /\ d \in driver.dbs /\ phase[d] = "body" /\ depth[d] < driver.maxDepth
    /\ Broadcast(d, Entered(d))
    /\ depth' = [depth EXCEPT ![d] = @ + 1]
    /\ saved' = [saved EXCEPT ![d] = Append(@, mine[d])]
    /\ UNCHANGED <<Elsewhere, mine, lapses>>

ReleaseSavepoint(d) ==
    \E i \in 0..(depth[d] - 1) :
        /\ phase[d] = "body"
        /\ Broadcast(d, [t \in Tables |-> OnRelease(tab[d][t], i)])
        /\ depth' = [depth EXCEPT ![d] = i]
        /\ saved' = [saved EXCEPT ![d] = SubSeq(@, 1, i)]
        /\ lapses' = lapses \cup LapseIf("leftover", \E t \in Tables : \E j \in tab'[d][t].pre : j >= i)
        /\ UNCHANGED <<Elsewhere, mine>>

RollbackToSavepoint(d) ==
    \E i \in 0..(depth[d] - 1) :
        /\ phase[d] = "body"
        /\ Broadcast(d, [t \in Tables |-> OnRollbackTo(tab[d][t], i)])
        /\ depth' = [depth EXCEPT ![d] = i + 1]
        /\ mine' = [mine EXCEPT ![d] = saved[d][i + 1]]
        /\ saved' = [saved EXCEPT ![d] = SubSeq(@, 1, i + 1)]
        /\ UNCHANGED <<Elsewhere, lapses>>

Dirty(d) == depth[d] > 0 \/ \E t \in Tables : tab[d][t].created

\* The transaction ends, flushed or not.
EndTransaction(d) ==
    /\ tab' = [tab EXCEPT ![d] = [t \in Tables |-> Cleared(@[t])]]
    /\ depth' = [depth EXCEPT ![d] = 0]
    /\ phase' = [phase EXCEPT ![d] = "body"]
    /\ todo' = [todo EXCEPT ![d] = {}] /\ applied' = [applied EXCEPT ![d] = {}]
    /\ mine' = [mine EXCEPT ![d] = [t \in Tables |-> Blank]]
    /\ saved' = [saved EXCEPT ![d] = <<>>]

Rollback(d) ==
    /\ phase[d] = "body" /\ Dirty(d)
    /\ EndTransaction(d)
    /\ UNCHANGED <<driver, under, pending, dropper, work, commits, promised, lapses>>
-----------------------------------------------------------------------------
\* The flush of a commit (commitConnectionOverlays).

\* A poisoned overlay, or one whose underlying table is gone, refuses the commit before
\* anything is applied.
Refused(d) == \E t \in Tables : tab[d][t].created /\ (tab[d][t].poison \/ dropper[t] # Nobody)

Commit(d) ==
    /\ phase[d] = "body" /\ Dirty(d) /\ commits < driver.maxCommits
    /\ commits' = commits + 1
    /\ \/ /\ Refused(d)
          /\ EndTransaction(d)
          /\ UNCHANGED lapses
       \/ /\ ~Refused(d)
          /\ todo' = [todo EXCEPT ![d] = {t \in Tables : tab[d][t].created}]
          /\ phase' = [phase EXCEPT ![d] = IF todo'[d] = {} THEN "commit" ELSE "apply"]
          /\ lapses' = lapses \cup LapseIf("overlapped", \E e \in Dbs : phase[e] # "body")
          /\ UNCHANGED <<tab, depth, applied, mine, saved>>
    /\ UNCHANGED <<driver, under, pending, dropper, work, promised>>

\* The tables whose underlying transaction ends when that of table t does.
Domain(t) == IF driver.shared THEN Tables ELSE {t}
Discarded(ts) == [t \in Tables |-> IF t \in ts THEN Blank ELSE pending[t]]

\* Phase 1: one overlay goes into the open transaction of its underlying table.
ApplyOverlay(d) ==
    \E t \in todo[d] :
        /\ phase[d] = "apply"
        /\ pending' = [pending EXCEPT ![t] = Stack(@, tab[d][t].overlay)]
        /\ applied' = [applied EXCEPT ![d] = @ \cup {t}]
        /\ todo' = [todo EXCEPT ![d] = IF @ = {t} THEN applied'[d] ELSE @ \ {t}]
        /\ phase' = [phase EXCEPT ![d] = IF todo[d] = {t} THEN "commit" ELSE @]
        /\ UNCHANGED <<driver, under, dropper, tab, depth, work, commits, ghosts>>

\* Altered: only the table that failed is rolled back.
ApplyFailsAlone(d) ==
    \E t \in todo[d] :
        /\ phase[d] = "apply"
        /\ pending' = Discarded(Domain(t))
        /\ EndTransaction(d)
        /\ UNCHANGED <<driver, under, dropper, work, commits, promised, lapses>>

\* An error in phase 1 rolls back every underlying table the flush began.
ApplyFails(d) ==
    \E t \in todo[d] :
        /\ phase[d] = "apply"
        /\ pending' = Discarded(UNION {Domain(s) : s \in applied[d] \cup {t}})
        /\ EndTransaction(d)
        /\ UNCHANGED <<driver, under, dropper, work, commits, promised, lapses>>

\* Phase 2: one underlying table commits, and with it all that share its transaction.
CommitUnderlying(d) ==
    \E t \in todo[d] :
        /\ phase[d] = "commit"
        /\ under' = [s \in Tables |-> IF s \in Domain(t) THEN Underlying(s) ELSE under[s]]
        /\ pending' = Discarded(Domain(t))
        /\ todo' = [todo EXCEPT ![d] = @ \ {t}]
        /\ UNCHANGED <<driver, dropper, tab, depth, phase, applied, work, commits, ghosts>>

\* The table that refuses loses its transaction; the tables after it keep theirs.
CommitUnderlyingFails(d) ==
    \E t \in todo[d] :
        /\ phase[d] = "commit"
        /\ driver.shared => todo[d] = applied[d]
        /\ pending' = Discarded(Domain(t))
        /\ lapses' = lapses \cup LapseIf("torn", ~driver.shared)
        /\ EndTransaction(d)
        /\ UNCHANGED <<driver, under, dropper, work, commits, promised>>

CommitDone(d) ==
    /\ phase[d] = "commit" /\ todo[d] = {}
    /\ promised' = [t \in Tables |-> Over(promised[t], mine[d][t])]
    /\ EndTransaction(d)
    /\ UNCHANGED <<driver, under, pending, dropper, work, commits, lapses>>

\* DROP TABLE by Database d, while no flush is under way: d's overlay of the table is
\* discarded, and one that another Database staged rows in is poisoned.
DropTable(d, t) ==
    /\ Usable(d, t)
    /\ \A e \in Dbs : phase[e] = "body"
    /\ dropper' = [dropper EXCEPT ![t] = d]
    /\ under' = [under EXCEPT ![t] = Blank] /\ pending' = [pending EXCEPT ![t] = Blank]
    /\ tab' = [e \in Dbs |-> [tab[e] EXCEPT ![t] =
                IF e # d /\ @.created THEN [@ EXCEPT !.poison = TRUE] ELSE Cleared(@)]]
    /\ promised' = [promised EXCEPT ![t] = Blank]
    /\ mine' = [mine EXCEPT ![d][t] = Blank]
    /\ saved' = [saved EXCEPT ![d] = [i \in DOMAIN @ |-> [@[i] EXCEPT ![t] = Blank]]]
    /\ UNCHANGED <<driver, depth, flush, work, commits, lapses>>

Next ==
    \E d \in Dbs :
        \/ \E t \in Tables : Insert(d, t) \/ Update(d, t) \/ Delete(d, t) \/ DropTable(d, t)
        \/ Savepoint(d) \/ ReleaseSavepoint(d) \/ RollbackToSavepoint(d) \/ Rollback(d)
        \/ Commit(d) \/ ApplyOverlay(d) \/ ApplyFails(d)
        \/ CommitUnderlying(d) \/ CommitUnderlyingFails(d) \/ CommitDone(d)

Spec == Init /\ [][Next]_vars

-----------------------------------------------------------------------------
\* Properties.

ReadsExpected == \A d \in Dbs, t \in Tables : dropper[t] = Nobody => View(d, t) = Expected(d, t)

\* A transaction reads what SQL says it wrote over the committed rows, whichever of
\* update's branches (row in the overlay, tombstone, row in the underlying table) its
\* statements took, and whatever rollbacks to savepoints taken before or after the overlay
\* was made.  The exceptions: an UPDATE of a key onto a live overlay row of a table that
\* declares ON CONFLICT IGNORE, which writeRelocatedRow refuses after the old slot is gone;
\* a REPLACE whose value two rows hold already, committed by different Databases, of which
\* it evicts one at most; and a RELEASE past a savepoint from before the overlay, which
\* stays recorded.
ReadsOwnWrites == lapses \cap {"slipped", "crowded", "leftover"} = {} => ReadsExpected

\* A rollback to a savepoint discards the overlay only if the savepoint was created before
\* the overlay existed (onConnectionRollbackToSavepoint), so it keeps what was written
\* before the savepoint, whatever savepoints came and went earlier.
RollbackToIsExact == lapses \cap {"slipped", "crowded"} = {} => ReadsExpected

\* commitConnectionOverlays is all or nothing over the tables of a transaction: while no
\* flush is under way the underlying tables hold what the commits that reported success
\* wrote, and nothing of the ones that failed, lost a table to a DROP, or are still open.
\* Not promised after an underlying table with a transaction of its own refused its commit,
\* nor once flushes of two Databases have overlapped, nor where ReadsOwnWrites is not.
AllOrNothing ==
    lapses = {} /\ (\A d \in Dbs : phase[d] = "body") =>
        under = promised /\ pending = [t \in Tables |-> Blank]

OneDatabase == \E d \in Dbs : driver.dbs = {d}

\* The committed rows satisfy the UNIQUE constraint although the flush writes them trusted,
\* without a check of the underlying table's own: the checks against the merged view
\* suffice while one Database uses the module.
CommittedUnique ==
    OneDatabase => \A t \in Tables : Unique(under[t])
=============================================================================
