---------------------------- MODULE StoreManager ----------------------------
(***************************************************************************)
(* The open stores of a sync coordinator                                   *)
(* (packages/sync-coordinator/src/service/store-manager.ts).               *)
(*                                                                         *)
(* A client acquires the store of a database, which opens it if need be,   *)
(* and releases it.  Unreferenced stores are closed to stay under a limit  *)
(* or for idleness, and the directories of closed ones are deleted once a  *)
(* callback agrees.  Between two awaits a step runs alone; every await is  *)
(* a point where the others may run, another run of the cleanup timer      *)
(* included.                                                               *)
(*                                                                         *)
(* External: the LevelDB library, whose lock lets a directory be opened    *)
(* once at a time, and the file system.                                    *)
(***************************************************************************)
EXTENDS Integers, Sequences, FiniteSets, Functions

CONSTANTS
    Ids,          \* databases
    Clients,      \* callers of acquire or acquireIfOpen, each with one store at a time
    MaxOpen,      \* maxOpenStores
    Runs,         \* runs of the cleanup timer
    Scopes        \* the bounds: which clients call, which cleanup runs there are, and whether
                  \* the manager is shut down

Nobody == "nobody"
None == "none"

ASSUME ConstantsAssumption ==
    /\ MaxOpen \in Nat \ {0}
    /\ IsFiniteSet(Clients) /\ Nobody \notin Clients
    /\ Scopes \subseteq [clients : SUBSET Clients, cleanups : SUBSET Runs, stops : BOOLEAN]

VARIABLES
    refCount,     \* the stores map: NotOpen, or the references to the store
    recent,       \* the keys of the stores map by lastAccess, the oldest first
    pendingOpens, \* per database: the client whose open is registered, if any
    pendingCloses,\* databases with a registered close
    closedStores, \* databases whose directory may be evicted
    shutdown,     \* how far shutdown is ("no", "closing", "done") and the stores it closes
    client,       \* per client: where its call is and what it is about
    janitor,      \* per cleanup run: where it is, and what it has yet to do
    justClosed,   \* per cleanup run that may still choose what to evict: the databases whose
                  \* closedAt is not before its now
    scope,        \* the clients that call, the cleanup runs to come, and whether it stops
    \* External.
    lock,         \* databases whose LevelDB is open
    disk,         \* databases that have a directory
    \* What the properties speak of.
    stale,        \* databases opened after evictLRU although open, opening or closing by then
    raced,        \* per cleanup run: databases an acquire was at since it chose its candidates
    leaked        \* databases whose open failed after LevelDB had opened

manager == <<refCount, recent, pendingOpens, pendingCloses, closedStores, shutdown>>
vars == <<manager, client, janitor, justClosed, scope, lock, disk, stale, raced, leaked>>

NotOpen == -1
Open == {i \in Ids : refCount[i] # NotOpen}

Idle == [at |-> "idle", id |-> None, other |-> Nobody, isNew |-> FALSE]
Resting == [at |-> "idle", toClose |-> {}, toEvict |-> {}, id |-> None, info |-> FALSE]

Waiting == {"close", "open", "evict", "evicted"}
Opening == {"opening", "restoring", "failing"}
Holding == {"holds", "pins"}
Evicting == {"evict", "asking", "removing"}

\* The variables keep their shapes, the stores map and its order agree, and an open LevelDB
\* belongs to a store that is open, opening or closing, so that a later acquire is not
\* refused for good, unless createSyncModule failed over it or shutdown met an acquire.
TypeOK ==
    /\ refCount \in [Ids -> Nat \cup {NotOpen}]
    /\ Range(recent) = Open /\ Len(recent) = Cardinality(Open)
    /\ pendingOpens \in [Ids -> Clients \cup {Nobody}]
    /\ pendingCloses \subseteq Ids /\ closedStores \subseteq Ids
    /\ shutdown \in [at : {"no", "closing", "done"}, ids : SUBSET Ids]
    /\ client \in [Clients -> [at : {"idle"} \cup Waiting \cup Opening \cup Holding,
                               id : Ids \cup {None}, other : Clients \cup Ids \cup {Nobody},
                               isNew : BOOLEAN]]
    /\ janitor \in [Runs -> [at : {"idle", "cleanup", "closing", "evict", "asking", "removing"},
                             toClose : SUBSET Ids, toEvict : SUBSET Ids, id : Ids \cup {None},
                             info : BOOLEAN]]
    /\ justClosed \in [Runs -> SUBSET Ids] /\ raced \in [Runs -> SUBSET Ids]
    /\ scope \in [clients : SUBSET Clients, cleanups : SUBSET Runs, stops : BOOLEAN]
    /\ lock \subseteq Ids /\ disk \subseteq Ids /\ stale \subseteq Ids /\ leaked \subseteq Ids
    /\ shutdown.at = "no" =>
          \A i \in lock \ leaked :
              \/ i \in Open \cup pendingCloses
              \/ \E c \in Clients : client[c].id = i /\ client[c].at \in Opening

Init ==
    /\ refCount = [i \in Ids |-> NotOpen] /\ recent = <<>>
    /\ pendingOpens = [i \in Ids |-> Nobody] /\ pendingCloses = {} /\ closedStores = {}
    /\ shutdown = [at |-> "no", ids |-> {}]
    /\ client = [c \in Clients |-> Idle]
    /\ janitor = [r \in Runs |-> Resting] /\ scope \in Scopes
    /\ lock = {} /\ disk = {}
    /\ stale = {} /\ leaked = {}
    /\ justClosed = [r \in Runs |-> {}] /\ raced = [r \in Runs |-> {}]

-----------------------------------------------------------------------------
\* acquire.

\* The stores map without an entry.
Without(i) ==
    IF i \in Range(recent)
    THEN LET p == CHOOSE x \in DOMAIN recent : recent[x] = i
         IN SubSeq(recent, 1, p - 1) \o SubSeq(recent, p + 1, Len(recent))
    ELSE recent
\* lastAccess = now.
Touched(i) == Append(Without(i), i)

At(c, step) == client' = [client EXCEPT ![c] = step]

\* The entry is in the stores map.
AcquireCached(c, i) ==
    /\ i \in Open
    /\ refCount' = [refCount EXCEPT ![i] = @ + 1]
    /\ recent' = Touched(i)
    /\ At(c, [Idle EXCEPT !.at = "holds", !.id = i])
    /\ UNCHANGED <<pendingOpens, pendingCloses>>

\* Another client's open is under way.
AwaitPendingOpen(c, i) ==
    /\ i \notin Open /\ pendingOpens[i] # Nobody
    /\ At(c, [Idle EXCEPT !.at = "open", !.id = i, !.other = pendingOpens[i]])
    /\ UNCHANGED <<refCount, recent, pendingOpens, pendingCloses>>

Unreferenced == {j \in Open : refCount[j] = 0}
\* lastAccess of one store is no later than that of another.
NoLater(j, k) == \E m, n \in DOMAIN recent : m <= n /\ recent[m] = j /\ recent[n] = k
AtLimit == Cardinality(Open) >= MaxOpen

\* closeStore's synchronous part: the entry leaves the map, and its close is registered.
Retire(i) ==
    /\ refCount' = [refCount EXCEPT ![i] = NotOpen]
    /\ recent' = Without(i)
    /\ pendingCloses' = pendingCloses \cup {i}

EvictLRU(c, i) ==
    /\ i \notin Open /\ pendingOpens[i] = Nobody /\ AtLimit
    /\ \E lru \in Unreferenced :
          /\ \A j \in Unreferenced : NoLater(lru, j)
          /\ Retire(lru)
          /\ At(c, [Idle EXCEPT !.at = "evict", !.id = i, !.other = lru])
    /\ UNCHANGED pendingOpens

\* Every store is referenced: evictLRU closes nothing, but it is awaited all the same.
EvictNothing(c, i) ==
    /\ i \notin Open /\ pendingOpens[i] = Nobody /\ AtLimit /\ Unreferenced = {}
    /\ At(c, [Idle EXCEPT !.at = "evicted", !.id = i])
    /\ UNCHANGED <<refCount, recent, pendingOpens, pendingCloses>>

\* openAndRestore starts: whether the directory exists is read before the first await.
StartOpen(c, i) ==
    /\ pendingOpens' = [pendingOpens EXCEPT ![i] = c]
    /\ At(c, [Idle EXCEPT !.at = "opening", !.id = i, !.isNew = i \notin disk])
    /\ UNCHANGED <<refCount, recent, pendingCloses>>

OpenDirectly(c, i) ==
    /\ i \notin Open /\ pendingOpens[i] = Nobody /\ ~AtLimit
    /\ StartOpen(c, i)

Find(c, i) ==
    \/ AcquireCached(c, i) \/ AwaitPendingOpen(c, i)
    \/ EvictLRU(c, i) \/ EvictNothing(c, i) \/ OpenDirectly(c, i)

\* Mutated form: an acquire does not wait for the close of the same database.
AcquireUnserialized(c) ==
    \E i \in Ids :
        /\ client[c].at = "idle" /\ shutdown.at = "no"
        /\ closedStores' = closedStores \ {i}
        /\ raced' = [r \in Runs |-> IF janitor[r].at \in Evicting THEN raced[r] \cup {i} ELSE raced[r]]
        /\ Find(c, i)
        /\ UNCHANGED <<shutdown, janitor, justClosed, scope, lock, disk, stale, leaked>>

Acquire(c) ==
    \E i \in Ids :
        /\ client[c].at = "idle" /\ shutdown.at = "no"
        /\ closedStores' = closedStores \ {i}
        /\ raced' = [r \in Runs |-> IF janitor[r].at \in Evicting THEN raced[r] \cup {i} ELSE raced[r]]
        /\ \/ /\ i \in pendingCloses
              /\ At(c, [Idle EXCEPT !.at = "close", !.id = i])
              /\ UNCHANGED <<refCount, recent, pendingOpens, pendingCloses>>
           \/ i \notin pendingCloses /\ Find(c, i)
        /\ UNCHANGED <<shutdown, janitor, justClosed, scope, lock, disk, stale, leaked>>

\* The close it waited for is over.  Whoever waited runs on before anything else does: the
\* reactions of a promise are queued together when it settles.
Resuming == {c \in Clients : client[c].at = "close" /\ client[c].id \notin pendingCloses}

ResumeAfterClose(c) ==
    /\ c \in Resuming
    /\ Find(c, client[c].id)
    /\ UNCHANGED <<closedStores, shutdown, janitor, justClosed, scope, lock, disk, stale, raced, leaked>>

\* A cleanup run has taken its now and not come to evictFromDisk yet.
Choosing(r) == janitor[r].at \in {"cleanup", "closing"}

\* Mutated form: the close stays registered.
ClosedStillPending(i) ==
    /\ lock' = lock \ {i}
    /\ closedStores' = closedStores \cup {i}
    /\ justClosed' = [r \in Runs |-> IF Choosing(r) THEN justClosed[r] \cup {i} ELSE justClosed[r]]
    /\ UNCHANGED pendingCloses

\* A close ends: the lock is free and the directory a candidate for eviction, though not of
\* a run that has taken its now before.
Closed(i) ==
    /\ lock' = lock \ {i}
    /\ closedStores' = closedStores \cup {i}
    /\ justClosed' = [r \in Runs |-> IF Choosing(r) THEN justClosed[r] \cup {i} ELSE justClosed[r]]
    /\ pendingCloses' = pendingCloses \ {i}

EvictDone(c) ==
    /\ client[c].at = "evict"
    /\ Closed(client[c].other)
    /\ At(c, [client[c] EXCEPT !.at = "evicted", !.other = Nobody])
    /\ UNCHANGED <<refCount, recent, pendingOpens, shutdown, janitor, scope, disk, stale, raced, leaked>>

\* acquire goes on to open without another look at the maps.
ResumeAfterEvict(c) ==
    /\ client[c].at = "evicted"
    /\ StartOpen(c, client[c].id)
    /\ stale' = IF client[c].id \in Open \cup pendingCloses \/ pendingOpens[client[c].id] # Nobody
                THEN stale \cup {client[c].id} ELSE stale
    /\ UNCHANGED <<closedStores, shutdown, janitor, justClosed, scope, lock, disk, raced, leaked>>

Waiters(c) == {w \in Clients : client[w].at = "open" /\ client[w].other = c}

\* openAndRestore rejects, for the opener and for whoever waits on its promise.
Reject(c) ==
    /\ pendingOpens' = [pendingOpens EXCEPT ![client[c].id] = Nobody]
    /\ client' = [w \in Clients |-> IF w \in Waiters(c) \cup {c} THEN Idle ELSE client[w]]
    /\ UNCHANGED <<refCount, recent, pendingCloses, closedStores, shutdown, janitor, justClosed, scope, raced>>

\* LevelDB opens the directory, making it if it is not there; it refuses one that is open.
OpenStore(c) ==
    /\ client[c].at = "opening" /\ client[c].id \notin lock
    /\ lock' = lock \cup {client[c].id} /\ disk' = disk \cup {client[c].id}
    /\ At(c, [client[c] EXCEPT !.at = "restoring"])
    /\ UNCHANGED <<manager, janitor, justClosed, scope, stale, raced, leaked>>

OpenFails(c) ==
    /\ client[c].at = "opening"
    /\ Reject(c)
    /\ UNCHANGED <<lock, disk, stale, leaked>>

\* The sync module is there and a new store restored: opener and waiters have the entry.
OpenDone(c) ==
    LET i == client[c].id
    IN /\ client[c].at = "restoring"
       /\ refCount' = [refCount EXCEPT ![i] = 1 + Cardinality(Waiters(c))]
       /\ recent' = Touched(i)
       /\ pendingOpens' = [pendingOpens EXCEPT ![i] = Nobody]
       /\ client' = [w \in Clients |-> IF w \in Waiters(c) \cup {c}
                                      THEN [Idle EXCEPT !.at = "holds", !.id = i] ELSE client[w]]
       /\ UNCHANGED <<pendingCloses, closedStores, shutdown, janitor, justClosed, scope, lock, disk, stale, raced, leaked>>

\* createSyncModule rejects: nobody closes the LevelDB that is open by now.
SyncModuleFails(c) ==
    /\ client[c].at = "restoring"
    /\ leaked' = leaked \cup {client[c].id}
    /\ Reject(c)
    /\ UNCHANGED <<lock, disk, stale>>

\* onStoreCreated rejects: the store is closed, and then the open rejects.
RestoreFails(c) ==
    /\ client[c].at = "restoring" /\ client[c].isNew
    /\ At(c, [client[c] EXCEPT !.at = "failing"])
    /\ UNCHANGED <<manager, janitor, justClosed, scope, lock, disk, stale, raced, leaked>>

\* Mutated form: the open rejects and the store stays open.
FailedStoreLeftOpen(c) ==
    /\ client[c].at = "failing"
    /\ Reject(c)
    /\ UNCHANGED <<lock, disk, stale, leaked>>

FailedStoreClosed(c) ==
    /\ client[c].at = "failing"
    /\ lock' = lock \ {client[c].id}
    /\ Reject(c)
    /\ UNCHANGED <<disk, stale, leaked>>

-----------------------------------------------------------------------------
\* release, acquireIfOpen and releasePin.

DecRef(i) ==
    refCount' = [refCount EXCEPT ![i] = CASE @ = NotOpen -> @ [] @ = 0 -> 0 [] OTHER -> @ - 1]

Release(c) ==
    /\ client[c].at = "holds"
    /\ DecRef(client[c].id)
    /\ recent' = IF client[c].id \in Open THEN Touched(client[c].id) ELSE recent
    /\ At(c, Idle)
    /\ UNCHANGED <<pendingOpens, pendingCloses, closedStores, shutdown, janitor, justClosed, scope, lock, disk, stale, raced, leaked>>

AcquireIfOpen(c) ==
    \E i \in Open :
        /\ client[c].at = "idle" /\ shutdown.at = "no"
        /\ refCount' = [refCount EXCEPT ![i] = @ + 1]
        /\ At(c, [Idle EXCEPT !.at = "pins", !.id = i])
        /\ UNCHANGED <<recent, pendingOpens, pendingCloses, closedStores, shutdown, janitor, justClosed, scope, lock, disk, stale, raced, leaked>>

ReleasePin(c) ==
    /\ client[c].at = "pins"
    /\ DecRef(client[c].id)
    /\ At(c, Idle)
    /\ UNCHANGED <<recent, pendingOpens, pendingCloses, closedStores, shutdown, janitor, justClosed, scope, lock, disk, stale, raced, leaked>>
-----------------------------------------------------------------------------
\* The cleanup timer, which starts a run although another is not over.

Go(r, step) == janitor' = [janitor EXCEPT ![r] = step]
Quiet == <<pendingOpens, shutdown, client, stale, leaked>>

\* Unreferenced stores past the idle timeout; which ones are is up to the clock.  A timer
\* fires when no reaction is queued: acquire's to the end of evictLRU, or that of another
\* run to the end of a close or of an eviction.
Cleanup(r) ==
    \E idle \in SUBSET Unreferenced :
        /\ janitor[r].at = "idle" /\ shutdown.at = "no" /\ r \in scope.cleanups
        /\ \A c \in Clients : client[c].at # "evicted"
        /\ \A q \in Runs : janitor[q].at \notin {"cleanup", "evict"}
        /\ scope' = [scope EXCEPT !.cleanups = @ \ {r}]
        /\ Go(r, [Resting EXCEPT !.at = "cleanup", !.toClose = idle])
        /\ UNCHANGED <<Quiet, refCount, recent, pendingCloses, closedStores, justClosed, lock, disk, raced>>

\* Mutated form: closeStore trusts the reference count its caller saw.
CloseIdleUnguarded(r) ==
    \E i \in janitor[r].toClose :
        /\ janitor[r].at = "cleanup"
        /\ \/ /\ i \in Open
              /\ Retire(i)
              /\ Go(r, [janitor[r] EXCEPT !.at = "closing", !.id = i, !.toClose = @ \ {i}])
           \/ /\ i \notin Open
              /\ Go(r, [janitor[r] EXCEPT !.toClose = @ \ {i}])
              /\ UNCHANGED <<refCount, recent, pendingCloses>>
        /\ UNCHANGED <<Quiet, closedStores, justClosed, scope, lock, disk, raced>>

\* closeStore, unless the store is referenced again or gone by now.
CloseIdle(r) ==
    \E i \in janitor[r].toClose :
        /\ janitor[r].at = "cleanup"
        /\ \/ /\ refCount[i] = 0
              /\ Retire(i)
              /\ Go(r, [janitor[r] EXCEPT !.at = "closing", !.id = i, !.toClose = @ \ {i}])
           \/ /\ refCount[i] # 0
              /\ Go(r, [janitor[r] EXCEPT !.toClose = @ \ {i}])
              /\ UNCHANGED <<refCount, recent, pendingCloses>>
        /\ UNCHANGED <<Quiet, closedStores, justClosed, scope, lock, disk, raced>>

CloseIdleDone(r) ==
    /\ janitor[r].at = "closing"
    /\ Closed(janitor[r].id)
    /\ Go(r, [janitor[r] EXCEPT !.at = "cleanup", !.id = None])
    /\ UNCHANGED <<Quiet, refCount, recent, scope, disk, raced>>

\* A client whose acquire of i has begun and is not over.
Acquiring(i) == \E c \in Clients : client[c].id = i /\ client[c].at \in Waiting \cup Opening

\* Mutated form: a candidate that is open again is not dropped.
EvictFromDiskUnchecked(r) ==
    /\ janitor[r].at = "cleanup" /\ janitor[r].toClose = {}
    /\ \E old \in SUBSET (closedStores \ justClosed[r]) :
          Go(r, [janitor[r] EXCEPT !.at = "evict", !.toEvict = old])
    /\ justClosed' = [justClosed EXCEPT ![r] = {}]
    /\ raced' = [raced EXCEPT ![r] = {i \in Ids : Acquiring(i)}]
    /\ UNCHANGED <<Quiet, refCount, recent, pendingCloses, closedStores, scope, lock, disk>>

\* evictFromDisk: candidates that are open or opening again are dropped, and the clock
\* says which of the others have been closed long enough, none that were closed since the
\* run began.
EvictFromDisk(r) ==
    /\ janitor[r].at = "cleanup" /\ janitor[r].toClose = {}
    /\ closedStores' = {i \in closedStores : i \notin Open /\ pendingOpens[i] = Nobody}
    /\ \E old \in SUBSET (closedStores' \ justClosed[r]) :
          Go(r, [janitor[r] EXCEPT !.at = "evict", !.toEvict = old])
    /\ justClosed' = [justClosed EXCEPT ![r] = {}]
    /\ raced' = [raced EXCEPT ![r] = {i \in Ids : Acquiring(i)}]
    /\ UNCHANGED <<Quiet, refCount, recent, pendingCloses, scope, lock, disk>>

\* onEvictStore is called for a candidate, whose record is fetched first.
AskEvict(r) ==
    \E i \in janitor[r].toEvict :
        /\ janitor[r].at = "evict"
        /\ Go(r, [janitor[r] EXCEPT !.at = "asking", !.id = i, !.info = i \in closedStores,
                                    !.toEvict = @ \ {i}])
        /\ UNCHANGED <<Quiet, refCount, recent, pendingCloses, closedStores, justClosed, scope, lock, disk, raced>>

\* It agrees, or not; without a record there is no path to delete.  A removal that fails
\* leaves things as a refusal does.
AnswerEvict(r) ==
    /\ janitor[r].at = "asking"
    /\ \/ janitor[r].info /\ Go(r, [janitor[r] EXCEPT !.at = "removing"])
       \/ Go(r, [janitor[r] EXCEPT !.at = "evict", !.id = None, !.info = FALSE])
    /\ UNCHANGED <<Quiet, refCount, recent, pendingCloses, closedStores, justClosed, scope, lock, disk, raced>>

RemoveDirectory(r) ==
    /\ janitor[r].at = "removing"
    /\ disk' = disk \ {janitor[r].id}
    /\ closedStores' = closedStores \ {janitor[r].id}
    /\ Go(r, [janitor[r] EXCEPT !.at = "evict", !.id = None, !.info = FALSE])
    /\ UNCHANGED <<Quiet, refCount, recent, pendingCloses, justClosed, scope, lock, raced>>

CleanupDone(r) ==
    /\ janitor[r].at = "evict" /\ janitor[r].toEvict = {}
    /\ Go(r, Resting) /\ raced' = [raced EXCEPT ![r] = {}]
    /\ UNCHANGED <<Quiet, refCount, recent, pendingCloses, closedStores, justClosed, scope, lock, disk>>

-----------------------------------------------------------------------------
\* shutdown closes the stores of the map, referenced or not, and then empties it.

Shutdown ==
    /\ shutdown.at = "no" /\ scope.stops
    /\ shutdown' = [at |-> "closing", ids |-> Open]
    /\ UNCHANGED <<refCount, recent, pendingOpens, pendingCloses, closedStores, client, janitor, justClosed, scope, lock, disk, stale, raced, leaked>>

ShutdownDone ==
    /\ shutdown.at = "closing"
    /\ shutdown' = [shutdown EXCEPT !.at = "done"]
    /\ lock' = lock \ shutdown.ids
    /\ refCount' = [i \in Ids |-> NotOpen] /\ recent' = <<>> /\ closedStores' = {}
    /\ UNCHANGED <<pendingOpens, pendingCloses, client, janitor, justClosed, scope, disk, stale, raced, leaked>>

-----------------------------------------------------------------------------
\* The steps that end an await.
Proceed(c) ==
    \/ EvictDone(c) \/ ResumeAfterEvict(c)
    \/ OpenStore(c) \/ OpenFails(c) \/ OpenDone(c) \/ SyncModuleFails(c)
    \/ RestoreFails(c) \/ FailedStoreClosed(c)
Tidy(r) ==
    \/ CloseIdle(r) \/ CloseIdleDone(r) \/ EvictFromDisk(r) \/ AskEvict(r) \/ AnswerEvict(r)
    \/ RemoveDirectory(r) \/ CleanupDone(r)

Step ==
    \/ \E c \in scope.clients : Acquire(c) \/ AcquireIfOpen(c) \/ Release(c) \/ ReleasePin(c) \/ Proceed(c)
    \/ \E r \in Runs : Cleanup(r) \/ Tidy(r)
    \/ Shutdown \/ ShutdownDone

Next ==
    \/ \E c \in Resuming : ResumeAfterClose(c)
    \/ Resuming = {} /\ Step

\* What is awaited ends: reads and writes of the disk, the restore, the callback.  Their
\* continuations run once the reactions queued before them have, which are finitely many.
Fairness ==
    /\ \A c \in Clients : WF_vars(ResumeAfterClose(c)) /\ WF_vars(Proceed(c))
    /\ \A r \in Runs : WF_vars(Tidy(r))
    /\ WF_vars(ShutdownDone)

Spec == Init /\ [][Next]_vars /\ Fairness

-----------------------------------------------------------------------------
\* Properties.

Holders(i) == {c \in Clients : client[c].at \in Holding /\ client[c].id = i}

\* Until shutdown, the references of an open store are its holders, one each, and what a
\* client holds is open: closeStore never closes a store an acquire has vended, whatever
\* it awaited in between, and acquireIfOpen never vends one that is being closed.
HeldStaysOpen ==
    shutdown.at = "no" =>
        \A i \in Ids : /\ i \in Open => refCount[i] = Cardinality(Holders(i)) /\ i \in lock
                      /\ Holders(i) # {} => i \in Open

\* acquire opens a LevelDB directory while it is open, or while another acquire opens it,
\* only if it waited in evictLRU in between: in every other case what pendingOpens and
\* pendingCloses said still holds when the open starts, and until it ends.
SecondOpenOnlyAfterEviction ==
    shutdown.at = "no" =>
        \A c \in Clients :
            client[c].at = "opening" /\ client[c].id \notin stale \cup leaked =>
                /\ client[c].id \notin lock
                /\ \A b \in Clients \ {c} : client[b].at \in Opening => client[b].id # client[c].id

\* evictFromDisk is about to delete a directory in use only if an acquire of that database
\* was under way when the run chose its candidates, or came since: whatever was closed, and
\* opened again, before then is never deleted.
EvictsUnused ==
    \A r \in Runs :
        janitor[r].at = "removing" /\ (janitor[r].id \in Open \/ Acquiring(janitor[r].id))
            => janitor[r].id \in raced[r]

\* evictFromDisk deletes the directories of closed stores only.
EvictsClosedOnly == \A r \in Runs : janitor[r].at = "removing" => janitor[r].id \notin lock

\* Every acquire is answered, with an entry or an error, if what it awaits ends: nobody
\* waits on a promise whose open was superseded in pendingOpens.
AcquireAnswered ==
    \A c \in Clients : client[c].at \in Waiting \cup Opening ~> client[c].at \in Holding \cup {"idle"}
=============================================================================
