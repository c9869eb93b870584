-------------------------- MODULE ExecutionMutex --------------------------
(***************************************************************************)
(* The execution mutex of a Database, watch handlers, committed reads and  *)
(* close().                                                                *)
(*                                                                         *)
(* The mutex is a chain of promises: a caller replaces execMutex by a new  *)
(* promise (its slot), awaits the one that was there, and resolves its own *)
(* when it is done.  A commit hands the promises of the watch handlers it  *)
(* called to the hold it runs under; the holder awaits them after it       *)
(* released the mutex.  A handler may run a statement or await close().    *)
(* close() refuses new work, interrupts open iterators, awaits committed   *)
(* reads (which take no mutex), and tears down at the end of the queue.    *)
(*                                                                         *)
(* Every await is a place where others run: a call is split at each.       *)
(***************************************************************************)
EXTENDS Integers, FiniteSets

CONSTANTS
    Iterations,  \* row iterators: they advance when their consumer pulls
    Execs,       \* statements that run by themselves (exec, commit, ingest)
    Handlers,    \* calls of asynchronous watch handlers
    Reads,       \* mutex-free committed reads
    Closer,      \* close()
    Nobody

Callers == Iterations \cup Execs \cup Handlers
Parties == Callers \cup {Closer}

ASSUME PartiesAssumption ==
    /\ Iterations \cap (Execs \cup Handlers) = {} /\ Execs \cap Handlers = {}
    /\ Reads \cap Parties = {} /\ Closer \notin Callers /\ Nobody \notin Parties

VARIABLES
    isOpen,      \* isOpen of the Database
    tail,        \* number of slots made; execMutex is slot `tail', slot 0 is resolved
    resolved,    \* slots whose promise is resolved
    slot,        \* per party: its slot, 0 if it has none
    pc,          \* per party: where it is
    depth,       \* execMutexDepth
    hold,        \* whose list watchHandlersOfHold is
    deferred,    \* per party: the watch handlers of its hold
    iterating,   \* serializedIterations
    reading,     \* committedReads
    interrupted, \* iterations and reads that close() interrupted
    firedBy      \* what the properties look at: in whose commit a handler was called

mutex == <<tail, resolved, slot, depth, hold, deferred>>
vars == <<isOpen, mutex, pc, iterating, reading, interrupted, firedBy>>

\* Where a party is: not started; a handler called; close() awaiting committed reads; in
\* the queue; past the await in takeExecMutex; past the first check; executing; awaiting
\* the handlers of its hold; a handler awaiting close(); settled.
Places == {"idle", "fired", "stopping", "waiting", "taken", "acquired", "running",
           "awaiting", "awaitsClose", "done"}
Holding == {"taken", "acquired", "running"}

TypeOK ==
    /\ isOpen \in BOOLEAN
    /\ tail \in Nat /\ resolved \subseteq 1..tail
    /\ slot \in [Parties -> 0..tail]
    /\ pc \in [Parties -> Places]
    /\ depth \in {0, 1}
    /\ hold \in Parties \cup {Nobody}
    /\ deferred \in [Parties -> SUBSET Handlers]
    /\ iterating \subseteq Iterations
    /\ reading \subseteq Reads
    /\ interrupted \subseteq Iterations \cup Reads
    /\ firedBy \in [Handlers -> Parties \cup {Nobody}]

Init ==
    /\ isOpen = TRUE
    /\ tail = 0 /\ resolved = {} /\ slot = [p \in Parties |-> 0]
    /\ pc = [p \in Parties |-> "idle"]
    /\ depth = 0 /\ hold = Nobody /\ deferred = [p \in Parties |-> {}]
    /\ iterating = {} /\ reading = {} /\ interrupted = {}
    /\ firedBy = [h \in Handlers |-> Nobody]

Goto(p, place) == pc' = [pc EXCEPT ![p] = place]

-----------------------------------------------------------------------------
\* The mutex.

\* takeExecMutex, up to its await.
Enqueue(p) ==
    /\ tail' = tail + 1
    /\ slot' = [slot EXCEPT ![p] = tail + 1]
    /\ Goto(p, "waiting")
    /\ UNCHANGED <<resolved, depth, hold, deferred>>

TakeUnawaited(p) ==
    /\ pc[p] = "waiting"
    /\ depth' = depth + 1
    /\ hold' = p /\ deferred' = [deferred EXCEPT ![p] = {}]
    /\ Goto(p, IF p = Closer THEN "running" ELSE "taken")
    /\ UNCHANGED <<isOpen, tail, resolved, slot, iterating, reading, interrupted, firedBy>>

\* takeExecMutex, after its await.  close() goes on without a check.
Take(p) ==
    /\ pc[p] = "waiting"
    /\ slot[p] = 1 \/ slot[p] - 1 \in resolved
    /\ depth' = depth + 1
    /\ hold' = p /\ deferred' = [deferred EXCEPT ![p] = {}]
    /\ Goto(p, IF p = Closer THEN "running" ELSE "taken")
    /\ UNCHANGED <<isOpen, tail, resolved, slot, iterating, reading, interrupted, firedBy>>

\* The release function, up to its await.
Release(p) ==
    /\ depth' = depth - 1 /\ hold' = Nobody
    /\ resolved' = resolved \cup {slot[p]}
    /\ Goto(p, "awaiting")
    /\ UNCHANGED <<tail, slot, deferred>>

ReleasedUnawaited(p) ==
    /\ pc[p] = "awaiting"
    /\ Goto(p, "done")
    /\ UNCHANGED <<isOpen, mutex, iterating, reading, interrupted, firedBy>>

\* The release function, after its await.
Released(p) ==
    /\ pc[p] = "awaiting"
    /\ \A h \in deferred[p] : pc[h] = "done"
    /\ Goto(p, "done")
    /\ UNCHANGED <<isOpen, mutex, iterating, reading, interrupted, firedBy>>

-----------------------------------------------------------------------------
\* A statement.

\* The call, or an iterator's first pull, or a handler that runs a statement.
Call(x) ==
    /\ pc[x] = IF x \in Handlers THEN "fired" ELSE "idle"
    /\ IF isOpen THEN Enqueue(x) ELSE Goto(x, "done") /\ UNCHANGED mutex
    /\ UNCHANGED <<isOpen, iterating, reading, interrupted, firedBy>>

\* _acquireExecMutex: whoever gets the mutex of a closed database gives it back.
Check(x) ==
    /\ pc[x] = "taken"
    /\ IF isOpen THEN Goto(x, "acquired") /\ UNCHANGED mutex ELSE Release(x)
    /\ UNCHANGED <<isOpen, iterating, reading, interrupted, firedBy>>

StartUnchecked(x) ==
    /\ pc[x] = "acquired"
    /\ Goto(x, "running")
    /\ iterating' = IF x \in Iterations THEN iterating \cup {x} ELSE iterating
    /\ UNCHANGED <<isOpen, mutex, reading, interrupted, firedBy>>

\* An iteration registers and checks again in one step.
Start(x) ==
    /\ pc[x] = "acquired"
    /\ IF x \in Iterations /\ ~isOpen
         THEN Release(x) /\ UNCHANGED iterating
         ELSE /\ Goto(x, "running") /\ UNCHANGED mutex
              /\ iterating' = IF x \in Iterations THEN iterating \cup {x} ELSE iterating
    /\ UNCHANGED <<isOpen, reading, interrupted, firedBy>>

\* A commit of x calls the watch handler h, whose promise goes to the hold there is.
Fire(x, h) ==
    /\ pc[x] = "running" /\ pc[h] = "idle"
    /\ Goto(h, "fired")
    /\ firedBy' = [firedBy EXCEPT ![h] = x]
    /\ deferred' = IF hold = Nobody THEN deferred ELSE [deferred EXCEPT ![hold] = @ \cup {h}]
    /\ UNCHANGED <<isOpen, tail, resolved, slot, depth, hold, iterating, reading, interrupted>>

\* The statement is over, its implicit transaction finalized.
Finish(x) ==
    /\ pc[x] = "running"
    /\ Release(x)
    /\ iterating' = iterating \ {x}
    /\ UNCHANGED <<isOpen, reading, interrupted, firedBy>>

\* _beginCommittedRead and _endCommittedRead.
BeginRead(r) ==
    /\ isOpen /\ r \notin reading /\ r \notin interrupted
    /\ reading' = reading \cup {r}
    /\ UNCHANGED <<isOpen, mutex, pc, iterating, interrupted, firedBy>>

EndRead(r) ==
    /\ r \in reading
    /\ reading' = reading \ {r}
    /\ UNCHANGED <<isOpen, mutex, pc, iterating, interrupted, firedBy>>

-----------------------------------------------------------------------------
\* close() and the handlers.

CloseSkipsReads ==
    /\ pc[Closer] = "stopping"
    /\ Enqueue(Closer)
    /\ UNCHANGED <<isOpen, iterating, reading, interrupted, firedBy>>

\* closeAfterRunningWork, up to its first await.
StopWork ==
    /\ isOpen' = FALSE
    /\ interrupted' = interrupted \cup iterating \cup reading

\* The first call of close(); later calls return its promise.
Close ==
    /\ pc[Closer] = "idle"
    /\ StopWork
    /\ Goto(Closer, "stopping")
    /\ UNCHANGED <<mutex, iterating, reading, firedBy>>

\* The interrupted reads have unwound; interrupted iterations are left to the mutex.
CloseQueues ==
    /\ pc[Closer] = "stopping"
    /\ reading \cap interrupted = {}
    /\ Enqueue(Closer)
    /\ UNCHANGED <<isOpen, iterating, reading, interrupted, firedBy>>

\* tearDown.
TearDown ==
    /\ pc[Closer] = "running"
    /\ Release(Closer)
    /\ UNCHANGED <<isOpen, iterating, reading, interrupted, firedBy>>

\* A handler settles without using the database, or awaits close().
Settle(h) ==
    /\ pc[h] = "fired"
    /\ Goto(h, "done")
    /\ UNCHANGED <<isOpen, mutex, iterating, reading, interrupted, firedBy>>

AwaitClose(h) ==
    /\ pc[h] = "fired"
    /\ IF pc[Closer] = "idle"
         THEN StopWork /\ pc' = [pc EXCEPT ![h] = "awaitsClose", ![Closer] = "stopping"]
         ELSE Goto(h, "awaitsClose") /\ UNCHANGED <<isOpen, interrupted>>
    /\ UNCHANGED <<mutex, iterating, reading, firedBy>>

CloseAwaited(h) ==
    /\ pc[h] = "awaitsClose" /\ pc[Closer] = "done"
    /\ Goto(h, "done")
    /\ UNCHANGED <<isOpen, mutex, iterating, reading, interrupted, firedBy>>

Next ==
    \/ Close
    \/ CloseQueues
    \/ TearDown
    \/ \E p \in Parties : Take(p) \/ Released(p)
    \/ \E x \in Callers :
        \/ Call(x)
        \/ Check(x)
        \/ Start(x)
        \/ Finish(x)
        \/ \E h \in Handlers : Fire(x, h)
    \/ \E h \in Handlers : Settle(h) \/ AwaitClose(h) \/ CloseAwaited(h)
    \/ \E r \in Reads : BeginRead(r) \/ EndRead(r)

\* A continuation whose promise resolved runs; a statement that runs by itself ends; a
\* called handler does something.  A consumer need not pull its iterator again: only an
\* interrupted iteration or read is sure to unwind.
Fairness ==
    /\ WF_vars(CloseQueues) /\ WF_vars(TearDown)
    /\ \A p \in Parties : WF_vars(Take(p)) /\ WF_vars(Released(p))
    /\ \A x \in Callers : WF_vars(Check(x)) /\ WF_vars(Start(x))
    /\ \A x \in Execs \cup Handlers : WF_vars(Finish(x))
    /\ \A x \in Iterations : WF_vars(x \in interrupted /\ Finish(x))
    /\ \A r \in Reads : WF_vars(r \in interrupted /\ EndRead(r))
    /\ \A h \in Handlers :
        /\ WF_vars(Call(h) \/ Settle(h) \/ AwaitClose(h))
        /\ WF_vars(CloseAwaited(h))

Spec == Init /\ [][Next]_vars

FairSpec == Spec /\ Fairness

-----------------------------------------------------------------------------
\* At most one party is between getting the mutex and releasing it, and the depth that
\* _isExecuting and _finalizeImplicitTransaction read is positive exactly then.
MutualExclusion ==
    /\ \A p, q \in Parties : pc[p] \in Holding /\ pc[q] \in Holding => p = q
    /\ depth > 0 <=> \E p \in Parties : pc[p] \in Holding

\* From the start of the teardown on, nothing reads or writes: no statement executes,
\* is about to, or ever will again, and no committed read is open.
TearDownAlone ==
    pc[Closer] \in {"running", "awaiting", "done"} =>
        /\ \A x \in Callers : pc[x] \notin Holding \cup {"waiting"}
        /\ reading = {}

\* A statement's promise settles only after every watch handler its commits called.
HandlersAwaited ==
    \A h \in Handlers : firedBy[h] # Nobody /\ pc[firedBy[h]] = "done" => pc[h] = "done"

\* Once close() is called it resolves, whoever calls it and whatever is abandoned, and
\* everything that ever started settles.
CloseEnds ==
    pc[Closer] # "idle" ~> \A p \in Parties : pc[p] = "done" \/ (p # Closer /\ pc[p] = "idle")
-----------------------------------------------------------------------------
\* The inductive invariant of the proofs.

\* The hold is the party that has the mutex, and the depth counts it.
HoldInv ==
    /\ \A p \in Parties : pc[p] \in Holding <=> hold = p
    /\ depth = IF hold = Nobody THEN 0 ELSE 1

\* Slots are resolved from the first on and no two parties have the same; a party that
\* waits or holds has an unresolved one, and a holder's is the first unresolved one.
SlotInv ==
    /\ \A s \in resolved : \A t \in 1..s : t \in resolved
    /\ \A p, q \in Parties : slot[p] = slot[q] /\ slot[p] # 0 => p = q
    /\ \A p \in Parties : pc[p] \in Holding \cup {"waiting"} => slot[p] # 0 /\ slot[p] \notin resolved
    /\ \A p \in Parties : pc[p] \in Holding => \A t \in 1..(slot[p] - 1) : t \in resolved

\* close() has the last slot there will be, and took it when no read was left.
CloseInv ==
    /\ pc[Closer] \in {"idle", "stopping", "waiting", "running", "awaiting", "done"}
    /\ isOpen <=> pc[Closer] = "idle"
    /\ ~isOpen => reading \subseteq interrupted
    /\ pc[Closer] \in {"waiting", "running", "awaiting", "done"} => slot[Closer] = tail /\ reading = {}
    /\ pc[Closer] \in {"awaiting", "done"} => tail \in resolved

\* The handlers a party's commits called are on the list it awaits, which is empty until
\* it executes.
HandlerInv ==
    /\ \A h \in Handlers : firedBy[h] # Nobody => h \in deferred[firedBy[h]]
    /\ \A p \in Parties : deferred[p] # {} => pc[p] \in {"running", "awaiting", "done"}
    /\ \A p \in Parties : pc[p] = "done" => \A h \in deferred[p] : pc[h] = "done"

\* All of the above, in every reachable state of the mutex, its handlers and close().
IInv == TypeOK /\ HoldInv /\ SlotInv /\ CloseInv /\ HandlerInv
=============================================================================
