------------------------- MODULE StoreManagerProofs -------------------------
(***************************************************************************)
(* That a store somebody holds stays open, that a directory is opened a    *)
(* second time only after a wait in evictLRU, that the directory of a      *)
(* database is deleted in use only if an acquire raced the evictor, and    *)
(* that the order in which evictLRU chooses lists the open stores, each    *)
(* once: for any databases, any finite set of clients and any limit.       *)
(*                                                                         *)
(* What carries the argument is the lock of LevelDB: an open directory has *)
(* one owner, the entry in the stores map, a close that is under way, or   *)
(* an open past OpenStore, and each of these ends for one database without *)
(* touching the owner of another.                                          *)
(***************************************************************************)
EXTENDS StoreManager, FiniteSetTheorems, TLAPS

-----------------------------------------------------------------------------
(* The inductive invariant, and the steps of an acquire up to its open. *)

Run == [at : {"idle", "cleanup", "closing", "evict", "asking", "removing"},
        toClose : SUBSET Ids, toEvict : SUBSET Ids, id : Ids \cup {None}, info : BOOLEAN]

Shapes ==
    /\ refCount \in [Ids -> Nat \cup {NotOpen}]
    /\ pendingOpens \in [Ids -> Clients \cup {Nobody}]
    /\ pendingCloses \subseteq Ids /\ closedStores \subseteq Ids
    /\ shutdown \in [at : {"no", "closing", "done"}, ids : SUBSET Ids]
    /\ client \in [Clients -> [at : {"idle"} \cup Waiting \cup Opening \cup Holding,
                               id : Ids \cup {None}, other : Clients \cup Ids \cup {Nobody},
                               isNew : BOOLEAN]]
    /\ janitor \in [Runs -> Run]
    /\ justClosed \in [Runs -> SUBSET Ids] /\ raced \in [Runs -> SUBSET Ids]
    /\ scope \in [clients : SUBSET Clients, cleanups : SUBSET Runs, stops : BOOLEAN]
    /\ lock \subseteq Ids /\ disk \subseteq Ids
    /\ stale \subseteq Ids /\ leaked \subseteq Ids

\* What a call that is not over is about; who waits on an open waits on one under way.
CallInv ==
    /\ \A c \in Clients :
          /\ client[c].at # "idle" => client[c].id \in Ids
          /\ client[c].at = "open" => /\ client[c].other \in Clients
                                      /\ client[client[c].other].at \in Opening
          /\ client[c].at = "evict" => client[c].other \in Ids
    /\ \A r \in Runs : janitor[r].at \in {"closing", "asking", "removing"} => janitor[r].id \in Ids

\* A registered open is under way.
PendingInv ==
    \A i \in Ids : pendingOpens[i] # Nobody =>
        client[pendingOpens[i]].at \in Opening /\ client[pendingOpens[i]].id = i

\* An open that has got past OpenStore.
Loaded(c) == client[c].at \in {"restoring", "failing"}

\* The owners of the locks: each has its own.
LockInv ==
    shutdown.at = "no" =>
        /\ Open \subseteq lock /\ pendingCloses \subseteq lock /\ Open \cap pendingCloses = {}
        /\ \A c \in Clients : Loaded(c) => client[c].id \in lock \ (Open \cup pendingCloses)
        /\ \A b, c \in Clients : Loaded(b) /\ Loaded(c) /\ client[b].id = client[c].id => b = c
        /\ \A i \in lock \ leaked :
              i \in Open \cup pendingCloses \/ \E c \in Clients : Loaded(c) /\ client[c].id = i

\* The closes under way: each has its own.
CloserInv ==
    shutdown.at = "no" =>
        /\ \A c \in Clients : client[c].at = "evict" => client[c].other \in pendingCloses
        /\ \A r \in Runs : janitor[r].at = "closing" => janitor[r].id \in pendingCloses
        /\ \A b, c \in Clients :
              client[b].at = "evict" /\ client[c].at = "evict" /\ client[b].other = client[c].other => b = c
        /\ \A c \in Clients, r \in Runs :
              client[c].at = "evict" /\ janitor[r].at = "closing" => client[c].other # janitor[r].id
        /\ \A q, r \in Runs :
              janitor[q].at = "closing" /\ janitor[r].at = "closing" /\ janitor[q].id = janitor[r].id => q = r

\* The references of an open store are its holders, and what is held is open.
CountInv ==
    shutdown.at = "no" =>
        /\ \A i \in Open : refCount[i] = Cardinality(Holders(i))
        /\ \A c \in Clients : client[c].at \in Holding => client[c].id \in Open

\* An open is the registered one of its database, which is neither open nor closing,
\* unless it was started after a wait in evictLRU when it was not.
OpenInv ==
    shutdown.at = "no" =>
        \A c \in Clients : client[c].at \in Opening /\ client[c].id \notin stale =>
            pendingOpens[client[c].id] = c /\ client[c].id \notin Open \cup pendingCloses

\* The candidates of a run are closed, or an acquire is known to have come.
EvictRun(r) ==
    janitor[r].at \in Evicting =>
        \A i \in Ids : /\ i \in janitor[r].toEvict \/ (janitor[r].at # "evict" /\ i = janitor[r].id)
                       /\ i \in Open \/ Acquiring(i)
                       => i \in raced[r]

EvictInv == \A r \in Runs : EvictRun(r)

IInv ==
    /\ Shapes /\ CallInv /\ PendingInv /\ LockInv
    /\ CloserInv /\ CountInv /\ OpenInv /\ EvictInv

-----------------------------------------------------------------------------
\* A manager with no store open.
LEMMA InitInv == Init => IInv
<1> SUFFICES ASSUME Init PROVE IInv
  OBVIOUS
<1> USE ConstantsAssumption DEF Init, Idle, Resting, NotOpen, Open
<1>1. Shapes
  <2>1. /\ refCount \in [Ids -> Nat \cup {NotOpen}] /\ pendingOpens \in [Ids -> Clients \cup {Nobody}]
        /\ pendingCloses \subseteq Ids /\ closedStores \subseteq Ids
        /\ shutdown \in [at : {"no", "closing", "done"}, ids : SUBSET Ids]
        /\ justClosed \in [Runs -> SUBSET Ids] /\ raced \in [Runs -> SUBSET Ids]
        /\ lock \subseteq Ids /\ disk \subseteq Ids /\ stale \subseteq Ids /\ leaked \subseteq Ids
    OBVIOUS
  <2>2. client \in [Clients -> [at : {"idle"} \cup Waiting \cup Opening \cup Holding,
                               id : Ids \cup {None}, other : Clients \cup Ids \cup {Nobody},
                               isNew : BOOLEAN]]
    OBVIOUS
  <2>3. Resting \in Run
    BY DEF Run
  <2>4. janitor \in [Runs -> Run]
    BY Zenon, <2>3
  <2>5. scope \in [clients : SUBSET Clients, cleanups : SUBSET Runs, stops : BOOLEAN]
    OBVIOUS
  <2> QED
    BY Zenon, <2>1, <2>2, <2>4, <2>5 DEF Shapes
<1>2. CallInv /\ PendingInv /\ EvictInv
  BY DEF CallInv, PendingInv, EvictInv, EvictRun, Evicting
<1>3. LockInv /\ CloserInv
  BY DEF LockInv, CloserInv, Loaded
<1>4. CountInv /\ OpenInv
  BY DEF CountInv, OpenInv, Holding, Opening
<1> QED
  BY <1>1, <1>2, <1>3, <1>4 DEF IInv

\* Holders are clients, so they can be counted.
LEMMA HoldersFinite ==
    ASSUME NEW i
    PROVE  IsFiniteSet(Holders(i)) /\ Cardinality(Holders(i)) \in Nat
BY ConstantsAssumption, FS_Subset, FS_CardinalityType DEF Holders

\* One more and one fewer, as the counting of references needs it.
LEMMA OneMore ==
    ASSUME NEW S, IsFiniteSet(S), NEW x, x \notin S
    PROVE  /\ IsFiniteSet(S \cup {x}) /\ Cardinality(S \cup {x}) \in Nat /\ Cardinality(S) \in Nat
           /\ Cardinality(S \cup {x}) = Cardinality(S) + 1
BY FS_AddElement, FS_CardinalityType

\* A set with one element fewer.
LEMMA OneFewer ==
    ASSUME NEW S, IsFiniteSet(S), NEW x, x \in S
    PROVE  Cardinality(S) \in Nat \ {0} /\ Cardinality(S \ {x}) = Cardinality(S) - 1
<1>1. IsFiniteSet(S \ {x}) /\ S = (S \ {x}) \cup {x} /\ x \notin S \ {x}
  BY FS_Subset
<1>2. Cardinality(S) = Cardinality(S \ {x}) + 1 /\ Cardinality(S \ {x}) \in Nat
  BY <1>1, OneMore
<1> QED
  BY <1>2

-----------------------------------------------------------------------------
\* acquire, once the close of the same database is over.

\* What a step of acquire leaves alone, and that the evictor is told of it.
Asks(c, i) ==
    /\ client[c].at \in {"idle", "close"} /\ i \notin pendingCloses
    /\ UNCHANGED <<shutdown, janitor, justClosed, scope, lock, disk, stale, leaked>>
    /\ closedStores' \subseteq closedStores
    /\ (\A r \in Runs : raced[r] \subseteq raced'[r]) /\ raced' \in [Runs -> SUBSET Ids]
    /\ \A r \in Runs : janitor[r].at \in Evicting => i \in raced'[r] \/ Acquiring(i)

\* What one client's step does to the invariants that speak of the others only through
\* that client.
LEMMA CallSteps ==
    ASSUME IInv, NEW c \in Clients, NEW step, client' = [client EXCEPT ![c] = step]
    PROVE  /\ client'[c] = step
           /\ \A b \in Clients \ {c} : client'[b] = client[b]
           /\ \A b \in Clients \ {c} : Loaded(b)' <=> Loaded(b)
BY DEF IInv, Shapes, Loaded

\* A client takes a reference to a store that is open: one holder more, one reference more.
LEMMA TakeInv ==
    ASSUME NEW c \in Clients, NEW i \in Ids, i \in Open, IInv, client[c].at \in {"idle", "close"},
           UNCHANGED <<pendingOpens, pendingCloses, shutdown, janitor, justClosed, scope, lock, disk, stale, leaked>>,
           closedStores' \subseteq closedStores, \A r \in Runs : raced[r] \subseteq raced'[r], raced' \in [Runs -> SUBSET Ids],
           refCount' = [refCount EXCEPT ![i] = @ + 1],
           NEW step \in [at : Holding, id : {i}, other : {Nobody}, isNew : BOOLEAN],
           client' = [client EXCEPT ![c] = step]
    PROVE  IInv'
<1>1. step.at \in {"holds", "pins"} /\ step.id = i
  BY DEF Holding
<1>2. /\ client'[c] = step
      /\ \A b \in Clients \ {c} : client'[b] = client[b] /\ (Loaded(b)' <=> Loaded(b))
  BY Zenon, CallSteps
<1>3. Open' = Open /\ refCount \in [Ids -> Nat \cup {NotOpen}] /\ refCount[i] \in Nat
  BY DEF IInv, Shapes, Open, NotOpen
<1>4. Shapes'
  <2>1. refCount' \in [Ids -> Nat \cup {NotOpen}]
    BY <1>3
  <2>2. client' \in [Clients -> [at : {"idle"} \cup Waiting \cup Opening \cup Holding,
                                 id : Ids \cup {None}, other : Clients \cup Ids \cup {Nobody},
                                 isNew : BOOLEAN]]
    BY DEF IInv, Shapes
  <2> QED
    BY <2>1, <2>2 DEF IInv, Shapes
<1>5. CallInv'
  BY <1>1, <1>2 DEF IInv, CallInv, Opening
<1>6. PendingInv'
  BY <1>1, <1>2 DEF IInv, Shapes, PendingInv, Opening
<1>7. LockInv'
  BY <1>1, <1>2, <1>3 DEF IInv, LockInv, Loaded
<1>8. CloserInv'
  BY <1>1, <1>2 DEF IInv, CloserInv
<1>9. CountInv'
  <2> SUFFICES ASSUME shutdown.at = "no" PROVE CountInv'
    BY DEF CountInv
  <2>1. c \notin Holders(i) /\ Holders(i)' = Holders(i) \cup {c}
    BY <1>1, <1>2 DEF Holders, Holding
  <2>2. \A j \in Ids \ {i} : Holders(j)' = Holders(j)
    BY <1>1, <1>2 DEF Holders, Holding
  <2>3. Cardinality(Holders(i)') = Cardinality(Holders(i)) + 1
    BY <2>1, HoldersFinite, OneMore
  <2>4. \A j \in Open : refCount'[j] = Cardinality(Holders(j))'
    BY <1>3, <2>2, <2>3 DEF IInv, CountInv, Open
  <2>5. \A b \in Clients : client'[b].at \in Holding => client'[b].id \in Open
    BY <1>1, <1>2 DEF IInv, CountInv
  <2> QED
    BY <1>3, <2>4, <2>5 DEF CountInv
<1>10. OpenInv'
  BY <1>1, <1>2, <1>3 DEF IInv, OpenInv, Opening
<1>11. EvictInv'
  BY <1>1, <1>2, <1>3 DEF IInv, EvictInv, EvictRun, Acquiring, Waiting, Opening, Holding
<1> QED
  BY <1>4, <1>5, <1>6, <1>7, <1>8, <1>9, <1>10, <1>11 DEF IInv

\* acquire finds the store open.
LEMMA AcquireCachedInv ==
    ASSUME NEW c \in Clients, NEW i \in Ids, IInv, Asks(c, i), AcquireCached(c, i)
    PROVE  IInv'
<1> DEFINE step == [Idle EXCEPT !.at = "holds", !.id = i]
<1>1. step \in [at : Holding, id : {i}, other : {Nobody}, isNew : BOOLEAN]
  BY Zenon DEF Idle, Holding
<1>2. /\ i \in Open /\ refCount' = [refCount EXCEPT ![i] = @ + 1]
      /\ client' = [client EXCEPT ![c] = step]
  BY DEF AcquireCached, At
<1> HIDE DEF step
<1> QED
  BY Zenon, <1>1, <1>2, TakeInv DEF Asks, AcquireCached

\* acquireIfOpen vends only what is in the stores map.
LEMMA AcquireIfOpenInv ==
    ASSUME NEW c \in Clients, IInv, AcquireIfOpen(c)
    PROVE  IInv'
<1>1. PICK i \in Ids :
          /\ i \in Open /\ client[c].at = "idle" /\ refCount' = [refCount EXCEPT ![i] = @ + 1]
          /\ client' = [client EXCEPT ![c] = [Idle EXCEPT !.at = "pins", !.id = i]]
          /\ UNCHANGED <<pendingOpens, pendingCloses, closedStores, shutdown, janitor, justClosed, scope, lock, disk, stale, raced, leaked>>
  BY Zenon DEF AcquireIfOpen, At, Open
<1> DEFINE step == [Idle EXCEPT !.at = "pins", !.id = i]
<1>2. step \in [at : Holding, id : {i}, other : {Nobody}, isNew : BOOLEAN]
  BY Zenon DEF Idle, Holding
<1>3. client' = [client EXCEPT ![c] = step] /\ raced \in [Runs -> SUBSET Ids]
  BY <1>1 DEF IInv, Shapes
<1> HIDE DEF step
<1> QED
  BY Zenon, <1>1, <1>2, <1>3, TakeInv

\* The steps that make a client wait and touch nothing else: for another's open, for the
\* close of the same database, or in an evictLRU that closes nothing.
LEMMA WaitInv ==
    ASSUME NEW c \in Clients, NEW i \in Ids, IInv, client[c].at \in {"idle", "close"},
           UNCHANGED <<refCount, pendingOpens, pendingCloses, shutdown, janitor, justClosed, scope, lock, disk, stale, leaked>>,
           closedStores' \subseteq closedStores, \A r \in Runs : raced[r] \subseteq raced'[r], raced' \in [Runs -> SUBSET Ids],
           \A r \in Runs : janitor[r].at \in Evicting => i \in raced'[r] \/ Acquiring(i),
           NEW step \in [at : {"close", "open", "evicted"}, id : {i}, other : Clients \cup {Nobody}, isNew : BOOLEAN],
           step.at = "open" => step.other \in Clients /\ client[step.other].at \in Opening,
           client' = [client EXCEPT ![c] = step]
    PROVE  IInv'
<1>1. /\ client'[c] = step
      /\ \A b \in Clients \ {c} : client'[b] = client[b] /\ (Loaded(b)' <=> Loaded(b))
  BY Zenon, CallSteps
<1>2. Open' = Open
  BY DEF Open
<1>3. Shapes'
  BY DEF IInv, Shapes, Waiting
<1>4. CallInv'
  BY <1>1 DEF IInv, CallInv, Opening
<1>5. PendingInv'
  BY <1>1 DEF IInv, Shapes, PendingInv, Opening
<1>6. LockInv'
  BY <1>1, <1>2 DEF IInv, LockInv, Loaded
<1>7. CloserInv'
  BY <1>1 DEF IInv, CloserInv
<1>8. CountInv'
  <2>1. \A j \in Ids : Holders(j)' = Holders(j)
    BY <1>1 DEF Holders, Holding
  <2> QED
    BY <1>1, <1>2, <2>1 DEF IInv, CountInv, Open, Holding
<1>9. OpenInv'
  BY <1>1, <1>2 DEF IInv, OpenInv, Opening
<1>10. EvictInv'
  BY <1>1, <1>2 DEF IInv, EvictInv, EvictRun, Acquiring, Waiting, Opening
<1> QED
  BY <1>3, <1>4, <1>5, <1>6, <1>7, <1>8, <1>9, <1>10 DEF IInv

\* The open it finds registered is under way.
LEMMA AwaitPendingOpenInv ==
    ASSUME NEW c \in Clients, NEW i \in Ids, IInv, Asks(c, i), AwaitPendingOpen(c, i)
    PROVE  IInv'
<1> DEFINE step == [Idle EXCEPT !.at = "open", !.id = i, !.other = pendingOpens[i]]
<1>1. step \in [at : {"close", "open", "evicted"}, id : {i}, other : Clients \cup {Nobody}, isNew : BOOLEAN]
  BY Zenon DEF IInv, Shapes, Idle
<1>2. step.other \in Clients /\ client[step.other].at \in Opening
  BY DEF IInv, Shapes, PendingInv, Idle, AwaitPendingOpen
<1>3. client' = [client EXCEPT ![c] = step]
  BY DEF AwaitPendingOpen, At
<1> QED
  BY Zenon, <1>1, <1>2, <1>3, WaitInv DEF Asks, AwaitPendingOpen

\* An evictLRU that finds every store referenced.
LEMMA EvictNothingInv ==
    ASSUME NEW c \in Clients, NEW i \in Ids, IInv, Asks(c, i), EvictNothing(c, i)
    PROVE  IInv'
<1> DEFINE step == [Idle EXCEPT !.at = "evicted", !.id = i]
<1>1. step \in [at : {"close", "open", "evicted"}, id : {i}, other : Clients \cup {Nobody}, isNew : BOOLEAN]
  BY Zenon DEF Idle
<1>2. step.at # "open"
  BY DEF Idle
<1>3. client' = [client EXCEPT ![c] = step]
  BY DEF EvictNothing, At
<1> QED
  BY Zenon, <1>1, <1>2, <1>3, WaitInv DEF Asks, EvictNothing

\* A store without references has no holders, so closing it takes nothing from anybody.
LEMMA RetireFacts ==
    ASSUME NEW j \in Ids, IInv, refCount[j] = 0, Retire(j)
    PROVE  /\ Open' = Open \ {j} /\ j \in Open
           /\ refCount' \in [Ids -> Nat \cup {NotOpen}]
           /\ \A i \in Open' : refCount'[i] = refCount[i]
           /\ shutdown.at = "no" => \A c \in Clients : client[c].at \in Holding => client[c].id # j
<1>1. refCount' = [refCount EXCEPT ![j] = NotOpen] /\ refCount \in [Ids -> Nat \cup {NotOpen}]
  BY DEF Retire, IInv, Shapes
<1>2. Open' = Open \ {j} /\ j \in Open /\ \A i \in Open' : refCount'[i] = refCount[i]
  BY <1>1 DEF Open, NotOpen
<1>3. refCount' \in [Ids -> Nat \cup {NotOpen}]
  BY <1>1
<1>4. ASSUME shutdown.at = "no", NEW c \in Clients, client[c].at \in Holding, client[c].id = j
      PROVE  FALSE
  <2>1. Cardinality(Holders(j)) = 0
    BY <1>2, <1>4 DEF IInv, CountInv
  <2>2. Holders(j) = {}
    BY <2>1, HoldersFinite, FS_EmptySet
  <2> QED
    BY <1>4, <2>2 DEF Holders
<1> QED
  BY <1>2, <1>3, <1>4

\* evictLRU closes an unreferenced store for the client.
LEMMA EvictLRUInv ==
    ASSUME NEW c \in Clients, NEW i \in Ids, IInv, Asks(c, i), EvictLRU(c, i)
    PROVE  IInv'
<1>1. PICK lru \in Unreferenced :
          /\ Retire(lru)
          /\ client' = [client EXCEPT ![c] = [Idle EXCEPT !.at = "evict", !.id = i, !.other = lru]]
  BY Zenon DEF EvictLRU, At
<1> DEFINE step == [Idle EXCEPT !.at = "evict", !.id = i, !.other = lru]
<1>2. lru \in Ids /\ refCount[lru] = 0 /\ lru \in Open
  BY DEF Unreferenced, Open
<1>3. /\ Open' = Open \ {lru} /\ refCount' \in [Ids -> Nat \cup {NotOpen}]
      /\ \A j \in Open' : refCount'[j] = refCount[j]
      /\ shutdown.at = "no" => \A b \in Clients : client[b].at \in Holding => client[b].id # lru
  BY <1>1, <1>2, RetireFacts
<1>4. step.at = "evict" /\ step.id = i /\ step.other = lru
  BY DEF Idle
<1>5. /\ client'[c] = step
      /\ \A b \in Clients \ {c} : client'[b] = client[b] /\ (Loaded(b)' <=> Loaded(b))
  BY Zenon, <1>1, CallSteps
<1>6. pendingCloses' = pendingCloses \cup {lru} /\ pendingOpens' = pendingOpens
  BY <1>1 DEF Retire, EvictLRU
<1>7. Shapes'
  BY Zenon, <1>1, <1>2, <1>3, <1>6 DEF IInv, Shapes, Asks, Idle, Waiting
<1> HIDE DEF step
<1>8. CallInv'
  BY Zenon, <1>2, <1>4, <1>5 DEF IInv, CallInv, Asks, Opening
<1>9. PendingInv'
  BY <1>4, <1>5, <1>6 DEF IInv, Shapes, PendingInv, Asks, Opening
<1>10. LockInv'
  BY <1>2, <1>3, <1>4, <1>5, <1>6 DEF IInv, LockInv, Asks, Loaded
<1>11. CloserInv'
  BY <1>2, <1>4, <1>5, <1>6 DEF IInv, LockInv, CloserInv, Asks
<1>12. CountInv'
  <2>1. \A j \in Ids : Holders(j)' = Holders(j)
    BY <1>4, <1>5 DEF Holders, Holding, Asks
  <2>2. Open \subseteq Ids
    BY DEF Open
  <2>3. shutdown.at = "no" => \A j \in Open' : refCount'[j] = Cardinality(Holders(j))'
    BY <1>3, <2>1, <2>2 DEF IInv, CountInv
  <2>4. shutdown.at = "no" => \A b \in Clients : client'[b].at \in Holding => client'[b].id \in Open'
    BY <1>3, <1>4, <1>5 DEF IInv, CountInv, Holding
  <2> QED
    BY <2>3, <2>4 DEF CountInv, Asks
<1>13. OpenInv'
  BY <1>2, <1>3, <1>4, <1>5, <1>6 DEF IInv, OpenInv, Opening, Asks
<1>14. EvictInv'
  BY <1>3, <1>4, <1>5 DEF IInv, EvictInv, EvictRun, Acquiring, Waiting, Opening, Asks
<1> QED
  BY Zenon, <1>7, <1>8, <1>9, <1>10, <1>11, <1>12, <1>13, <1>14 DEF IInv

\* An open that starts is registered; it is the only one of a database that is neither
\* open nor closing, or the database is known as stale.
LEMMA StartOpenInv ==
    ASSUME NEW c \in Clients, NEW i \in Ids, IInv, StartOpen(c, i),
           client[c].at \in {"idle", "close", "evicted"},
           UNCHANGED <<shutdown, janitor, justClosed, scope, lock, disk, leaked>>,
           closedStores' \subseteq closedStores, \A r \in Runs : raced[r] \subseteq raced'[r], raced' \in [Runs -> SUBSET Ids],
           \A r \in Runs : janitor[r].at \in Evicting => i \in raced'[r] \/ Acquiring(i),
           stale \subseteq stale', stale' \subseteq Ids,
           i \in stale' \/ (i \notin Open \cup pendingCloses /\ pendingOpens[i] = Nobody)
    PROVE  IInv'
<1> DEFINE step == [Idle EXCEPT !.at = "opening", !.id = i, !.isNew = i \notin disk]
<1>1. client' = [client EXCEPT ![c] = step] /\ pendingOpens' = [pendingOpens EXCEPT ![i] = c]
  BY DEF StartOpen, At
<1>2. step.at = "opening" /\ step.id = i
  BY DEF Idle
<1>3. /\ client'[c] = step
      /\ \A b \in Clients \ {c} : client'[b] = client[b] /\ (Loaded(b)' <=> Loaded(b))
  BY Zenon, <1>1, CallSteps
<1>4. Open' = Open /\ refCount' = refCount /\ pendingCloses' = pendingCloses
  BY DEF StartOpen, Open
<1>5. pendingOpens'[i] = c /\ \A j \in Ids \ {i} : pendingOpens'[j] = pendingOpens[j]
  BY <1>1 DEF IInv, Shapes
<1>6. Shapes'
  BY Zenon, <1>1, <1>4 DEF IInv, Shapes, Idle, Opening
<1> HIDE DEF step
<1>7. CallInv'
  BY Zenon, <1>2, <1>3 DEF IInv, CallInv, Opening
<1>8. PendingInv'
  BY <1>2, <1>3, <1>5 DEF IInv, Shapes, PendingInv, Opening
<1>9. LockInv'
  BY <1>2, <1>3, <1>4 DEF IInv, LockInv, Loaded
<1>10. CloserInv'
  BY ZenonT(30), <1>2, <1>3, <1>4 DEF IInv, CloserInv
<1>11. CountInv'
  <2>1. \A j \in Ids : Holders(j)' = Holders(j)
    BY Zenon, <1>2, <1>3 DEF Holders, Holding
  <2> QED
    BY Zenon, <1>2, <1>3, <1>4, <2>1 DEF IInv, CountInv, Open, Holding
<1>12. OpenInv'
  BY <1>2, <1>3, <1>4, <1>5, ConstantsAssumption DEF IInv, CallInv, OpenInv, Opening
<1>13. EvictInv'
  BY <1>2, <1>3, <1>4 DEF IInv, EvictInv, EvictRun, Acquiring, Waiting, Opening
<1> QED
  BY SMTT(30), <1>6, <1>7, <1>8, <1>9, <1>10, <1>11, <1>12, <1>13 DEF IInv

\* acquire, from the look at the stores map on.
LEMMA FindInv ==
    ASSUME NEW c \in Clients, NEW i \in Ids, IInv, Asks(c, i), Find(c, i)
    PROVE  IInv'
<1>1. CASE OpenDirectly(c, i)
  BY <1>1, StartOpenInv DEF OpenDirectly, Asks, IInv, Shapes
<1> QED
  BY Zenon, <1>1, AcquireCachedInv, AwaitPendingOpenInv, EvictLRUInv, EvictNothingInv DEF Find

\* acquire, from its call to its first await.
LEMMA AcquireInv ==
    ASSUME NEW c \in Clients, IInv, Acquire(c)
    PROVE  IInv'
<1>1. PICK i \in Ids :
          /\ client[c].at = "idle" /\ closedStores' = closedStores \ {i}
          /\ raced' = [r \in Runs |-> IF janitor[r].at \in Evicting THEN raced[r] \cup {i} ELSE raced[r]]
          /\ \/ /\ i \in pendingCloses
                /\ At(c, [Idle EXCEPT !.at = "close", !.id = i])
                /\ UNCHANGED <<refCount, recent, pendingOpens, pendingCloses>>
             \/ i \notin pendingCloses /\ Find(c, i)
          /\ UNCHANGED <<shutdown, janitor, justClosed, scope, lock, disk, stale, leaked>>
  BY Zenon DEF Acquire
<1>2. /\ (\A r \in Runs : raced[r] \subseteq raced'[r]) /\ raced' \in [Runs -> SUBSET Ids]
      /\ \A r \in Runs : janitor[r].at \in Evicting => i \in raced'[r]
  BY <1>1 DEF IInv, Shapes
<1>3. CASE i \in pendingCloses
  <2> DEFINE step == [Idle EXCEPT !.at = "close", !.id = i]
  <2>1. step \in [at : {"close", "open", "evicted"}, id : {i}, other : Clients \cup {Nobody}, isNew : BOOLEAN]
    BY Zenon DEF Idle
  <2>2. step.at # "open"
    BY DEF Idle
  <2>3. client' = [client EXCEPT ![c] = step] /\ UNCHANGED <<refCount, pendingOpens, pendingCloses>>
    BY <1>1, <1>3 DEF At
  <2> QED
    BY Zenon, <1>1, <1>2, <2>1, <2>2, <2>3, WaitInv
<1>4. CASE i \notin pendingCloses
  BY Zenon, <1>1, <1>2, <1>4, FindInv DEF Asks
<1> QED
  BY Zenon, <1>3, <1>4

\* The evictor knew of this client when it started to wait, or was told then.
LEMMA ResumeAfterCloseInv ==
    ASSUME NEW c \in Clients, IInv, ResumeAfterClose(c)
    PROVE  IInv'
<1>1. client[c].at = "close" /\ client[c].id \in Ids \ pendingCloses /\ Acquiring(client[c].id)
  BY Zenon DEF ResumeAfterClose, Resuming, IInv, CallInv, Acquiring, Waiting
<1> QED
  BY Zenon, <1>1, FindInv DEF Asks, ResumeAfterClose, IInv, Shapes

\* acquire after evictLRU: what it does not look at again makes the database stale.
LEMMA ResumeAfterEvictInv ==
    ASSUME NEW c \in Clients, IInv, ResumeAfterEvict(c)
    PROVE  IInv'
<1> DEFINE i == client[c].id
<1>1. client[c].at = "evicted" /\ i \in Ids /\ Acquiring(i) /\ StartOpen(c, i)
  BY DEF ResumeAfterEvict, IInv, CallInv, Acquiring, Waiting
<1>2. /\ stale \subseteq stale' /\ stale' \subseteq Ids
      /\ i \in stale' \/ (i \notin Open \cup pendingCloses /\ pendingOpens[i] = Nobody)
  BY <1>1 DEF ResumeAfterEvict, IInv, Shapes
<1>3. /\ UNCHANGED <<shutdown, janitor, justClosed, scope, lock, disk, leaked>>
      /\ closedStores' = closedStores /\ raced' = raced /\ raced \in [Runs -> SUBSET Ids]
  BY DEF ResumeAfterEvict, IInv, Shapes
<1> HIDE DEF i
<1> QED
  BY Zenon, <1>1, <1>2, <1>3, StartOpenInv

-----------------------------------------------------------------------------
(* The steps that end an await of acquire. *)

\* The steps that end an await.

\* A close that ends is noted for the runs that have yet to choose.
LEMMA JustClosed ==
    ASSUME IInv, NEW o \in Ids, Closed(o)
    PROVE  justClosed' \in [Runs -> SUBSET Ids]
<1>1. \A r \in Runs : justClosed[r] \cup {o} \in SUBSET Ids /\ justClosed[r] \in SUBSET Ids
  BY DEF IInv, Shapes
<1> QED
  BY <1>1 DEF Closed

\* A close ends and gives up the lock it owned.
LEMMA EvictDoneInv ==
    ASSUME NEW c \in Clients, IInv, EvictDone(c)
    PROVE  IInv'
<1> DEFINE step == [client[c] EXCEPT !.at = "evicted", !.other = Nobody]
           o == client[c].other
<1>1. client' = [client EXCEPT ![c] = step]
  BY DEF EvictDone, At
<1>2. step.at = "evicted" /\ step.id = client[c].id /\ client[c].at = "evict" /\ o \in Ids
  BY DEF EvictDone, IInv, Shapes, CallInv
<1>3. /\ client'[c] = step
      /\ \A b \in Clients \ {c} : client'[b] = client[b] /\ (Loaded(b)' <=> Loaded(b))
  BY Zenon, <1>1, CallSteps
<1>4. Open' = Open /\ refCount' = refCount /\ pendingOpens' = pendingOpens
  BY DEF EvictDone, Open
<1>5. lock' = lock \ {o} /\ pendingCloses' = pendingCloses \ {o} /\ closedStores' = closedStores \cup {o}
  BY DEF EvictDone, Closed
<1>6. Shapes'
  <2>1. client' \in [Clients -> [at : {"idle"} \cup Waiting \cup Opening \cup Holding,
                                 id : Ids \cup {None}, other : Clients \cup Ids \cup {Nobody},
                                 isNew : BOOLEAN]]
    <3>1. client[c] \in [at : {"idle"} \cup Waiting \cup Opening \cup Holding,
                         id : Ids \cup {None}, other : Clients \cup Ids \cup {Nobody}, isNew : BOOLEAN]
      BY DEF IInv, Shapes
    <3>2. step \in [at : {"idle"} \cup Waiting \cup Opening \cup Holding,
                    id : Ids \cup {None}, other : Clients \cup Ids \cup {Nobody}, isNew : BOOLEAN]
      BY Zenon, <3>1 DEF Waiting
    <3> HIDE DEF step
    <3> QED
      BY <1>1, <3>2 DEF IInv, Shapes
  <2>2. lock' \subseteq Ids /\ pendingCloses' \subseteq Ids /\ closedStores' \subseteq Ids
    BY <1>2, <1>5 DEF IInv, Shapes
  <2>3. justClosed' \in [Runs -> SUBSET Ids]
    BY <1>2, JustClosed DEF EvictDone
  <2> QED
    BY <1>4, <2>1, <2>2, <2>3 DEF IInv, Shapes, EvictDone
<1> HIDE DEF step, o
<1>7. CallInv'
  BY <1>2, <1>3 DEF IInv, CallInv, EvictDone, Opening
<1>8. PendingInv'
  BY <1>2, <1>3, <1>4 DEF IInv, Shapes, PendingInv, EvictDone, Opening
<1>9. LockInv'
  <2>1. shutdown.at = "no" => o \in pendingCloses
    BY <1>2 DEF IInv, CloserInv, o
  <2> QED
    BY <1>2, <1>3, <1>4, <1>5, <2>1 DEF IInv, LockInv, EvictDone, Loaded
<1>10. CloserInv'
  BY <1>2, <1>3, <1>5 DEF IInv, CloserInv, EvictDone, o
<1>11. CountInv'
  <2>1. \A j \in Ids : Holders(j)' = Holders(j)
    BY <1>2, <1>3 DEF Holders, Holding
  <2> QED
    BY <1>2, <1>3, <1>4, <2>1 DEF IInv, CountInv, Open, Holding, EvictDone
<1>12. OpenInv'
  BY <1>2, <1>3, <1>4, <1>5 DEF IInv, OpenInv, Opening, EvictDone
<1>13. EvictInv'
  BY ZenonT(30), <1>2, <1>3, <1>4 DEF IInv, EvictInv, EvictRun, Acquiring, Waiting, Opening, EvictDone
<1> QED
  BY <1>6, <1>7, <1>8, <1>9, <1>10, <1>11, <1>12, <1>13 DEF IInv

\* LevelDB opens a directory that nobody has locked, so nobody else owns it.
LEMMA OpenStoreInv ==
    ASSUME NEW c \in Clients, IInv, OpenStore(c)
    PROVE  IInv'
<1> DEFINE step == [client[c] EXCEPT !.at = "restoring"]
           i == client[c].id
<1>1. client' = [client EXCEPT ![c] = step]
  BY DEF OpenStore, At
<1>2. step.at = "restoring" /\ step.id = i /\ client[c].at = "opening" /\ i \in Ids \ lock
  BY DEF OpenStore, IInv, Shapes, CallInv
<1>3. /\ client'[c] = step
      /\ \A b \in Clients \ {c} : client'[b] = client[b] /\ (Loaded(b)' <=> Loaded(b))
  BY Zenon, <1>1, CallSteps
<1>4. Open' = Open /\ UNCHANGED <<refCount, pendingOpens, pendingCloses, closedStores, shutdown>>
  BY DEF OpenStore, manager, Open
<1>5. lock' = lock \cup {i}
  BY DEF OpenStore
<1>6. Shapes'
  BY <1>1, <1>2, <1>4, <1>5 DEF IInv, Shapes, OpenStore, Opening
<1> HIDE DEF step, i
<1>7. CallInv'
  BY ZenonT(30), <1>2, <1>3 DEF IInv, CallInv, OpenStore, Opening
<1>8. PendingInv'
  BY <1>2, <1>3, <1>4 DEF IInv, Shapes, PendingInv, Opening, i
<1>9. LockInv'
  <2>1. \A b \in Clients \ {c} : Loaded(b) /\ shutdown.at = "no" => client[b].id # i
    BY <1>2 DEF IInv, LockInv
  <2> QED
    BY SMTT(30), <1>2, <1>3, <1>4, <1>5, <2>1 DEF IInv, LockInv, OpenStore, Loaded
<1>10. CloserInv'
  BY <1>2, <1>3, <1>4 DEF IInv, CloserInv, OpenStore
<1>11. CountInv'
  <2>1. \A j \in Ids : Holders(j)' = Holders(j)
    BY <1>2, <1>3 DEF Holders, Holding
  <2> QED
    BY <1>2, <1>3, <1>4, <2>1 DEF IInv, CountInv, Open, Holding
<1>12. OpenInv'
  BY <1>2, <1>3, <1>4 DEF IInv, OpenInv, Opening, OpenStore, i
<1>13. EvictInv'
  BY ZenonT(30), <1>2, <1>3, <1>4 DEF IInv, EvictInv, EvictRun, Acquiring, Waiting, Opening, OpenStore, i
<1> QED
  BY <1>6, <1>7, <1>8, <1>9, <1>10, <1>11, <1>12, <1>13 DEF IInv

\* onStoreCreated rejects: the open still owns the lock.
LEMMA RestoreFailsInv ==
    ASSUME NEW c \in Clients, IInv, RestoreFails(c)
    PROVE  IInv'
<1> DEFINE step == [client[c] EXCEPT !.at = "failing"]
<1>1. client' = [client EXCEPT ![c] = step]
  BY DEF RestoreFails, At
<1>2. step.at = "failing" /\ step.id = client[c].id /\ client[c].at = "restoring"
  BY DEF RestoreFails, IInv, Shapes
<1>3. /\ client'[c] = step
      /\ \A b \in Clients \ {c} : client'[b] = client[b] /\ (Loaded(b)' <=> Loaded(b))
  BY Zenon, <1>1, CallSteps
<1>4. /\ Open' = Open
      /\ UNCHANGED <<refCount, pendingOpens, pendingCloses, closedStores, shutdown, lock, stale, leaked, janitor, justClosed>>
  BY DEF RestoreFails, manager, Open
<1>5. Shapes'
  BY <1>1, <1>2, <1>4 DEF IInv, Shapes, RestoreFails, Opening
<1> HIDE DEF step
<1>6. CallInv'
  BY <1>2, <1>3, <1>4 DEF IInv, CallInv, Opening
<1>7. PendingInv'
  BY <1>2, <1>3, <1>4 DEF IInv, Shapes, PendingInv, Opening
<1>8. LockInv'
  BY <1>2, <1>3, <1>4 DEF IInv, LockInv, Loaded
<1>9. CloserInv'
  BY SMTT(30), <1>2, <1>3, <1>4 DEF IInv, CloserInv
<1>10. CountInv'
  <2>1. \A j \in Ids : Holders(j)' = Holders(j)
    BY Zenon, <1>2, <1>3 DEF Holders, Holding
  <2> QED
    BY Zenon, <1>2, <1>3, <1>4, <2>1 DEF IInv, CountInv, Open, Holding
<1>11. OpenInv'
  BY <1>2, <1>3, <1>4 DEF IInv, OpenInv, Opening
<1>12. EvictInv'
  BY ZenonT(30), <1>2, <1>3, <1>4 DEF IInv, EvictInv, EvictRun, Acquiring, Waiting, Opening, RestoreFails
<1> QED
  BY <1>5, <1>6, <1>7, <1>8, <1>9, <1>10, <1>11, <1>12 DEF IInv

\* What the end of an open does to the calls: opener and waiters take the same step, and
\* nobody else waits on this open.
LEMMA OpenEnds ==
    ASSUME NEW c \in Clients, IInv, client[c].at \in Opening, NEW step,
           client' = [w \in Clients |-> IF w \in Waiters(c) \cup {c} THEN step ELSE client[w]]
    PROVE  /\ \A w \in Waiters(c) \cup {c} : client'[w] = step
           /\ \A w \in Clients \ (Waiters(c) \cup {c}) :
                 /\ client'[w] = client[w]
                 /\ client[w].at = "open" => client'[client[w].other] = client[client[w].other]
           /\ \A w \in Waiters(c) : w \in Clients /\ client[w].at = "open"
           /\ \A i \in Ids : pendingOpens[i] \notin {Nobody, c} =>
                 pendingOpens[i] \in Clients \ (Waiters(c) \cup {c})
           /\ client[c].id \in Ids
BY DEF IInv, Shapes, CallInv, PendingInv, Waiters, Opening

\* The open is rejected.  What is left of it is no lock, or one known as leaked.
LEMMA RejectInv ==
    ASSUME NEW c \in Clients, IInv, client[c].at \in Opening, Reject(c),
           UNCHANGED <<disk, stale>>,
           \/ client[c].at = "opening" /\ UNCHANGED <<lock, leaked>>
           \/ client[c].at = "restoring" /\ lock' = lock /\ leaked' = leaked \cup {client[c].id}
           \/ client[c].at = "failing" /\ leaked' = leaked /\ lock' = lock \ {client[c].id}
    PROVE  IInv'
<1> DEFINE i == client[c].id
           S == Waiters(c) \cup {c}
<1>1. /\ client' = [w \in Clients |-> IF w \in S THEN Idle ELSE client[w]]
      /\ pendingOpens' = [pendingOpens EXCEPT ![i] = Nobody]
      /\ UNCHANGED <<refCount, pendingCloses, closedStores, shutdown, janitor, justClosed, scope, raced>>
  BY Zenon DEF Reject
<1>2. /\ \A w \in S : client'[w] = Idle
      /\ \A w \in Clients \ S :
            /\ client'[w] = client[w]
            /\ client[w].at = "open" => client'[client[w].other] = client[client[w].other]
      /\ \A w \in S : w \in Clients /\ client[w].at \in {"open"} \cup Opening
      /\ \A w \in S : w # c => client[w].at = "open"
      /\ \A j \in Ids : pendingOpens[j] \notin {Nobody, c} => pendingOpens[j] \in Clients \ S
      /\ i \in Ids /\ c \in S
  BY SMTT(30), <1>1, OpenEnds DEF Opening
<1>3. Open' = Open
  BY <1>1 DEF Open
<1>4. /\ Idle.at = "idle"
      /\ Idle \in [at : {"idle"} \cup Waiting \cup Opening \cup Holding,
                   id : Ids \cup {None}, other : Clients \cup Ids \cup {Nobody}, isNew : BOOLEAN]
  BY Zenon DEF Idle
<1>5. pendingOpens'[i] = Nobody /\ \A j \in Ids \ {i} : pendingOpens'[j] = pendingOpens[j]
  BY ZenonT(30), <1>1, <1>2 DEF IInv, Shapes
<1>6. Shapes'
  <2>1. client' \in [Clients -> [at : {"idle"} \cup Waiting \cup Opening \cup Holding,
                                 id : Ids \cup {None}, other : Clients \cup Ids \cup {Nobody},
                                 isNew : BOOLEAN]]
    BY <1>1, <1>4 DEF IInv, Shapes
  <2>2. pendingOpens' \in [Ids -> Clients \cup {Nobody}]
    BY Zenon, <1>1 DEF IInv, Shapes
  <2>3. lock' \subseteq Ids /\ leaked' \subseteq Ids
    BY <1>2 DEF IInv, Shapes
  <2> QED
    BY Zenon, <1>1, <2>1, <2>2, <2>3 DEF IInv, Shapes
<1>7. client[c].id = i
  OBVIOUS
<1> HIDE DEF i, S
<1>8. CallInv'
  <2>0. CallInv
    BY Zenon DEF IInv
  <2>1. ASSUME NEW w \in Clients
        PROVE  /\ client'[w].at # "idle" => client'[w].id \in Ids
               /\ client'[w].at = "open" => /\ client'[w].other \in Clients
                                            /\ client'[client'[w].other].at \in Opening
               /\ client'[w].at = "evict" => client'[w].other \in Ids
    <3>1. CASE w \in S
      BY Zenon, <1>2, <1>4, <3>1
    <3>2. CASE w \notin S
      <4>1. client'[w] = client[w]
        BY <1>2, <3>2
      <4>2. client[w].at = "open" => client'[client[w].other] = client[client[w].other]
        BY Zenon, <1>2, <3>2
      <4> QED
        BY Zenon, <2>0, <4>1, <4>2 DEF CallInv
    <3> QED
      BY Zenon, <3>1, <3>2
  <2>2. janitor' = janitor
    BY Zenon, <1>1
  <2> QED
    BY Zenon, <2>0, <2>1, <2>2 DEF CallInv
<1>9. PendingInv'
  BY <1>2, <1>5, <1>7 DEF IInv, Shapes, PendingInv
<1>10. LockInv'
  <2>1. \A w \in Clients : Loaded(w)' => w \notin S /\ w # c /\ Loaded(w) /\ client'[w].id = client[w].id
    BY Zenon, <1>2, <1>4 DEF Loaded
  <2>2. \A w \in Clients \ {c} : Loaded(w) => Loaded(w)' /\ client'[w].id = client[w].id
    BY Zenon, <1>2 DEF Loaded
  <2>3. CASE client[c].at = "opening" /\ UNCHANGED <<lock, leaked>>
    <3>1. ~Loaded(c)
      BY <2>3 DEF Loaded
    <3>2. LockInv /\ shutdown' = shutdown /\ pendingCloses' = pendingCloses
      BY Zenon, <1>1 DEF IInv
    <3> QED
      BY SMTT(30), <1>3, <2>1, <2>2, <2>3, <3>1, <3>2 DEF LockInv
  <2>4. CASE client[c].at = "restoring" /\ lock' = lock /\ leaked' = leaked \cup {client[c].id}
    BY Zenon, <1>1, <1>3, <1>7, <2>1, <2>2, <2>4 DEF IInv, LockInv
  <2>5. CASE client[c].at = "failing" /\ leaked' = leaked /\ lock' = lock \ {client[c].id}
    <3>1. Loaded(c)
      BY Zenon, <2>5 DEF Loaded
    <3> QED
      BY SMTT(30), <1>1, <1>3, <1>7, <2>1, <2>2, <2>5, <3>1 DEF IInv, LockInv
  <2> QED
    BY Zenon, <2>3, <2>4, <2>5
<1>11. CloserInv'
  BY Zenon, <1>1, <1>2, <1>4 DEF IInv, CloserInv
<1>12. CountInv'
  <2>1. \A j \in Ids : Holders(j)' = Holders(j)
    BY Zenon, <1>2, <1>4 DEF Holders, Holding, Opening
  <2> QED
    BY Zenon, <1>1, <1>2, <1>3, <1>4, <2>1 DEF IInv, CountInv, Open, Holding
<1>13. OpenInv'
  <2>1. \A w \in Clients \ S : client[w].at \in Opening /\ client[w].id \notin stale /\ shutdown.at = "no"
            => client[w].id # i
    BY SMTT(30), <1>2, <1>7 DEF IInv, OpenInv
  <2> QED
    <3>1. /\ OpenInv /\ (\A w \in Clients : client[w].at \in Opening => client[w].id \in Ids)
          /\ shutdown' = shutdown /\ pendingCloses' = pendingCloses /\ stale' = stale
      BY Zenon, <1>1 DEF IInv, CallInv, Opening
    <3>2. \A w \in Clients : client'[w].at \in Opening => w \notin S /\ client'[w] = client[w]
      BY Zenon, <1>2, <1>4 DEF Opening
    <3> QED
      BY SMTT(30), <1>3, <1>5, <2>1, <3>1, <3>2 DEF OpenInv
<1>14. EvictInv'
  BY Zenon, <1>1, <1>2, <1>3, <1>4 DEF IInv, EvictInv, EvictRun, Acquiring, Waiting, Opening
<1> QED
  BY Zenon, <1>6, <1>8, <1>9, <1>10, <1>11, <1>12, <1>13, <1>14 DEF IInv

\* The three ways in which an open is rejected.
LEMMA OpenRejectedInv ==
    ASSUME NEW c \in Clients, IInv, OpenFails(c) \/ SyncModuleFails(c) \/ FailedStoreClosed(c)
    PROVE  IInv'
BY RejectInv DEF OpenFails, SyncModuleFails, FailedStoreClosed, Opening

\* The open ends well: what it owned passes to the entry, and opener and waiters are
\* exactly the holders of the new entry.
LEMMA OpenDoneInv ==
    ASSUME NEW c \in Clients, IInv, OpenDone(c)
    PROVE  IInv'
<1>0. PICK i \in Ids : i = client[c].id
  BY DEF OpenDone, IInv, CallInv
<1> DEFINE S == Waiters(c) \cup {c}
           step == [Idle EXCEPT !.at = "holds", !.id = i]
<1>1. /\ client[c].at = "restoring"
      /\ client' = [w \in Clients |-> IF w \in S THEN step ELSE client[w]]
      /\ pendingOpens' = [pendingOpens EXCEPT ![i] = Nobody]
      /\ refCount' = [refCount EXCEPT ![i] = 1 + Cardinality(Waiters(c))]
      /\ UNCHANGED <<pendingCloses, closedStores, shutdown, janitor, justClosed, scope, lock, disk, stale, raced, leaked>>
  BY <1>0 DEF OpenDone
<1>02. /\ client[c].at \in Opening
       /\ \A w \in S : w \in Clients /\ client'[w] = step
       /\ \A w \in Clients \ S : client'[w] = client[w]
  BY <1>1 DEF Opening, Waiters
<1>2. /\ \A w \in S : client'[w] = step
      /\ \A w \in Clients \ S :
            /\ client'[w] = client[w]
            /\ client[w].at = "open" => client'[client[w].other] = client[client[w].other]
      /\ \A w \in S : w \in Clients /\ client[w].at \in {"open", "restoring"}
      /\ \A w \in S : w # c => client[w].at = "open"
      /\ \A j \in Ids : pendingOpens[j] \notin {Nobody, c} => pendingOpens[j] \in Clients \ S
      /\ c \in S
  <2> HIDE DEF step
  <2>1. client' = [w \in Clients |-> IF w \in Waiters(c) \cup {c} THEN step ELSE client[w]]
    BY Zenon, <1>1
  <2>2. /\ \A w \in Clients \ S : client[w].at = "open" => client'[client[w].other] = client[client[w].other]
        /\ \A w \in Waiters(c) : w \in Clients /\ client[w].at = "open"
        /\ \A j \in Ids : pendingOpens[j] \notin {Nobody, c} => pendingOpens[j] \in Clients \ S
    BY SMTT(30), <1>02, <2>1, OpenEnds
  <2> QED
    BY Zenon, <1>1, <1>02, <2>2
<1>3. step.at = "holds" /\ step.id = i
  BY DEF Idle
<1>4. IsFiniteSet(S) /\ Cardinality(S) = 1 + Cardinality(Waiters(c)) /\ Cardinality(S) \in Nat
  <2>1. IsFiniteSet(Waiters(c)) /\ c \notin Waiters(c)
    BY <1>1, ConstantsAssumption, FS_Subset DEF Waiters
  <2>2. /\ IsFiniteSet(S) /\ Cardinality(S) \in Nat /\ Cardinality(Waiters(c)) \in Nat
        /\ Cardinality(S) = Cardinality(Waiters(c)) + 1
    BY <2>1, OneMore
  <2> QED
    BY <2>2
<1>5. /\ Open' = Open \cup {i} /\ refCount' \in [Ids -> Nat \cup {NotOpen}]
      /\ refCount'[i] = Cardinality(S) /\ \A j \in Ids \ {i} : refCount'[j] = refCount[j]
  <2> HIDE DEF S
  <2>1. refCount' = [refCount EXCEPT ![i] = Cardinality(S)] /\ refCount \in [Ids -> Nat \cup {NotOpen}]
    BY <1>1, <1>4 DEF IInv, Shapes
  <2> QED
    BY <1>2, <1>4, <2>1 DEF Open, NotOpen
<1>6. pendingOpens'[i] = Nobody /\ \A j \in Ids \ {i} : pendingOpens'[j] = pendingOpens[j]
  BY Zenon, <1>1, <1>2 DEF IInv, Shapes
<1>7. Shapes'
  <2>1. step \in [at : {"idle"} \cup Waiting \cup Opening \cup Holding,
                  id : Ids \cup {None}, other : Clients \cup Ids \cup {Nobody}, isNew : BOOLEAN]
    BY ZenonT(30), <1>2 DEF Idle, Holding
  <2>2. pendingOpens' \in [Ids -> Clients \cup {Nobody}]
    BY Zenon, <1>1 DEF IInv, Shapes
  <2> HIDE DEF step, S
  <2>3. client' \in [Clients -> [at : {"idle"} \cup Waiting \cup Opening \cup Holding,
                                 id : Ids \cup {None}, other : Clients \cup Ids \cup {Nobody},
                                 isNew : BOOLEAN]]
    BY <1>1, <2>1 DEF IInv, Shapes
  <2> QED
    BY <1>1, <1>5, <2>2, <2>3 DEF IInv, Shapes
<1>8. client[c].id = i /\ Loaded(c)
  BY <1>0, <1>1 DEF Loaded
<1> HIDE DEF S, step
<1>9. CallInv'
  BY ZenonT(30), <1>1, <1>2, <1>3 DEF IInv, CallInv, Opening
<1>10. PendingInv'
  BY <1>2, <1>6, <1>8 DEF IInv, Shapes, PendingInv
<1>11. LockInv'
  <2>1. \A w \in Clients : Loaded(w)' => w \notin S /\ w # c /\ Loaded(w) /\ client'[w].id = client[w].id
    BY Zenon, <1>2, <1>3 DEF Loaded
  <2>2. \A w \in Clients \ {c} : Loaded(w) => Loaded(w)' /\ client'[w].id = client[w].id
    BY Zenon, <1>2 DEF Loaded
  <2> QED
    BY <1>1, <1>5, <1>8, <2>1, <2>2 DEF IInv, LockInv
<1>12. CloserInv'
  BY Zenon, <1>1, <1>2, <1>3 DEF IInv, CloserInv
<1>13. CountInv'
  <2> SUFFICES ASSUME shutdown.at = "no" PROVE CountInv'
    BY Zenon, <1>1 DEF CountInv
  <2>1. i \notin Open
    BY <1>8 DEF IInv, LockInv
  <2>2. \A w \in Clients \ S : client[w].at \in Holding => client[w].id # i
    BY Zenon, <2>1 DEF IInv, CountInv
  <2>3. Holders(i)' = S
    BY <1>2, <1>3, <2>2 DEF Holders, Holding
  <2>4. \A j \in Ids \ {i} : Holders(j)' = Holders(j)
    BY ZenonT(30), <1>2, <1>3 DEF Holders, Holding
  <2>5. \A j \in Open' : refCount'[j] = Cardinality(Holders(j))'
    BY Zenon, <1>5, <2>1, <2>3, <2>4 DEF IInv, CountInv, Open
  <2>6. \A w \in Clients : client'[w].at \in Holding => client'[w].id \in Open'
    BY Zenon, <1>2, <1>3, <1>5 DEF IInv, CountInv
  <2> QED
    BY Zenon, <2>5, <2>6 DEF CountInv
<1>14. OpenInv'
  <2>1. \A w \in Clients \ S : client[w].at \in Opening /\ client[w].id \notin stale /\ shutdown.at = "no"
            => client[w].id # i
    BY SMTT(30), <1>1, <1>2, <1>8 DEF IInv, OpenInv, Opening
  <2> QED
    BY SMTT(30), <1>1, <1>2, <1>3, <1>5, <1>6, <2>1 DEF IInv, CallInv, OpenInv, Opening
<1>15. EvictInv'
  <2>1. Acquiring(i)
    BY Zenon, <1>1, <1>8 DEF Acquiring, Opening
  <2>2. \A j \in Ids : Acquiring(j)' => Acquiring(j)
    BY Zenon, <1>2, <1>3 DEF Acquiring, Waiting, Opening
  <2> QED
    BY ZenonT(30), <1>1, <1>5, <2>1, <2>2 DEF IInv, EvictInv, EvictRun
<1> QED
  BY Zenon, <1>7, <1>9, <1>10, <1>11, <1>12, <1>13, <1>14, <1>15 DEF IInv

-----------------------------------------------------------------------------
(* Release, the cleanup, shutdown, the induction and what follows. *)

\* release and releasePin.

\* A reference is given back by one of those it counts, so it is there to give back.
LEMMA GiveBackInv ==
    ASSUME NEW c \in Clients, IInv, client[c].at \in Holding,
           DecRef(client[c].id), At(c, Idle),
           UNCHANGED <<pendingOpens, pendingCloses, closedStores, shutdown, janitor, justClosed, scope, lock, disk, stale, raced, leaked>>
    PROVE  IInv'
<1>0. PICK i \in Ids : i = client[c].id
  BY ZenonT(30) DEF IInv, CallInv, Holding
<1>1. /\ client'[c] = Idle
      /\ \A b \in Clients \ {c} : client'[b] = client[b] /\ (Loaded(b)' <=> Loaded(b))
  BY Zenon, CallSteps DEF At
<1>2. Idle.at = "idle" /\ client[c].at \in {"holds", "pins"}
  BY Zenon DEF Idle, Holding
<1>3. /\ refCount' \in [Ids -> Nat \cup {NotOpen}] /\ Open' = Open
      /\ \A j \in Ids \ {i} : refCount'[j] = refCount[j]
      /\ refCount[i] \in Nat \ {0} => refCount'[i] = refCount[i] - 1
  <2>1. refCount \in [Ids -> Nat \cup {NotOpen}]
    BY DEF IInv, Shapes
  <2>2. refCount' = [refCount EXCEPT ![i] = CASE refCount[i] = NotOpen -> refCount[i]
                                              [] refCount[i] = 0 -> 0
                                              [] OTHER -> refCount[i] - 1]
    BY <1>0, <2>1 DEF DecRef
  <2>3. CASE refCount[i] = NotOpen
    BY <2>1, <2>2, <2>3 DEF Open, NotOpen
  <2>4. CASE refCount[i] = 0
    BY Zenon, <2>1, <2>2, <2>4 DEF Open, NotOpen
  <2>5. CASE refCount[i] \in Nat \ {0}
    <3>0. refCount[i] # NotOpen /\ refCount[i] # 0
      BY <2>5 DEF NotOpen
    <3>1. refCount' = [refCount EXCEPT ![i] = refCount[i] - 1]
      BY <2>2, <3>0, Zenon
    <3> QED
      BY <2>1, <2>5, <3>1 DEF Open, NotOpen
  <2> QED
    BY Zenon, <2>1, <2>3, <2>4, <2>5
<1>4. Shapes'
  <2>1. client' \in [Clients -> [at : {"idle"} \cup Waiting \cup Opening \cup Holding,
                                 id : Ids \cup {None}, other : Clients \cup Ids \cup {Nobody},
                                 isNew : BOOLEAN]]
    BY Zenon DEF IInv, Shapes, Idle, At
  <2> QED
    BY Zenon, <1>3, <2>1 DEF IInv, Shapes
<1>5. CallInv'
  BY ZenonT(30), <1>1, <1>2 DEF IInv, CallInv, Opening
<1>6. PendingInv'
  <2>1. PendingInv /\ pendingOpens' = pendingOpens /\ pendingOpens \in [Ids -> Clients \cup {Nobody}]
    BY ZenonT(30) DEF IInv, Shapes
  <2>2. \A j \in Ids : pendingOpens[j] # Nobody => pendingOpens[j] \in Clients \ {c}
    BY ZenonT(30), <1>2, <2>1 DEF PendingInv, Opening
  <2> QED
    BY <1>1, <2>1, <2>2 DEF PendingInv
<1>7. LockInv'
  <2>1. LockInv /\ UNCHANGED <<lock, shutdown, pendingCloses, leaked>>
    BY Zenon DEF IInv
  <2>2. ~Loaded(c) /\ ~Loaded(c)'
    BY Zenon, <1>1, <1>2 DEF Loaded
  <2>3. \A b \in Clients : (Loaded(b)' <=> Loaded(b)) /\ (Loaded(b) => client'[b].id = client[b].id)
    BY Zenon, <1>1, <2>2
  <2> QED
    BY SMTT(30), <1>3, <2>1, <2>3 DEF LockInv
<1>8. CloserInv'
  BY Zenon, <1>1, <1>2 DEF IInv, CloserInv
<1>9. CountInv'
  <2> SUFFICES ASSUME shutdown.at = "no" PROVE CountInv'
    BY Zenon DEF CountInv
  <2>1. c \in Holders(i) /\ Holders(i)' = Holders(i) \ {c}
    BY Zenon, <1>0, <1>1, <1>2 DEF Holders, Holding
  <2>2. \A j \in Ids \ {i} : Holders(j)' = Holders(j)
    BY Zenon, <1>0, <1>1, <1>2 DEF Holders, Holding
  <2>3. Cardinality(Holders(i)) \in Nat \ {0} /\ Cardinality(Holders(i)') = Cardinality(Holders(i)) - 1
    BY Zenon, <2>1, HoldersFinite, OneFewer
  <2>4. i \in Open /\ refCount[i] = Cardinality(Holders(i))
    BY Zenon, <1>0 DEF IInv, CountInv
  <2>5. \A j \in Open : refCount'[j] = Cardinality(Holders(j))'
    BY Zenon, <1>3, <2>2, <2>3, <2>4 DEF IInv, CountInv, Open
  <2>6. \A b \in Clients : client'[b].at \in Holding => client'[b].id \in Open
    BY Zenon, <1>1, <1>2 DEF IInv, CountInv, Holding
  <2> QED
    BY Zenon, <1>3, <2>5, <2>6 DEF CountInv
<1>10. OpenInv'
  BY Zenon, <1>1, <1>2, <1>3 DEF IInv, OpenInv, Opening
<1>11. EvictInv'
  <2>1. EvictInv /\ UNCHANGED <<janitor, raced>>
    BY Zenon, <1>1 DEF IInv
  <2>2. \A j \in Ids : Acquiring(j)' => Acquiring(j)
    BY Zenon, <1>1, <1>2 DEF Acquiring, Waiting, Opening
  <2> QED
    BY Zenon, <1>3, <2>1, <2>2 DEF EvictInv, EvictRun
<1> QED
  BY ZenonT(30), <1>4, <1>5, <1>6, <1>7, <1>8, <1>9, <1>10, <1>11 DEF IInv

\* release and releasePin, of an entry and of a pin.
LEMMA ReleaseInv ==
    ASSUME NEW c \in Clients, IInv, Release(c) \/ ReleasePin(c)
    PROVE  IInv'
BY GiveBackInv DEF Release, ReleasePin, Holding

-----------------------------------------------------------------------------
\* The cleanup timer.

\* A step of a run of the cleanup leaves the other runs where they are.
LEMMA RunSteps ==
    ASSUME IInv, NEW r \in Runs, NEW x, Go(r, x)
    PROVE  /\ janitor'[r] = x /\ \A q \in Runs \ {r} : janitor'[q] = janitor[q]
           /\ x \in Run => janitor' \in [Runs -> Run]
BY DEF IInv, Shapes, Go

\* What a run knows of acquires, replaced by it, leaves what the other runs know.
LEMMA RacedSteps ==
    ASSUME IInv, NEW r \in Runs, NEW x \in SUBSET Ids, raced' = [raced EXCEPT ![r] = x]
    PROVE  raced'[r] = x /\ raced' \in [Runs -> SUBSET Ids] /\ \A q \in Runs \ {r} : raced'[q] = raced[q]
BY DEF IInv, Shapes

\* A step that leaves the calls and the entries of the stores map alone leaves them counted.
LEMMA CallsKept ==
    ASSUME IInv, UNCHANGED <<refCount, pendingOpens, shutdown, client, stale>>, pendingCloses' \subseteq pendingCloses
    PROVE  CountInv' /\ OpenInv'
<1>1. Open' = Open /\ (\A i \in Ids : Holders(i)' = Holders(i)) /\ Open \subseteq Ids
  BY DEF Open, Holders
<1>2. CountInv'
  <2>1. CountInv
    BY Zenon DEF IInv
  <2>2. ASSUME shutdown.at = "no", NEW i \in Open PROVE refCount'[i] = Cardinality(Holders(i)')
    <3>1. refCount[i] = Cardinality(Holders(i)) /\ Holders(i)' = Holders(i)
      BY Zenon, <1>1, <2>1, <2>2 DEF CountInv
    <3> QED
      BY Zenon, <3>1
  <2> QED
    BY Zenon, <1>1, <2>1, <2>2 DEF CountInv
<1>3. OpenInv'
  <2>1. OpenInv
    BY Zenon DEF IInv
  <2> QED
    BY Zenon, <1>1, <2>1 DEF OpenInv
<1> QED
  BY <1>2, <1>3

\* The steps of a run that open and close nothing: only what the evictor knows is at stake.
LEMMA TidyInv ==
    ASSUME IInv, NEW r \in Runs,
           UNCHANGED <<refCount, pendingOpens, pendingCloses, shutdown, client, lock, stale, leaked>>,
           Shapes', \A q \in Runs \ {r} : janitor'[q] = janitor[q] /\ raced'[q] = raced[q],
           EvictRun(r)', janitor'[r].at # "closing",
           janitor'[r].at \in {"asking", "removing"} => janitor'[r].id \in Ids
    PROVE  IInv'
<1>1. /\ Open' = Open /\ (\A c \in Clients : Loaded(c)' <=> Loaded(c))
      /\ (\A i \in Ids : Holders(i)' = Holders(i)) /\ \A i \in Ids : Acquiring(i)' <=> Acquiring(i)
  BY Zenon DEF Open, Loaded, Holders, Acquiring
<1>2. CallInv' /\ PendingInv'
  BY ZenonT(30) DEF IInv, CallInv, PendingInv
<1>3. LockInv' /\ CloserInv'
  BY SMTT(30), <1>1 DEF IInv, LockInv, CloserInv
<1>4. CountInv' /\ OpenInv'
  BY Zenon, CallsKept
<1>5. EvictInv'
  <2> SUFFICES ASSUME NEW q \in Runs \ {r} PROVE EvictRun(q)'
    BY DEF EvictInv
  <2>1. EvictRun(q)
    BY DEF IInv, EvictInv
  <2> QED
    BY Zenon, <1>1, <2>1 DEF EvictRun
<1> QED
  BY Zenon, <1>2, <1>3, <1>4, <1>5 DEF IInv

\* A run of the cleanup starts.
LEMMA CleanupInv ==
    ASSUME NEW r \in Runs, IInv, Cleanup(r)
    PROVE  IInv'
<1>1. PICK idle \in SUBSET Unreferenced :
          /\ scope' = [scope EXCEPT !.cleanups = @ \ {r}]
          /\ Go(r, [Resting EXCEPT !.at = "cleanup", !.toClose = idle])
          /\ UNCHANGED <<Quiet, refCount, recent, pendingCloses, closedStores, justClosed, lock, disk, raced>>
  BY Zenon DEF Cleanup
<1> DEFINE x == [Resting EXCEPT !.at = "cleanup", !.toClose = idle]
<1>2. x \in Run
  BY ZenonT(30) DEF Resting, Unreferenced, Open, Run
<1>3. x.at = "cleanup"
  BY DEF Resting
<1> HIDE DEF x
<1>4. janitor'[r] = x /\ janitor' \in [Runs -> Run] /\ \A q \in Runs \ {r} : janitor'[q] = janitor[q]
  BY <1>1, <1>2, RunSteps DEF x
<1>5. scope' \in [clients : SUBSET Clients, cleanups : SUBSET Runs, stops : BOOLEAN]
  BY <1>1 DEF IInv, Shapes
<1>6. Shapes'
  BY Zenon, <1>1, <1>4, <1>5 DEF IInv, Shapes, Quiet
<1>7. EvictRun(r)'
  BY <1>3, <1>4 DEF EvictRun, Evicting
<1> QED
  BY <1>1, <1>3, <1>4, <1>6, <1>7, TidyInv DEF Quiet

\* closeStore, for a store that is still unreferenced.
LEMMA CloseIdleInv ==
    ASSUME NEW r \in Runs, IInv, CloseIdle(r)
    PROVE  IInv'
<1>0. janitor[r] \in Run
  BY DEF IInv, Shapes
<1>1. PICK i \in janitor[r].toClose :
          /\ janitor[r].at = "cleanup"
          /\ \/ /\ refCount[i] = 0 /\ Retire(i)
                /\ Go(r, [janitor[r] EXCEPT !.at = "closing", !.id = i, !.toClose = @ \ {i}])
             \/ /\ Go(r, [janitor[r] EXCEPT !.toClose = @ \ {i}])
                /\ UNCHANGED <<refCount, recent, pendingCloses>>
          /\ UNCHANGED <<pendingOpens, shutdown, client, stale, leaked, closedStores, justClosed, scope, lock, disk, raced>>
  BY Zenon DEF CloseIdle, Quiet
<1>2. i \in Ids
  BY <1>0, <1>1 DEF Run
<1>3. CASE Go(r, [janitor[r] EXCEPT !.toClose = @ \ {i}]) /\ UNCHANGED <<refCount, recent, pendingCloses>>
  <2> DEFINE x == [janitor[r] EXCEPT !.toClose = @ \ {i}]
  <2>1. x \in Run /\ x.at = "cleanup"
    BY <1>0, <1>1 DEF Run
  <2> HIDE DEF x
  <2>2. janitor'[r] = x /\ janitor' \in [Runs -> Run] /\ \A q \in Runs \ {r} : janitor'[q] = janitor[q]
    BY <1>3, <2>1, RunSteps DEF x
  <2>3. Shapes'
    BY Zenon, <1>1, <1>3, <2>2 DEF IInv, Shapes
  <2>4. EvictRun(r)'
    BY <2>1, <2>2 DEF EvictRun, Evicting
  <2> QED
    BY Zenon, <1>1, <1>3, <2>1, <2>2, <2>3, <2>4, TidyInv
<1>4. CASE /\ refCount[i] = 0 /\ Retire(i)
           /\ Go(r, [janitor[r] EXCEPT !.at = "closing", !.id = i, !.toClose = @ \ {i}])
  <2> DEFINE x == [janitor[r] EXCEPT !.at = "closing", !.id = i, !.toClose = @ \ {i}]
  <2>0. x \in Run
    BY Zenon, <1>0, <1>2 DEF Run
  <2>00. x.at = "closing" /\ x.id = i
    BY <1>0 DEF Run
  <2> HIDE DEF x
  <2>1. /\ Open' = Open \ {i} /\ i \in Open /\ refCount' \in [Ids -> Nat \cup {NotOpen}]
        /\ \A j \in Open' : refCount'[j] = refCount[j]
        /\ shutdown.at = "no" => \A b \in Clients : client[b].at \in Holding => client[b].id # i
    BY <1>2, <1>4, RetireFacts
  <2>11. /\ janitor'[r] = x /\ janitor' \in [Runs -> Run]
         /\ \A q \in Runs \ {r} : janitor'[q] = janitor[q]
    BY <1>4, <2>0, RunSteps DEF x
  <2>2. /\ janitor'[r].at = "closing" /\ janitor'[r].id = i /\ pendingCloses' = pendingCloses \cup {i}
        /\ \A q \in Runs \ {r} : janitor'[q] = janitor[q]
    BY <1>4, <2>00, <2>11 DEF Retire
  <2>3. Shapes'
    BY Zenon, <1>1, <1>2, <2>1, <2>2, <2>11 DEF IInv, Shapes
  <2>4. (\A c \in Clients : Loaded(c)' <=> Loaded(c)) /\ \A j \in Ids : Holders(j)' = Holders(j)
    BY <1>1 DEF Loaded, Holders
  <2>5. CallInv' /\ PendingInv'
    BY <1>1, <1>2, <2>2 DEF IInv, CallInv, PendingInv
  <2>6. LockInv'
    BY <1>1, <2>1, <2>2, <2>4 DEF IInv, LockInv
  <2>7. CloserInv'
    BY <1>1, <2>1, <2>2 DEF IInv, LockInv, CloserInv
  <2>8. CountInv'
    <3>1. Open \subseteq Ids
      BY DEF Open
    <3> QED
      BY <1>1, <2>1, <2>4, <3>1 DEF IInv, CountInv
  <2>9. OpenInv'
    BY <1>1, <2>1, <2>2 DEF IInv, OpenInv
  <2>10. EvictInv'
    <3>1. \A j \in Ids : Acquiring(j)' <=> Acquiring(j)
      BY <1>1 DEF Acquiring
    <3> QED
      BY <1>1, <2>1, <2>2, <3>1 DEF IInv, EvictInv, EvictRun, Evicting
  <2> QED
    BY Zenon, <2>3, <2>5, <2>6, <2>7, <2>8, <2>9, <2>10 DEF IInv
<1> QED
  BY Zenon, <1>1, <1>3, <1>4

\* The close of a run ends and gives up the lock it owned.
LEMMA CloseIdleDoneInv ==
    ASSUME NEW r \in Runs, IInv, CloseIdleDone(r)
    PROVE  IInv'
<1>0. PICK o \in Ids : o = janitor[r].id
  BY DEF CloseIdleDone, IInv, CallInv
<1> DEFINE x == [janitor[r] EXCEPT !.at = "cleanup", !.id = None]
<1>01. janitor[r] \in Run
  BY DEF IInv, Shapes
<1>02. x \in Run
  BY Zenon, <1>01 DEF Run
<1>03. x.at = "cleanup"
  BY <1>01 DEF Run
<1> HIDE DEF x
<1>1. /\ janitor[r].at = "closing" /\ Go(r, x)
      /\ lock' = lock \ {o} /\ pendingCloses' = pendingCloses \ {o} /\ closedStores' = closedStores \cup {o}
      /\ UNCHANGED <<pendingOpens, shutdown, client, stale, leaked, refCount, scope, disk, raced>>
  BY Zenon, <1>0 DEF CloseIdleDone, Closed, Quiet, x
<1>11. janitor'[r] = x /\ janitor' \in [Runs -> Run] /\ \A q \in Runs \ {r} : janitor'[q] = janitor[q]
  BY Zenon, <1>1, <1>02, RunSteps
<1>2. janitor'[r].at = "cleanup"
  BY Zenon, <1>03, <1>11
<1>3. Shapes'
  <2>1. justClosed' \in [Runs -> SUBSET Ids]
    BY Zenon, <1>0, JustClosed DEF CloseIdleDone
  <2> QED
    BY <1>1, <1>11, <2>1 DEF IInv, Shapes
<1>4. /\ Open' = Open /\ (\A c \in Clients : Loaded(c)' <=> Loaded(c))
      /\ (\A j \in Ids : Holders(j)' = Holders(j)) /\ \A j \in Ids : Acquiring(j)' <=> Acquiring(j)
  BY Zenon, <1>1 DEF Open, Loaded, Holders, Acquiring
<1>5. CallInv' /\ PendingInv'
  <2>1. CallInv /\ PendingInv /\ UNCHANGED <<client, pendingOpens>>
    BY Zenon, <1>1 DEF IInv
  <2>2. \A q \in Runs : janitor'[q].at \in {"closing", "asking", "removing"} => janitor'[q].id \in Ids
    BY <1>2, <1>11, <2>1 DEF CallInv
  <2>3. CallInv'
    BY Zenon, <2>1, <2>2 DEF CallInv
  <2>4. PendingInv'
    BY Zenon, <2>1 DEF PendingInv
  <2> QED
    BY Zenon, <2>3, <2>4
<1>6. LockInv'
  <2>1. shutdown.at = "no" => o \in pendingCloses
    BY <1>0, <1>1 DEF IInv, CloserInv
  <2>2. LockInv
    BY Zenon DEF IInv
  <2> QED
    BY SMTT(30), <1>1, <1>4, <2>1, <2>2 DEF LockInv
<1>7. CloserInv'
  BY ZenonT(30), <1>0, <1>1, <1>2, <1>11 DEF IInv, CloserInv
<1>8. CountInv' /\ OpenInv'
  BY Zenon, <1>1, CallsKept
<1>9. EvictInv'
  BY Zenon, <1>1, <1>2, <1>4, <1>11 DEF IInv, EvictInv, EvictRun, Evicting
<1> QED
  BY Zenon, <1>3, <1>5, <1>6, <1>7, <1>8, <1>9 DEF IInv

\* The candidates are closed by now, and the acquires under way are taken down.
LEMMA EvictFromDiskInv ==
    ASSUME NEW r \in Runs, IInv, EvictFromDisk(r)
    PROVE  IInv'
<1>1. PICK old \in SUBSET (closedStores' \ justClosed[r]) : Go(r, [janitor[r] EXCEPT !.at = "evict", !.toEvict = old])
  BY Zenon DEF EvictFromDisk
<1>2. /\ closedStores' = {i \in closedStores : i \notin Open /\ pendingOpens[i] = Nobody}
      /\ raced' = [raced EXCEPT ![r] = {i \in Ids : Acquiring(i)}]
      /\ justClosed' = [justClosed EXCEPT ![r] = {}]
      /\ UNCHANGED <<pendingOpens, shutdown, client, stale, leaked, refCount, pendingCloses, scope, lock, disk>>
  BY Zenon DEF EvictFromDisk, Quiet
<1> DEFINE x == [janitor[r] EXCEPT !.at = "evict", !.toEvict = old]
<1>3. janitor[r] \in Run /\ closedStores' \subseteq Ids /\ old \in SUBSET Ids
  BY <1>2 DEF IInv, Shapes
<1>4. x \in Run
  BY Zenon, <1>3 DEF Run
<1>5. x.at = "evict" /\ x.toEvict = old
  BY <1>3 DEF Run
<1> HIDE DEF x
<1>6. janitor'[r] = x /\ janitor' \in [Runs -> Run] /\ \A q \in Runs \ {r} : janitor'[q] = janitor[q]
  BY <1>1, <1>4, RunSteps DEF x
<1>7. /\ raced'[r] = {i \in Ids : Acquiring(i)} /\ raced' \in [Runs -> SUBSET Ids]
      /\ \A q \in Runs \ {r} : raced'[q] = raced[q]
  <2> DEFINE now == {i \in Ids : Acquiring(i)}
  <2>1. now \in SUBSET Ids /\ raced' = [raced EXCEPT ![r] = now]
    BY <1>2
  <2> HIDE DEF now
  <2>2. raced'[r] = now /\ raced' \in [Runs -> SUBSET Ids] /\ \A q \in Runs \ {r} : raced'[q] = raced[q]
    BY Zenon, <2>1, RacedSteps
  <2> QED
    BY Zenon, <2>2 DEF now
<1>8. Shapes'
  <2>1. justClosed' \in [Runs -> SUBSET Ids]
    BY Zenon, <1>2 DEF IInv, Shapes
  <2> QED
    BY Zenon, <1>2, <1>3, <1>6, <1>7, <2>1 DEF IInv, Shapes
<1>9. EvictRun(r)'
  <2>1. Open' = Open /\ \A i \in Ids : Acquiring(i)' <=> Acquiring(i)
    BY <1>2 DEF Open, Acquiring
  <2>2. \A i \in old : i \notin Open
    BY <1>2
  <2> QED
    BY Zenon, <1>5, <1>6, <1>7, <2>1, <2>2 DEF EvictRun
<1>10. janitor'[r].at = "evict"
  BY Zenon, <1>5, <1>6
<1> QED
  BY Zenon, <1>2, <1>6, <1>7, <1>8, <1>9, <1>10, TidyInv

\* From one candidate to the next, through the callback.
LEMMA EvictStepsInv ==
    ASSUME NEW r \in Runs, IInv, AskEvict(r) \/ AnswerEvict(r) \/ RemoveDirectory(r) \/ CleanupDone(r)
    PROVE  IInv'
<1> DEFINE j == janitor[r]
<1>1. /\ UNCHANGED <<pendingOpens, shutdown, client, stale, leaked, refCount, pendingCloses, justClosed, scope, lock>>
      /\ closedStores' \subseteq closedStores /\ disk' \subseteq disk
      /\ raced' = raced \/ (Go(r, Resting) /\ raced' = [raced EXCEPT ![r] = {}])
  BY Zenon DEF AskEvict, AnswerEvict, RemoveDirectory, CleanupDone, Quiet
<1>2. j \in Run
  BY DEF IInv, Shapes
<1> HIDE DEF j
<1> DEFINE Placed(x) == /\ x.at # "closing"
                        /\ x.at \in {"asking", "removing"} => x.id \in Ids
           Fewer(x) == /\ j.at \in Evicting /\ raced' = raced
                       /\ x.toEvict \subseteq j.toEvict
                       /\ x.at # "evict" => \/ x.id \in j.toEvict
                                            \/ j.at # "evict" /\ x.id = j.id
           Fit(x) == x \in Run /\ Go(r, x) /\ Placed(x) /\ (x.at = "idle" \/ Fewer(x))
<1>3. ASSUME AskEvict(r) PROVE \E x : Fit(x)
  <2>1. PICK i \in j.toEvict :
            /\ j.at = "evict" /\ raced' = raced
            /\ Go(r, [j EXCEPT !.at = "asking", !.id = i, !.info = i \in closedStores, !.toEvict = @ \ {i}])
    BY Zenon, <1>3 DEF AskEvict, j
  <2> DEFINE x == [j EXCEPT !.at = "asking", !.id = i, !.info = i \in closedStores, !.toEvict = @ \ {i}]
  <2>2. i \in Ids /\ (i \in closedStores) \in BOOLEAN /\ j.toEvict \ {i} \in SUBSET Ids
    BY <1>2 DEF Run
  <2>3. x \in Run
    BY Zenon, <1>2, <2>2 DEF Run
  <2>4. x.at = "asking" /\ x.id = i /\ x.toEvict = j.toEvict \ {i}
    BY <1>2 DEF Run
  <2>5. Go(r, x)
    BY <2>1
  <2> HIDE DEF x
  <2>6. Placed(x) /\ Fewer(x)
    BY SMTT(30), <2>1, <2>2, <2>4 DEF Evicting
  <2> QED
    BY Zenon, <2>3, <2>5, <2>6
<1>4. ASSUME AnswerEvict(r), Go(r, [j EXCEPT !.at = "removing"])
      PROVE  \E x : Fit(x)
  <2> DEFINE x == [j EXCEPT !.at = "removing"]
  <2>1. j.at = "asking" /\ raced' = raced /\ j.id \in Ids
    BY <1>4 DEF AnswerEvict, IInv, CallInv, j
  <2>2. x \in Run /\ x.at = "removing" /\ x.id = j.id /\ x.toEvict = j.toEvict
    BY <1>2 DEF Run
  <2>3. Go(r, x)
    BY <1>4
  <2> HIDE DEF x
  <2>4. Placed(x) /\ Fewer(x)
    BY <2>1, <2>2 DEF Evicting
  <2> QED
    BY Zenon, <2>2, <2>3, <2>4
<1>5. ASSUME AnswerEvict(r) \/ RemoveDirectory(r),
             Go(r, [j EXCEPT !.at = "evict", !.id = None, !.info = FALSE])
      PROVE  \E x : Fit(x)
  <2> DEFINE x == [j EXCEPT !.at = "evict", !.id = None, !.info = FALSE]
  <2>1. j.at \in {"asking", "removing"} /\ raced' = raced
    BY <1>5 DEF AnswerEvict, RemoveDirectory, j
  <2>2. x \in Run
    BY Zenon, <1>2 DEF Run
  <2>3. x.at = "evict" /\ x.toEvict = j.toEvict
    BY <1>2 DEF Run
  <2>4. Go(r, x)
    BY <1>5
  <2> HIDE DEF x
  <2>5. Placed(x) /\ Fewer(x)
    BY Zenon, <2>1, <2>3 DEF Evicting
  <2> QED
    BY Zenon, <2>2, <2>4, <2>5
<1>6. PICK x : Fit(x)
  <2>1. CASE AnswerEvict(r)
    BY <1>4, <1>5, <2>1 DEF AnswerEvict, j
  <2>2. CASE RemoveDirectory(r)
    BY <1>5, <2>2 DEF RemoveDirectory, j
  <2>3. CASE CleanupDone(r)
    <3>1. Resting \in Run /\ Resting.at = "idle"
      BY DEF Resting, Run
    <3>2. Placed(Resting)
      BY Zenon, <3>1
    <3> QED
      BY ZenonT(30), <2>3, <3>1, <3>2 DEF CleanupDone
  <2> QED
    BY <1>3, <2>1, <2>2, <2>3
<1>7. janitor'[r] = x /\ janitor' \in [Runs -> Run] /\ \A q \in Runs \ {r} : janitor'[q] = janitor[q]
  BY Zenon, <1>6, RunSteps
<1>8. raced' \in [Runs -> SUBSET Ids] /\ \A q \in Runs \ {r} : raced'[q] = raced[q]
  BY Zenon, <1>1 DEF IInv, Shapes
<1>9. Shapes'
  BY SMTT(30), <1>1, <1>7, <1>8 DEF IInv, Shapes
<1>10. EvictRun(r)'
  <2>1. Open' = Open /\ \A i \in Ids : Acquiring(i)' <=> Acquiring(i)
    BY <1>1 DEF Open, Acquiring
  <2>2. EvictRun(r)
    BY Zenon DEF IInv, EvictInv
  <2> QED
    BY Zenon, <1>6, <1>7, <2>1, <2>2 DEF EvictRun, Evicting, j
<1>11. Placed(janitor'[r])
  BY <1>6, <1>7
<1> QED
  BY Zenon, <1>1, <1>7, <1>8, <1>9, <1>10, <1>11, TidyInv

-----------------------------------------------------------------------------
\* shutdown.

\* From here on the promises are off; the calls under way end as they would have.
LEMMA ShutdownInv == IInv /\ (Shutdown \/ ShutdownDone) => IInv'
<1> SUFFICES ASSUME IInv, Shutdown \/ ShutdownDone PROVE IInv'
  OBVIOUS
<1>1. /\ UNCHANGED <<pendingOpens, pendingCloses, client, janitor, justClosed, scope, disk, stale, raced, leaked>>
      /\ closedStores' \subseteq closedStores /\ lock' \subseteq lock
  BY DEF Shutdown, ShutdownDone
<1>2. /\ shutdown' \in [at : {"closing", "done"}, ids : SUBSET Ids]
      /\ refCount' \in [Ids -> Nat \cup {NotOpen}] /\ Open' \subseteq Open
  BY DEF Shutdown, ShutdownDone, IInv, Shapes, Open, NotOpen
<1>3. Shapes'
  BY ZenonT(30), <1>1, <1>2 DEF IInv, Shapes
<1>4. CallInv' /\ PendingInv'
  BY ZenonT(30), <1>1 DEF IInv, CallInv, PendingInv
<1>5. shutdown'.at # "no"
  BY Zenon, <1>2
<1>6. LockInv' /\ CloserInv' /\ CountInv' /\ OpenInv'
  BY Zenon, <1>5 DEF LockInv, CloserInv, CountInv, OpenInv
<1>7. EvictInv'
  BY Zenon, <1>1, <1>2 DEF IInv, EvictInv, EvictRun, Acquiring
<1> QED
  BY <1>3, <1>4, <1>6, <1>7 DEF IInv

-----------------------------------------------------------------------------
\* Every step of the manager, its clients and its timer keeps the invariant.
LEMMA NextInv == IInv /\ [Next]_vars => IInv'
<1> SUFFICES ASSUME IInv, [Next]_vars PROVE IInv'
  BY Zenon
<1>1. CASE \E c \in Resuming : ResumeAfterClose(c)
  BY Zenon, <1>1, ResumeAfterCloseInv DEF Resuming
<1>2. ASSUME NEW c \in scope.clients, Acquire(c) \/ AcquireIfOpen(c) \/ Release(c) \/ ReleasePin(c)
      PROVE  IInv'
  <2>1. c \in Clients
    BY Zenon DEF IInv, Shapes
  <2> QED
    BY Zenon, <1>2, <2>1, AcquireInv, AcquireIfOpenInv, ReleaseInv
<1>3. ASSUME NEW c \in scope.clients, Proceed(c)
      PROVE  IInv'
  <2>1. c \in Clients
    BY DEF IInv, Shapes
  <2> QED
    BY Zenon, <1>3, <2>1, EvictDoneInv, ResumeAfterEvictInv, OpenStoreInv, OpenRejectedInv, OpenDoneInv, RestoreFailsInv
       DEF Proceed
<1>4. CASE \E r \in Runs : Cleanup(r) \/ Tidy(r)
  BY <1>4, CleanupInv, CloseIdleInv, CloseIdleDoneInv, EvictFromDiskInv, EvictStepsInv DEF Tidy
<1>5. CASE Shutdown \/ ShutdownDone
  BY <1>5, ShutdownInv
<1>6. CASE UNCHANGED vars
  <2>1. Shapes' /\ EvictInv' /\ UNCHANGED <<refCount, pendingOpens, pendingCloses, shutdown, client, lock, stale, leaked, janitor, justClosed>>
    BY Zenon, <1>6 DEF vars, manager, IInv, Shapes, EvictInv, EvictRun, Open, Acquiring
  <2>2. /\ Open' = Open /\ (\A c \in Clients : Loaded(c)' <=> Loaded(c))
        /\ \A i \in Ids : Holders(i)' = Holders(i)
    BY SMTT(30), <2>1 DEF Open, Loaded, Holders
  <2>3. CallInv' /\ PendingInv' /\ CloserInv'
    <3>1. CallInv /\ PendingInv /\ CloserInv
      BY Zenon DEF IInv
    <3>2. CallInv' /\ PendingInv'
      BY Zenon, <2>1, <3>1 DEF CallInv, PendingInv
    <3>3. CloserInv'
      BY Zenon, <2>1, <3>1 DEF CloserInv
    <3> QED
      BY Zenon, <3>2, <3>3
  <2>4. LockInv' /\ CountInv' /\ OpenInv'
    BY Zenon, <2>1, <2>2 DEF IInv, LockInv, CountInv, OpenInv, Open
  <2> QED
    BY Zenon, <2>1, <2>3, <2>4 DEF IInv
<1> QED
  BY Zenon, <1>1, <1>2, <1>3, <1>4, <1>5, <1>6 DEF Next, Step

\* The inductive invariant of the store manager holds in every reachable state.
THEOREM Invariance == Spec => []IInv
BY InitInv, NextInv, PTL DEF Spec

\* Until shutdown a store has one reference per holder, and what an acquire has vended is
\* neither closed by evictLRU nor by the cleanup, whatever either awaited in between.
THEOREM HeldStoresStayOpen == Spec => []HeldStaysOpen
<1>1. IInv => HeldStaysOpen
  BY DEF IInv, HeldStaysOpen, CountInv, LockInv, Holders
<1> QED
  BY <1>1, Invariance, PTL

\* acquire opens a directory that is open, or being opened, only when it had waited in
\* evictLRU: the two pending maps keep every other pair of opens apart.
THEOREM OneOpenAtATime == Spec => []SecondOpenOnlyAfterEviction
<1>1. IInv => SecondOpenOnlyAfterEviction
  <2> SUFFICES ASSUME IInv, shutdown.at = "no", NEW c \in Clients,
                      client[c].at = "opening", client[c].id \notin stale \cup leaked
               PROVE  /\ client[c].id \notin lock
                      /\ \A b \in Clients \ {c} : client[b].at \in Opening => client[b].id # client[c].id
    BY DEF SecondOpenOnlyAfterEviction
  <2>1. \A b \in Clients \ {c} : client[b].at \in Opening => client[b].id # client[c].id
    BY DEF IInv, OpenInv, Opening
  <2>2. client[c].id \notin Open \cup pendingCloses
    BY DEF IInv, OpenInv, Opening
  <2>3. \A b \in Clients : Loaded(b) => client[b].id # client[c].id
    BY Zenon, <2>1 DEF Loaded, Opening
  <2> QED
    BY <2>1, <2>2, <2>3 DEF IInv, LockInv
<1> QED
  BY <1>1, Invariance, PTL

\* evictFromDisk deletes a directory in use only if an acquire of that database was under
\* way when the candidates were chosen, or has come since.
THEOREM OnlyRacedAreEvicted == Spec => []EvictsUnused
<1>1. IInv => EvictsUnused
  BY DEF IInv, EvictsUnused, EvictInv, EvictRun, CallInv, Evicting
<1> QED
  BY <1>1, Invariance, PTL

-----------------------------------------------------------------------------
(* The order of the stores map. *)

\* A sequence that lists a set, each member once.
Lists(s, S) ==
    /\ s \in Seq(Ids) /\ Range(s) = S
    /\ \A p, q \in 1..Len(s) : s[p] = s[q] => p = q

\* An entry taken out of the order leaves the others listed.
LEMMA ListsWithout ==
    ASSUME NEW S, Lists(recent, S), NEW i \in Ids
    PROVE  Lists(Without(i), S \ {i})
<1>0. recent \in Seq(Ids) /\ DOMAIN recent = 1..Len(recent) /\ Len(recent) \in Nat
  BY DEF Lists
<1>1. CASE i \notin Range(recent)
  BY Zenon, <1>1 DEF Lists, Without
<1>2. CASE i \in Range(recent)
  <2> DEFINE p == CHOOSE x \in DOMAIN recent : recent[x] = i
             n == Len(recent)
             t == Without(i)
  <2>1. p \in 1..n /\ recent[p] = i
    <3>1. \E x \in DOMAIN recent : recent[x] = i
      BY Zenon, <1>2 DEF Range
    <3>2. p \in DOMAIN recent /\ recent[p] = i
      BY Zenon, <3>1
    <3> QED
      BY <1>0, <3>2
  <2>2. t = SubSeq(recent, 1, p - 1) \o SubSeq(recent, p + 1, n)
    BY Zenon, <1>2 DEF Without
  <2> HIDE DEF p, t
  <2>3. /\ t \in Seq(Ids) /\ Len(t) = n - 1
        /\ \A x \in 1..(n - 1) : t[x] = IF x < p THEN recent[x] ELSE recent[x + 1]
    <3> DEFINE a == SubSeq(recent, 1, p - 1)
               b == SubSeq(recent, p + 1, n)
    <3>1. a \in Seq(Ids) /\ Len(a) = p - 1 /\ \A x \in 1..(p - 1) : a[x] = recent[x]
      BY <1>0, <2>1
    <3>2. b \in Seq(Ids) /\ Len(b) = n - p /\ \A x \in 1..(n - p) : b[x] = recent[x + p]
      <4>1. CASE p = n
        <5>1. b = <<>>
          BY <1>0, <2>1, <4>1
        <5> QED
          BY <1>0, <2>1, <4>1, <5>1
      <4>2. CASE p < n
        <5>1. p + 1 \in 1..n /\ n - (p + 1) + 1 = n - p
          BY <1>0, <2>1, <4>2
        <5>2. b \in Seq(Ids)
          BY <1>0, <5>1
        <5>3. Len(b) = n - p
          BY <1>0, <2>1, <4>2, <5>1
        <5>4. \A x \in 1..(n - p) : b[x] = recent[x + p]
          BY <1>0, <2>1, <4>2, <5>1
        <5> QED
          BY Zenon, <5>2, <5>3, <5>4
      <4>3. p = n \/ p < n
        <5>1. n \in Nat /\ p \in 1..n
          BY Zenon, <1>0, <2>1
        <5> QED
          BY <5>1
      <4> QED
        BY Zenon, <4>1, <4>2, <4>3
    <3>3. t = a \o b
      BY Zenon, <2>2
    <3> HIDE DEF a, b
    <3>4. t \in Seq(Ids) /\ Len(t) = n - 1
      <4>0. a \in Seq(Ids) /\ b \in Seq(Ids)
        BY Zenon, <3>1, <3>2
      <4>1. a \o b \in Seq(Ids) /\ Len(a \o b) = Len(a) + Len(b)
        BY <4>0
      <4> QED
        BY <1>0, <2>1, <3>1, <3>2, <3>3, <4>1
    <3>5. \A x \in 1..(n - 1) : t[x] = IF x < p THEN a[x] ELSE b[x - (p - 1)]
      BY <1>0, <2>1, <3>1, <3>2, <3>3
    <3>6. \A x \in 1..(n - 1) : x < p => t[x] = recent[x]
      BY <1>0, <2>1, <3>1, <3>5
    <3>7. ASSUME NEW x \in 1..(n - 1), ~(x < p) PROVE t[x] = recent[x + 1]
      <4>1. x - (p - 1) \in 1..(n - p) /\ (x - (p - 1)) + p = x + 1
        BY <1>0, <2>1, <3>7
      <4> QED
        BY Zenon, <3>2, <3>5, <3>7, <4>1
    <3> QED
      BY Zenon, <3>4, <3>6, <3>7
  <2>4. \A x, y \in 1..n : recent[x] = recent[y] => x = y
    BY Zenon DEF Lists
  <2>5. \A x, y \in 1..(n - 1) : t[x] = t[y] => x = y
    BY <1>0, <2>1, <2>3, <2>4
  <2>6. \A x \in 1..(n - 1) : t[x] \in S /\ t[x] # i
    <3>1. \A x \in 1..n : recent[x] \in S
      BY <1>0 DEF Lists, Range
    <3> QED
      BY <1>0, <2>1, <2>3, <2>4, <3>1
  <2>7. \A j \in S \ {i} : \E x \in 1..(n - 1) : t[x] = j
    <3> TAKE j \in S \ {i}
    <3>1. PICK x \in 1..n : recent[x] = j
      BY Zenon, <1>0 DEF Lists, Range
    <3>2. CASE x < p
      BY <1>0, <2>1, <2>3, <3>1, <3>2
    <3>3. CASE x > p
      <4>1. x - 1 \in 1..(n - 1) /\ ~(x - 1 < p) /\ (x - 1) + 1 = x
        BY <1>0, <2>1, <3>3
      <4> QED
        BY Zenon, <2>3, <3>1, <4>1
    <3>4. x # p
      BY Zenon, <2>1, <3>1
    <3> QED
      BY <1>0, <2>1, <3>2, <3>3, <3>4
  <2>8. DOMAIN t = 1..(n - 1)
    BY <1>0, <2>1, <2>3
  <2>9. Range(t) = S \ {i}
    BY Zenon, <2>6, <2>7, <2>8 DEF Range
  <2> QED
    BY Zenon, <2>3, <2>5, <2>9 DEF Lists, t
<1> QED
  BY <1>1, <1>2

\* An entry used now comes last, whether or not it was listed.
LEMMA ListsTouched ==
    ASSUME NEW S, Lists(recent, S), NEW i \in Ids
    PROVE  Lists(Touched(i), S \cup {i})
<1> DEFINE w == Without(i)
           n == Len(w)
           t == Touched(i)
<1>1. Lists(w, S \ {i})
  BY Zenon, ListsWithout
<1>2. t = Append(w, i)
  BY DEF Touched
<1> HIDE DEF w, t
<1>3. w \in Seq(Ids) /\ n \in Nat /\ DOMAIN w = 1..n
  BY <1>1 DEF Lists
<1>4. /\ t \in Seq(Ids) /\ Len(t) = n + 1 /\ DOMAIN t = 1..(n + 1)
      /\ \A x \in 1..n : t[x] = w[x]
      /\ t[n + 1] = i
  BY <1>2, <1>3
<1>5. \A x \in 1..n : w[x] \in S /\ w[x] # i
  BY Zenon, <1>1, <1>3 DEF Lists, Range
<1>6. \A x, y \in 1..(n + 1) : t[x] = t[y] => x = y
  <2>1. \A x, y \in 1..n : w[x] = w[y] => x = y
    BY Zenon, <1>1 DEF Lists
  <2> QED
    BY <1>3, <1>4, <1>5, <2>1
<1>7. \A j \in S \ {i} : \E x \in 1..n : w[x] = j
  BY Zenon, <1>1, <1>3 DEF Lists, Range
<1>8. \A j \in S \cup {i} : \E x \in 1..(n + 1) : t[x] = j
  <2> TAKE j \in S \cup {i}
  <2>1. CASE j = i
    BY <1>3, <1>4, <2>1
  <2>2. CASE j # i
    <3>1. PICK x \in 1..n : w[x] = j
      BY Zenon, <1>7, <2>2
    <3>2. x \in 1..(n + 1) /\ t[x] = j
      BY <1>3, <1>4, <3>1
    <3> QED
      BY <3>2
  <2> QED
    BY <2>1, <2>2
<1>9. \A x \in 1..(n + 1) : t[x] \in S \cup {i}
  BY <1>3, <1>4, <1>5
<1>10. Range(t) = S \cup {i}
  BY ZenonT(30), <1>4, <1>8, <1>9 DEF Range
<1> QED
  BY <1>4, <1>6, <1>10 DEF Lists, t

\* A list of a set has as many entries as the set has members.
LEMMA ListsLength ==
    ASSUME NEW s, NEW S, Lists(s, S)
    PROVE  Len(s) = Cardinality(S)
<1>1. s \in Seq(Ids) /\ Len(s) \in Nat /\ DOMAIN s = 1..Len(s) /\ Range(s) = S
  BY DEF Lists
<1>2. s \in Bijection(1..Len(s), S)
  <2>1. s \in [1..Len(s) -> S]
    BY <1>1 DEF Range
  <2>2. \A p, q \in 1..Len(s) : s[p] = s[q] => p = q
    BY DEF Lists
  <2>3. \A j \in S : \E p \in 1..Len(s) : s[p] = j
    BY <1>1 DEF Range
  <2> QED
    BY <2>1, <2>2, <2>3 DEF Bijection, Injection, Surjection, IsInjective
<1>3. ExistsBijection(1..Len(s), S)
  BY Zenon, <1>2 DEF ExistsBijection
<1> QED
  BY <1>1, <1>3, FS_CountingElements

\* The order lists the stores map.
Ordered == Lists(recent, Open)

\* A step that adds an entry or uses one puts it last, and one that closes a store takes
\* it out; no other step changes the keys of the stores map.
LEMMA OrderSteps ==
    ASSUME IInv, Next
    PROVE  \/ UNCHANGED <<recent, Open>>
           \/ \E i \in Ids : recent' = Touched(i) /\ Open' = Open \cup {i}
           \/ \E i \in Ids : recent' = Without(i) /\ Open' = Open \ {i}
           \/ recent' = <<>> /\ Open' = {}
<1> DEFINE Kept == UNCHANGED <<recent, Open>>
           Used == \E i \in Ids : recent' = Touched(i) /\ Open' = Open \cup {i}
           Gone == \E i \in Ids : recent' = Without(i) /\ Open' = Open \ {i}
<1>0. refCount \in [Ids -> Nat \cup {NotOpen}] /\ NotOpen \notin Nat /\ NotOpen + 1 = 0
  BY DEF IInv, Shapes, NotOpen
<1>1. ASSUME UNCHANGED <<refCount, recent>> PROVE Kept
  BY <1>1 DEF Open
<1>2. ASSUME NEW i \in Ids, NEW n \in Nat, refCount' = [refCount EXCEPT ![i] = n]
      PROVE  Open' = Open \cup {i}
  BY Zenon, <1>0, <1>2 DEF Open
<1>3. ASSUME NEW i \in Ids, Retire(i) PROVE Gone
  BY Zenon, <1>0, <1>3 DEF Open, Retire
<1>4. ASSUME NEW c \in Clients, NEW i \in Ids, Find(c, i) PROVE Kept \/ Used \/ Gone
  <2>1. CASE AcquireCached(c, i)
    <3>1. refCount[i] + 1 \in Nat
      BY <1>0, <2>1 DEF AcquireCached, Open
    <3> QED
      BY Zenon, <1>2, <2>1, <3>1 DEF AcquireCached
  <2>2. CASE EvictLRU(c, i)
    BY <1>3, <2>2 DEF EvictLRU, Unreferenced, Open
  <2>3. CASE AwaitPendingOpen(c, i) \/ EvictNothing(c, i) \/ OpenDirectly(c, i)
    BY Zenon, <1>1, <2>3 DEF AwaitPendingOpen, EvictNothing, OpenDirectly, StartOpen
  <2> QED
    BY Zenon, <1>4, <2>1, <2>2, <2>3 DEF Find
<1>5. ASSUME NEW c \in Clients, ResumeAfterClose(c) \/ Acquire(c) PROVE Kept \/ Used \/ Gone
  <2>1. CASE Acquire(c)
    <3>1. PICK i \in Ids : UNCHANGED <<refCount, recent>> \/ Find(c, i)
      BY Zenon, <2>1 DEF Acquire
    <3> QED
      BY <1>1, <1>4, <3>1
  <2>2. CASE ResumeAfterClose(c)
    <3>1. client[c].id \in Ids
      BY <2>2 DEF ResumeAfterClose, Resuming, IInv, CallInv
    <3> QED
      BY Zenon, <1>4, <2>2, <3>1 DEF ResumeAfterClose
  <2> QED
    BY Zenon, <1>5, <2>1, <2>2
<1>6. ASSUME NEW c \in Clients, OpenDone(c) PROVE Used
  <2>1. client[c].id \in Ids
    BY <1>6 DEF OpenDone, IInv, CallInv
  <2>2. IsFiniteSet(Waiters(c))
    <3>1. IsFiniteSet(Clients) /\ Waiters(c) \subseteq Clients
      BY Zenon, ConstantsAssumption DEF Waiters
    <3> QED
      BY Zenon, <3>1, FS_Subset
  <2>3. 1 + Cardinality(Waiters(c)) \in Nat
    BY <2>2, FS_CardinalityType
  <2> QED
    BY Zenon, <1>2, <1>6, <2>1, <2>3 DEF OpenDone
<1>7. ASSUME NEW c \in Clients, client[c].at \in Holding, DecRef(client[c].id)
      PROVE  client[c].id \in Ids /\ Open' = Open
  <2>1. client[c].id \in Ids
    BY Zenon, <1>7 DEF IInv, CallInv, Holding
  <2>2. CASE refCount[client[c].id] \in Nat
    BY <1>0, <1>7, <2>1, <2>2 DEF DecRef, Open
  <2>3. CASE refCount[client[c].id] = NotOpen
    BY Zenon, <1>0, <1>7, <2>1, <2>3 DEF DecRef, Open
  <2> QED
    BY Zenon, <1>0, <2>1, <2>2, <2>3
<1>8. ASSUME NEW c \in Clients, Release(c) PROVE Kept \/ Used
  <2>1. client[c].at \in Holding /\ DecRef(client[c].id)
    BY <1>8 DEF Release, Holding
  <2>2. client[c].id \in Ids /\ Open' = Open
    BY Zenon, <1>7, <2>1
  <2>3. CASE client[c].id \in Open
    BY Zenon, <1>8, <2>2, <2>3 DEF Release
  <2>4. CASE client[c].id \notin Open
    BY Zenon, <1>8, <2>2, <2>4 DEF Release
  <2> QED
    BY Zenon, <2>3, <2>4
<1>9. ASSUME NEW c \in Clients, ReleasePin(c) PROVE Kept
  <2>1. client[c].at \in Holding /\ DecRef(client[c].id)
    BY <1>9 DEF ReleasePin, Holding
  <2> QED
    BY Zenon, <1>7, <1>9, <2>1 DEF ReleasePin
<1>10. ASSUME NEW c \in Clients, AcquireIfOpen(c) PROVE Kept
  <2>1. PICK i \in Open : refCount' = [refCount EXCEPT ![i] = @ + 1] /\ recent' = recent
    BY Zenon, <1>10 DEF AcquireIfOpen
  <2>2. i \in Ids /\ refCount[i] + 1 \in Nat
    BY <1>0 DEF Open
  <2> QED
    BY Zenon, <1>2, <2>1, <2>2
<1>11. ASSUME NEW r \in Runs, CloseIdle(r) PROVE Kept \/ Gone
  <2>1. janitor[r].toClose \subseteq Ids
    BY DEF IInv, Shapes, Run
  <2> QED
    BY Zenon, <1>1, <1>3, <1>11, <2>1 DEF CloseIdle
<1>12. ASSUME ShutdownDone PROVE recent' = <<>> /\ Open' = {}
  BY Zenon, <1>12 DEF ShutdownDone, Open
<1>13. ASSUME NEW c \in Clients,
              \/ EvictDone(c) \/ ResumeAfterEvict(c) \/ OpenStore(c) \/ OpenFails(c)
              \/ SyncModuleFails(c) \/ RestoreFails(c) \/ FailedStoreClosed(c)
       PROVE  Kept
  BY SMTT(30), <1>1, <1>13 DEF EvictDone, ResumeAfterEvict, StartOpen, OpenStore, OpenFails, SyncModuleFails,
                     RestoreFails, FailedStoreClosed, Reject, manager
<1>14. ASSUME NEW r \in Runs,
              \/ Cleanup(r) \/ CloseIdleDone(r) \/ EvictFromDisk(r) \/ AskEvict(r) \/ AnswerEvict(r)
              \/ RemoveDirectory(r) \/ CleanupDone(r)
       PROVE  Kept
  BY Zenon, <1>1, <1>14 DEF Cleanup, CloseIdleDone, EvictFromDisk, AskEvict, AnswerEvict,
                     RemoveDirectory, CleanupDone
<1>140. ASSUME Shutdown PROVE Kept
  BY Zenon, <1>1, <1>140 DEF Shutdown
<1>15. scope.clients \subseteq Clients /\ Resuming \subseteq Clients
  BY DEF IInv, Shapes, Resuming
<1> HIDE DEF Kept, Used, Gone
<1>16. Kept \/ Used \/ Gone \/ (recent' = <<>> /\ Open' = {})
  BY Zenon, <1>5, <1>6, <1>8, <1>9, <1>10, <1>11, <1>12, <1>13, <1>14, <1>140, <1>15 DEF Next, Step, Proceed, Tidy
<1> QED
  BY Zenon, <1>16 DEF Kept, Used, Gone

\* The order lists the stores map in every reachable state.
LEMMA OrderInvariant == Spec => []Ordered
<1>1. Init => Ordered
  <2> SUFFICES ASSUME Init PROVE Lists(recent, Open)
    BY Zenon DEF Ordered
  <2>1. recent = <<>> /\ Open = {}
    BY DEF Init, Open
  <2> QED
    BY <2>1 DEF Lists, Range
<1>2. IInv /\ Ordered /\ [Next]_vars => Ordered'
  <2> SUFFICES ASSUME IInv, Lists(recent, Open), [Next]_vars PROVE Lists(recent', Open')
    BY Zenon DEF Ordered
  <2>1. CASE UNCHANGED <<recent, Open>>
    BY <2>1
  <2>2. CASE recent' = <<>> /\ Open' = {}
    BY <2>2 DEF Lists, Range
  <2>3. CASE \E i \in Ids : recent' = Touched(i) /\ Open' = Open \cup {i}
    BY Zenon, <2>3, ListsTouched
  <2>4. CASE \E i \in Ids : recent' = Without(i) /\ Open' = Open \ {i}
    BY Zenon, <2>4, ListsWithout
  <2>5. CASE UNCHANGED vars
    BY <2>1, <2>5 DEF vars, manager, Open
  <2> QED
    BY Zenon, <2>1, <2>2, <2>3, <2>4, <2>5, OrderSteps
<1> QED
  BY <1>1, <1>2, Invariance, PTL DEF Spec

\* The stores map, its order and the pending maps keep their types, and until shutdown an
\* open directory is that of an entry, of a close or of an open that is under way (TypeOK).
THEOREM TypeCorrect == Spec => []TypeOK
<1>1. IInv /\ Ordered => TypeOK
  <2> SUFFICES ASSUME IInv, Ordered PROVE TypeOK
    OBVIOUS
  <2>1. Range(recent) = Open /\ Len(recent) = Cardinality(Open)
    BY Zenon, ListsLength DEF Ordered, Lists
  <2>2. ASSUME shutdown.at = "no", NEW i \in lock \ leaked
        PROVE  \/ i \in Open \cup pendingCloses
               \/ \E c \in Clients : client[c].id = i /\ client[c].at \in Opening
    BY <2>2 DEF IInv, LockInv, Loaded, Opening
  <2>3. Shapes
    BY DEF IInv
  <2> QED
    BY Zenon, <2>1, <2>2, <2>3 DEF Shapes, Run, TypeOK
<1> QED
  BY <1>1, Invariance, OrderInvariant, PTL
=============================================================================
