------------------------ MODULE ExecutionMutexProofs ------------------------
(***************************************************************************)
(* Proofs about the execution mutex, for any sets of iterators, statements, *)
(* watch handlers and committed reads.                                     *)
(***************************************************************************)
EXTENDS ExecutionMutex, TLAPS

\* What the parties are.
LEMMA PartyKinds ==
    /\ Iterations \subseteq Callers /\ Execs \subseteq Callers /\ Handlers \subseteq Callers
    /\ Callers \subseteq Parties /\ Closer \in Parties
    /\ Closer \notin Callers /\ Nobody \notin Parties
BY PartiesAssumption DEF Callers, Parties

\* What a party that has the mutex knows.
LEMMA HolderFacts ==
    ASSUME IInv, NEW p \in Parties, pc[p] \in Holding
    PROVE  /\ hold = p /\ depth = 1
           /\ tail \in Nat /\ slot[p] \in 1..tail /\ slot[p] \notin resolved
           /\ \A t \in 1..(slot[p] - 1) : t \in resolved
<1>1. hold = p /\ depth = 1
    BY PartyKinds DEF IInv, HoldInv
<1>2. tail \in Nat /\ slot[p] \in 1..tail /\ slot[p] \notin resolved
    BY DEF IInv, TypeOK, SlotInv
<1>3. \A t \in 1..(slot[p] - 1) : t \in resolved
    BY DEF IInv, SlotInv
<1> QED
    BY <1>1, <1>2, <1>3

\* Resolving the holder's slot keeps the queue in order (the release function).
LEMMA ReleaseSlots ==
    ASSUME IInv, NEW p \in Parties, pc[p] \in Holding, Release(p)
    PROVE  /\ SlotInv'
           /\ tail' \in Nat /\ resolved' \subseteq 1..tail' /\ slot' \in [Parties -> 0..tail']
           /\ depth' = 0 /\ deferred' = deferred /\ hold' = Nobody
<1>1. /\ tail' \in Nat /\ resolved' \subseteq 1..tail' /\ slot' \in [Parties -> 0..tail']
      /\ depth' = 0 /\ deferred' = deferred /\ hold' = Nobody
  <2>1. /\ tail' = tail /\ slot' = slot /\ deferred' = deferred
        /\ hold' = Nobody /\ depth' = depth - 1 /\ resolved' = resolved \cup {slot[p]}
      BY DEF Release
  <2>2. /\ depth = 1 /\ tail \in Nat /\ slot[p] \in 1..tail
        /\ resolved \subseteq 1..tail /\ slot \in [Parties -> 0..tail]
      BY HolderFacts DEF IInv, TypeOK
  <2>3. depth' = 0
      BY <2>1, <2>2
  <2>4. resolved' \subseteq 1..tail'
      BY Zenon, <2>1, <2>2
  <2>5. tail' \in Nat /\ slot' \in [Parties -> 0..tail']
      BY <2>1, <2>2, Zenon
  <2> QED
      BY Zenon, <2>1, <2>3, <2>4, <2>5
<1>2. \A s \in resolved' : \A t \in 1..s : t \in resolved'
    BY HolderFacts DEF IInv, TypeOK, SlotInv, Release
<1>3. \A q, r \in Parties : slot'[q] = slot'[r] /\ slot'[q] # 0 => q = r
    BY DEF IInv, SlotInv, Release
<1>4. ASSUME NEW q \in Parties, pc'[q] \in Holding \cup {"waiting"}
      PROVE  slot'[q] # 0 /\ slot'[q] \notin resolved'
  <2>1. q # p /\ pc[q] \in Holding \cup {"waiting"}
      BY <1>4 DEF IInv, TypeOK, Release, Goto, Holding
  <2> QED
      BY <2>1, HolderFacts DEF IInv, SlotInv, Release
<1>5. \A q \in Parties : pc'[q] \notin Holding
    BY HolderFacts DEF IInv, TypeOK, HoldInv, Release, Goto, Holding
<1> QED
    BY Zenon, <1>1, <1>2, <1>3, <1>4, <1>5 DEF SlotInv

\* A new slot is unlike all others (takeExecMutex).
LEMMA EnqueueSlots ==
    ASSUME IInv, NEW p \in Parties, Enqueue(p)
    PROVE  /\ SlotInv'
           /\ tail' \in Nat /\ resolved' \subseteq 1..tail' /\ slot' \in [Parties -> 0..tail']
<1>1. tail' \in Nat /\ resolved' \subseteq 1..tail' /\ slot' \in [Parties -> 0..tail']
    BY DEF IInv, TypeOK, Enqueue
<1>2. \A q, r \in Parties : slot'[q] = slot'[r] /\ slot'[q] # 0 => q = r
    BY DEF IInv, TypeOK, SlotInv, Enqueue
<1>3. \A q \in Parties : pc'[q] \in Holding \cup {"waiting"} => slot'[q] # 0 /\ slot'[q] \notin resolved'
    BY DEF IInv, TypeOK, SlotInv, Enqueue, Goto
<1>4. \A q \in Parties : pc'[q] \in Holding => \A t \in 1..(slot'[q] - 1) : t \in resolved'
    BY DEF IInv, TypeOK, SlotInv, Enqueue, Goto, Holding
<1> QED
    BY <1>1, <1>2, <1>3, <1>4 DEF IInv, SlotInv, Enqueue

\* A party that moves on without touching the queue, and without asking for the mutex or
\* getting it, leaves the slots in order.
LEMMA MoveSlots ==
    ASSUME IInv, NEW p \in Parties, NEW place, UNCHANGED mutex,
           pc' = [pc EXCEPT ![p] = place],
           place \notin Holding \cup {"waiting"} \/ (place \in Holding /\ pc[p] \in Holding)
    PROVE  SlotInv'
BY DEF IInv, TypeOK, SlotInv, mutex

\* A party that may take the mutex finds nobody holding it: the holder's slot would be
\* before its own, hence resolved (takeExecMutex awaits its predecessor).
LEMMA TakesFreeMutex ==
    ASSUME IInv, NEW p \in Parties, Take(p)
    PROVE  hold = Nobody
<1> SUFFICES ASSUME hold # Nobody PROVE FALSE
    OBVIOUS
<1>1. hold \in Parties /\ pc[hold] \in Holding /\ hold # p
    BY DEF IInv, TypeOK, HoldInv, Take, Holding
<1>2. /\ slot[p] \in Nat /\ slot[hold] \in Nat
      /\ slot[p] # 0 /\ slot[p] \notin resolved
      /\ slot[hold] # 0 /\ slot[hold] \notin resolved
      /\ slot[p] # slot[hold]
    BY <1>1 DEF IInv, TypeOK, SlotInv, Take
<1>3. \A t \in 1..(slot[hold] - 1) : t \in resolved
    BY <1>1 DEF IInv, SlotInv
<1>4. slot[hold] < slot[p]
    BY <1>2, <1>3
<1>5. slot[p] - 1 \in resolved
    BY <1>2, <1>4 DEF Take
<1> QED
    BY <1>2, <1>4, <1>5 DEF IInv, SlotInv

\* Taking the mutex.
LEMMA TakeStep ==
    ASSUME IInv, NEW p \in Parties, Take(p)
    PROVE  IInv'
<1>0. hold = Nobody /\ depth = 0
    BY TakesFreeMutex DEF IInv, HoldInv
<1>1. TypeOK'
    BY <1>0, PartyKinds DEF IInv, TypeOK, Places, Take, Goto
<1>2. HoldInv'
  <2>1. \A q \in Parties : pc[q] \notin Holding
      BY <1>0, PartyKinds DEF IInv, HoldInv
  <2>2. \A q \in Parties : pc'[q] \in Holding <=> q = p
      BY <2>1 DEF IInv, TypeOK, Take, Goto, Holding
  <2>3. hold' = p /\ depth' = 1
      BY <1>0 DEF Take
  <2> QED
      BY <2>2, <2>3, PartyKinds DEF HoldInv
<1>3. SlotInv'
    BY PartyKinds, TakesFreeMutex DEF IInv, TypeOK, HoldInv, SlotInv, Holding, Take, Goto, vars
<1>4. CloseInv'
    BY PartyKinds, TakesFreeMutex DEF IInv, TypeOK, HoldInv, SlotInv, CloseInv, Holding, Take, Goto, vars
<1>5. HandlerInv'
    BY PartyKinds, TakesFreeMutex DEF IInv, TypeOK, HoldInv, HandlerInv, Holding, Take, Goto, vars
<1> QED
    BY <1>1, <1>2, <1>3, <1>4, <1>5 DEF IInv

\* The handlers of a hold have settled.
LEMMA ReleasedStep ==
    ASSUME IInv, NEW p \in Parties, Released(p)
    PROVE  IInv'
<1>1. TypeOK'
    BY PartyKinds DEF IInv, TypeOK, Places, Released, Goto, mutex
<1>2. HoldInv'
    BY PartyKinds DEF IInv, TypeOK, HoldInv, Holding, Released, Goto, mutex
<1>3. SlotInv'
    BY PartyKinds DEF IInv, TypeOK, HoldInv, SlotInv, Holding, Released, Goto, mutex
<1>4. CloseInv'
    BY PartyKinds DEF IInv, TypeOK, HoldInv, SlotInv, CloseInv, Holding, Released, Goto, mutex
<1>5. HandlerInv'
    BY PartyKinds DEF IInv, TypeOK, HoldInv, HandlerInv, Holding, Released, Goto, mutex
<1> QED
    BY <1>1, <1>2, <1>3, <1>4, <1>5 DEF IInv

\* A call enqueues, or is refused.
LEMMA CallStep ==
    ASSUME IInv, NEW x \in Callers, Call(x)
    PROVE  IInv'
<1>1. TypeOK'
  <2>1. CASE isOpen
      BY <2>1, PartyKinds, EnqueueSlots DEF IInv, TypeOK, Places, Call, Enqueue, Goto
  <2>2. CASE ~isOpen
      BY Zenon, <2>2, PartyKinds DEF IInv, TypeOK, Places, Call, Goto, mutex
  <2> QED
      BY <2>1, <2>2
<1>2. HoldInv'
    BY PartyKinds DEF IInv, TypeOK, HoldInv, Holding, Call, Enqueue, Goto, mutex
<1>3. SlotInv'
  <2>1. CASE isOpen
      BY <2>1, PartyKinds, EnqueueSlots DEF Call
  <2>2. CASE ~isOpen
      BY <2>2, PartyKinds, MoveSlots DEF Call, Goto, mutex, Holding
  <2> QED
      BY <2>1, <2>2
<1>4. CloseInv'
    BY PartyKinds DEF IInv, TypeOK, HoldInv, SlotInv, CloseInv, Holding, Call, Enqueue, Goto, mutex
<1>5. HandlerInv'
    BY PartyKinds DEF IInv, TypeOK, HoldInv, HandlerInv, Holding, Call, Enqueue, Goto, mutex
<1> QED
    BY <1>1, <1>2, <1>3, <1>4, <1>5 DEF IInv

\* The check after taking the mutex.
LEMMA CheckStep ==
    ASSUME IInv, NEW x \in Callers, Check(x)
    PROVE  IInv'
<1>1. TypeOK'
  <2>1. CASE isOpen
      BY Zenon, <2>1, PartyKinds DEF IInv, TypeOK, Places, Check, Goto, mutex
  <2>2. CASE ~isOpen
      BY <2>2, PartyKinds, ReleaseSlots DEF IInv, TypeOK, Places, Check, Release, Goto, Holding
  <2> QED
      BY <2>1, <2>2
<1>2. HoldInv'
    BY PartyKinds DEF IInv, TypeOK, HoldInv, Holding, Check, Release, Goto, mutex
<1>3. SlotInv'
  <2>1. CASE isOpen
      BY <2>1, PartyKinds, MoveSlots DEF Check, Goto, mutex, Holding
  <2>2. CASE ~isOpen
      BY <2>2, PartyKinds, ReleaseSlots DEF Check, Holding
  <2> QED
      BY <2>1, <2>2
<1>4. CloseInv'
    BY PartyKinds DEF IInv, TypeOK, HoldInv, SlotInv, CloseInv, Holding, Check, Release, Goto, mutex
<1>5. HandlerInv'
    BY PartyKinds DEF IInv, TypeOK, HoldInv, HandlerInv, Holding, Check, Release, Goto, mutex
<1> QED
    BY <1>1, <1>2, <1>3, <1>4, <1>5 DEF IInv

\* A statement starts, an iteration after its second check.
LEMMA StartStep ==
    ASSUME IInv, NEW x \in Callers, Start(x)
    PROVE  IInv'
<1>1. TypeOK'
  <2>1. CASE isOpen \/ x \notin Iterations
      BY ZenonT(30), <2>1, PartyKinds DEF IInv, TypeOK, Places, Start, Goto, mutex
  <2>2. CASE ~isOpen /\ x \in Iterations
      BY <2>2, PartyKinds, ReleaseSlots DEF IInv, TypeOK, Places, Start, Release, Goto, Holding
  <2> QED
      BY <2>1, <2>2
<1>2. HoldInv'
    BY PartyKinds DEF IInv, TypeOK, HoldInv, Holding, Start, Release, Goto, mutex
<1>3. SlotInv'
  <2>1. CASE isOpen \/ x \notin Iterations
      BY <2>1, PartyKinds, MoveSlots DEF Start, Goto, mutex, Holding
  <2>2. CASE ~isOpen /\ x \in Iterations
      BY <2>2, PartyKinds, ReleaseSlots DEF Start, Holding
  <2> QED
      BY <2>1, <2>2
<1>4. CloseInv'
    BY PartyKinds DEF IInv, TypeOK, HoldInv, SlotInv, CloseInv, Holding, Start, Release, Goto, mutex
<1>5. HandlerInv'
    BY PartyKinds DEF IInv, TypeOK, HoldInv, HandlerInv, Holding, Start, Release, Goto, mutex
<1> QED
    BY <1>1, <1>2, <1>3, <1>4, <1>5 DEF IInv

\* A commit calls a handler.
LEMMA FireStep ==
    ASSUME IInv, NEW x \in Callers, NEW h \in Handlers, Fire(x, h)
    PROVE  IInv'
<1>1. TypeOK'
    BY PartyKinds DEF IInv, TypeOK, Places, Fire, Goto
<1>2. HoldInv'
    BY PartyKinds DEF IInv, TypeOK, HoldInv, Holding, Fire, Goto
<1>3. SlotInv'
    BY PartyKinds DEF IInv, TypeOK, HoldInv, SlotInv, Holding, Fire, Goto
<1>4. CloseInv'
    BY PartyKinds DEF IInv, TypeOK, HoldInv, SlotInv, CloseInv, Holding, Fire, Goto
<1>5. HandlerInv'
    BY PartyKinds DEF IInv, TypeOK, HoldInv, HandlerInv, Holding, Fire, Goto
<1> QED
    BY <1>1, <1>2, <1>3, <1>4, <1>5 DEF IInv

\* A statement ends and releases.
LEMMA FinishStep ==
    ASSUME IInv, NEW x \in Callers, Finish(x)
    PROVE  IInv'
<1>1. TypeOK'
    BY Zenon, PartyKinds, ReleaseSlots DEF IInv, TypeOK, Places, Finish, Release, Goto, Holding
<1>2. HoldInv'
    BY PartyKinds DEF IInv, TypeOK, HoldInv, Holding, Finish, Release, Goto
<1>3. SlotInv'
    BY PartyKinds, ReleaseSlots DEF Finish, Holding
<1>4. CloseInv'
    BY PartyKinds DEF IInv, TypeOK, HoldInv, SlotInv, CloseInv, Holding, Finish, Release, Goto
<1>5. HandlerInv'
    BY PartyKinds DEF IInv, TypeOK, HoldInv, HandlerInv, Holding, Finish, Release, Goto
<1> QED
    BY <1>1, <1>2, <1>3, <1>4, <1>5 DEF IInv

\* A committed read begins or ends.
LEMMA ReadStep ==
    ASSUME IInv, NEW r \in Reads, BeginRead(r) \/ EndRead(r)
    PROVE  IInv'
<1>1. TypeOK'
    BY Zenon, PartyKinds DEF IInv, TypeOK, Places, BeginRead, EndRead, mutex
<1>2. HoldInv'
    BY PartyKinds DEF IInv, TypeOK, HoldInv, Holding, BeginRead, EndRead, mutex
<1>3. SlotInv'
    BY Zenon, PartyKinds DEF IInv, TypeOK, HoldInv, SlotInv, Holding, BeginRead, EndRead, mutex
<1>4. CloseInv'
    BY PartyKinds DEF IInv, TypeOK, HoldInv, SlotInv, CloseInv, Holding, BeginRead, EndRead, mutex
<1>5. HandlerInv'
    BY PartyKinds DEF IInv, TypeOK, HoldInv, HandlerInv, Holding, BeginRead, EndRead, mutex
<1> QED
    BY <1>1, <1>2, <1>3, <1>4, <1>5 DEF IInv

\* close() refuses new work and interrupts.
LEMMA CloseStep ==
    ASSUME IInv, Close
    PROVE  IInv'
<1>1. TypeOK'
    BY Zenon, PartyKinds DEF IInv, TypeOK, Places, Close, StopWork, Goto, mutex
<1>2. HoldInv'
    BY PartyKinds DEF IInv, TypeOK, HoldInv, Holding, Close, StopWork, Goto, mutex
<1>3. SlotInv'
    BY PartyKinds DEF IInv, TypeOK, HoldInv, SlotInv, Holding, Close, StopWork, Goto, mutex
<1>4. CloseInv'
    BY PartyKinds DEF IInv, TypeOK, HoldInv, SlotInv, CloseInv, Holding, Close, StopWork, Goto, mutex
<1>5. HandlerInv'
    BY PartyKinds DEF IInv, TypeOK, HoldInv, HandlerInv, Holding, Close, StopWork, Goto, mutex
<1> QED
    BY <1>1, <1>2, <1>3, <1>4, <1>5 DEF IInv

\* close() takes the last slot.
LEMMA CloseQueuesStep ==
    ASSUME IInv, CloseQueues
    PROVE  IInv'
<1>1. TypeOK'
    BY PartyKinds DEF IInv, TypeOK, Places, CloseQueues, Enqueue, Goto
<1>2. HoldInv'
    BY PartyKinds DEF IInv, TypeOK, HoldInv, Holding, CloseQueues, Enqueue, Goto
<1>3. SlotInv'
    BY PartyKinds, EnqueueSlots DEF CloseQueues
<1>4. CloseInv'
    BY PartyKinds DEF IInv, TypeOK, HoldInv, SlotInv, CloseInv, Holding, CloseQueues, Enqueue, Goto
<1>5. HandlerInv'
    BY PartyKinds DEF IInv, TypeOK, HoldInv, HandlerInv, Holding, CloseQueues, Enqueue, Goto
<1> QED
    BY <1>1, <1>2, <1>3, <1>4, <1>5 DEF IInv

\* The teardown ends.
LEMMA TearDownStep ==
    ASSUME IInv, TearDown
    PROVE  IInv'
<1>1. TypeOK'
    BY Zenon, PartyKinds, ReleaseSlots DEF IInv, TypeOK, Places, TearDown, Release, Goto, Holding
<1>2. HoldInv'
    BY PartyKinds DEF IInv, TypeOK, HoldInv, Holding, TearDown, Release, Goto
<1>3. SlotInv'
    BY PartyKinds, ReleaseSlots DEF TearDown, Holding
<1>4. CloseInv'
    BY PartyKinds DEF IInv, TypeOK, HoldInv, SlotInv, CloseInv, Holding, TearDown, Release, Goto
<1>5. HandlerInv'
    BY PartyKinds DEF IInv, TypeOK, HoldInv, HandlerInv, Holding, TearDown, Release, Goto
<1> QED
    BY <1>1, <1>2, <1>3, <1>4, <1>5 DEF IInv

\* A handler settles, or awaits close().
LEMMA HandlerStep ==
    ASSUME IInv, NEW h \in Handlers, Settle(h) \/ AwaitClose(h) \/ CloseAwaited(h)
    PROVE  IInv'
<1>1. TypeOK'
    BY Zenon, PartyKinds DEF IInv, TypeOK, Places, Settle, AwaitClose, CloseAwaited, StopWork, Goto, mutex
<1>2. HoldInv'
    BY PartyKinds DEF IInv, TypeOK, HoldInv, Holding, Settle, AwaitClose, CloseAwaited, StopWork, Goto, mutex
<1>3. SlotInv'
  <2>1. \A q \in Parties : pc'[q] \in Holding \cup {"waiting"} => pc'[q] = pc[q]
      BY PartyKinds DEF IInv, TypeOK, Settle, AwaitClose, CloseAwaited, Goto, Holding
  <2>2. UNCHANGED <<resolved, slot>>
      BY DEF Settle, AwaitClose, CloseAwaited, mutex
  <2> QED
      BY <2>1, <2>2 DEF IInv, SlotInv
<1>4. CloseInv'
    BY PartyKinds DEF IInv, TypeOK, HoldInv, SlotInv, CloseInv, Holding, Settle, AwaitClose, CloseAwaited, StopWork, Goto, mutex
<1>5. HandlerInv'
    BY PartyKinds DEF IInv, TypeOK, HoldInv, HandlerInv, Holding, Settle, AwaitClose, CloseAwaited, StopWork, Goto, mutex
<1> QED
    BY <1>1, <1>2, <1>3, <1>4, <1>5 DEF IInv

\* IInv holds in the initial state and every step of the mutex, the handlers, the reads
\* and close() preserves it.
THEOREM Invariance == Spec => []IInv
<1>1. Init => IInv
    BY PartyKinds DEF Init, IInv, TypeOK, HoldInv, SlotInv, CloseInv, HandlerInv, Places, Holding
<1>2. IInv /\ [Next]_vars => IInv'
  <2> SUFFICES ASSUME IInv, [Next]_vars PROVE IInv'
      OBVIOUS
  <2>1. CASE Next
      BY <2>1, TakeStep, ReleasedStep, CallStep, CheckStep, StartStep, FireStep, FinishStep, ReadStep,
         CloseStep, CloseQueuesStep, TearDownStep, HandlerStep DEF Next
  <2>2. CASE UNCHANGED vars
      BY <2>2 DEF vars, mutex, IInv, TypeOK, HoldInv, SlotInv, CloseInv, HandlerInv
  <2> QED
      BY <2>1, <2>2
<1> QED
    BY <1>1, <1>2, PTL DEF Spec

\* One party at a time has the execution mutex, and execMutexDepth says whether one has.
THEOREM OneHolder == Spec => []MutualExclusion
<1>1. IInv => MutualExclusion
  <2> SUFFICES ASSUME IInv PROVE MutualExclusion
      OBVIOUS
  <2>1. \A p \in Parties : pc[p] \in Holding <=> hold = p
      BY DEF IInv, HoldInv
  <2>2. depth > 0 <=> hold \in Parties
      BY PartyKinds DEF IInv, TypeOK, HoldInv
  <2> QED
      BY <2>1, <2>2 DEF MutualExclusion
<1> QED
    BY <1>1, Invariance, PTL

\* tearDown runs, and close() resolves, with no statement executing, queued or still to
\* execute and no committed read open.
THEOREM TearDownIsAlone == Spec => []TearDownAlone
<1>1. IInv => TearDownAlone
  <2> SUFFICES ASSUME IInv, pc[Closer] \in {"running", "awaiting", "done"}
               PROVE  /\ \A x \in Callers : pc[x] \notin Holding \cup {"waiting"}
                      /\ reading = {}
      BY DEF TearDownAlone
  <2>1. reading = {} /\ slot[Closer] = tail
      BY DEF IInv, CloseInv
  <2>2. \A t \in 1..(tail - 1) : t \in resolved
    <3>1. CASE pc[Closer] = "running"
        BY <2>1, <3>1, PartyKinds DEF IInv, SlotInv, Holding
    <3>2. CASE pc[Closer] \in {"awaiting", "done"}
        BY <3>2 DEF IInv, TypeOK, CloseInv, SlotInv
    <3> QED
        BY <3>1, <3>2
  <2>3. ASSUME NEW x \in Callers, pc[x] \in Holding \cup {"waiting"} PROVE FALSE
    <3>1. slot[x] \in 1..tail /\ slot[x] \notin resolved
        BY <2>3, PartyKinds DEF IInv, TypeOK, SlotInv
    <3>2. slot[x] # tail
        BY <2>1, <3>1, PartyKinds DEF IInv, TypeOK, SlotInv
    <3> QED
        BY <2>2, <3>1, <3>2 DEF IInv, TypeOK
  <2> QED
      BY <2>1, <2>3
<1> QED
    BY <1>1, Invariance, PTL

\* The promise of a statement settles after those of all the watch handlers its commits
\* called, whatever the handlers do.
THEOREM HandlersAreAwaited == Spec => []HandlersAwaited
<1>1. IInv => HandlersAwaited
    BY DEF IInv, TypeOK, HandlerInv, HandlersAwaited
<1> QED
    BY <1>1, Invariance, PTL
=============================================================================
