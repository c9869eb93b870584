------------------------------ MODULE Latches ------------------------------
(***************************************************************************)
(* util/latches.ts for one key.  lockQueues maps the key to the promise of *)
(* the last acquirer.  An acquirer replaces it by its own (its slot) and   *)
(* awaits the one it found.  With a time-out it may give up, and then      *)
(* releases its own slot, so that the acquirers behind it go on.           *)
(***************************************************************************)
EXTENDS Naturals, FiniteSets

CONSTANTS
    Tasks,     \* callers of acquire
    Timed,     \* those that pass timeoutMs
    MaxSlots   \* bound: acquisitions over a behaviour

ASSUME TasksAssumption == Timed \subseteq Tasks /\ MaxSlots \in Nat

VARIABLES
    entry,     \* lockQueues.get(key): a slot, or None
    made,      \* slots made so far
    resolved,  \* slots whose promise is resolved
    state,     \* per task: "idle", "waiting", "holding"
    slot,      \* per task: newTail of its acquisition
    awaited,   \* per task: currentTail of its acquisition
    gaveUp     \* what the properties look at: the slots whose acquirer timed out

vars == <<entry, made, resolved, state, slot, awaited, gaveUp>>

None == 0

\* The variables keep their shapes, and the map forgets a key as soon as nobody holds or
\* awaits its latch, so it does not grow.
TypeOK ==
    /\ made \in 0..MaxSlots
    /\ entry \in 0..made /\ resolved \subseteq 1..made
    /\ state \in [Tasks -> {"idle", "waiting", "holding"}]
    /\ slot \in [Tasks -> 0..made] /\ awaited \in [Tasks -> 0..made]
    /\ gaveUp \subseteq 1..made
    /\ (\A t \in Tasks : state[t] = "idle") => entry = None

Init ==
    /\ entry = None /\ made = 0 /\ resolved = {}
    /\ state = [t \in Tasks |-> "idle"]
    /\ slot = [t \in Tasks |-> None] /\ awaited = [t \in Tasks |-> None]
    /\ gaveUp = {}

\* acquire, up to its await.
Acquire(t) ==
    /\ state[t] = "idle" /\ made < MaxSlots
    /\ made' = made + 1 /\ entry' = made + 1
    /\ state' = [state EXCEPT ![t] = "waiting"]
    /\ slot' = [slot EXCEPT ![t] = made + 1]
    /\ awaited' = [awaited EXCEPT ![t] = entry]
    /\ UNCHANGED <<resolved, gaveUp>>

\* The slot it found is resolved, or there was none.
Acquired(t) ==
    /\ state[t] = "waiting"
    /\ awaited[t] \in resolved \cup {None}
    /\ state' = [state EXCEPT ![t] = "holding"]
    /\ UNCHANGED <<entry, made, resolved, slot, awaited, gaveUp>>

ReleaseAlwaysDeletes(t) ==
    /\ resolved' = resolved \cup {slot[t]}
    /\ entry' = None

ReleaseOnlyResolves(t) ==
    /\ resolved' = resolved \cup {slot[t]}
    /\ UNCHANGED entry

\* release: the key is forgotten if nobody queued up behind.
Release(t) ==
    /\ resolved' = resolved \cup {slot[t]}
    /\ entry' = IF entry = slot[t] THEN None ELSE entry

Done(t) ==
    /\ state[t] = "holding"
    /\ Release(t)
    /\ state' = [state EXCEPT ![t] = "idle"]
    /\ UNCHANGED <<made, slot, awaited, gaveUp>>

TimeOutWedges(t) ==
    /\ state[t] = "waiting" /\ t \in Timed
    /\ awaited[t] \notin resolved \cup {None}
    /\ state' = [state EXCEPT ![t] = "idle"]
    /\ gaveUp' = gaveUp \cup {slot[t]}
    /\ UNCHANGED <<entry, made, resolved, slot, awaited>>

\* The timer fires before the awaited slot is resolved.
TimeOut(t) ==
    /\ state[t] = "waiting" /\ t \in Timed
    /\ awaited[t] \notin resolved \cup {None}
    /\ Release(t)
    /\ state' = [state EXCEPT ![t] = "idle"]
    /\ gaveUp' = gaveUp \cup {slot[t]}
    /\ UNCHANGED <<made, slot, awaited>>

Next == \E t \in Tasks : Acquire(t) \/ Acquired(t) \/ Done(t) \/ TimeOut(t)

\* A continuation runs once its promise is resolved, and holders release.
Fairness == \A t \in Tasks : WF_vars(Acquired(t)) /\ WF_vars(Done(t))

Spec == Init /\ [][Next]_vars

FairSpec == Spec /\ Fairness

-----------------------------------------------------------------------------
\* The latch is a mutex as long as nobody gives up: two tasks hold it together only if
\* a task that queued up between them timed out.  Time-outs elsewhere in the queue, or of
\* waiters that were never behind a holder, let nobody in.
OverlapNeedsTimeOut ==
    \A t, u \in Tasks : state[t] = "holding" /\ state[u] = "holding" /\ slot[t] < slot[u] =>
        \E s \in gaveUp : slot[t] < s /\ s < slot[u]

\* If holders release, a waiter gets the latch or gives up: a waiter that gave up does
\* not wedge the queue behind it.
NeverWedged ==
    \A t \in Tasks : state[t] = "waiting" ~> state[t] # "waiting"
=============================================================================
