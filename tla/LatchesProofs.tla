--------------------------- MODULE LatchesProofs ---------------------------
(***************************************************************************)
(* That two tasks hold a latch together only across one that gave up, and  *)
(* that a free key is forgotten, for any set of tasks and any bound.       *)
(*                                                                         *)
(* Slots are numbered in the order they are made, and each awaits the one  *)
(* before it, unless that one is resolved.  So a holder's predecessor is   *)
(* resolved.  A resolved slot behind one that is in use was resolved by a  *)
(* task that gave up, or by one that such a task let in: between the two   *)
(* lies a slot given up.                                                   *)
(***************************************************************************)
EXTENDS Latches, TLAPS

Active(t) == state[t] # "idle"

Shapes ==
    /\ made \in 0..MaxSlots
    /\ entry \in {None, made}
    /\ resolved \subseteq 1..made
    /\ state \in [Tasks -> {"idle", "waiting", "holding"}]
    /\ slot \in [Tasks -> 0..made]
    /\ awaited \in [Tasks -> 0..made]
    /\ gaveUp \subseteq 1..made

\* The map knows the last slot exactly as long as it is in use.
EntryInv ==
    /\ entry = None => made \in resolved \cup {0}
    /\ entry # None => \E t \in Tasks : Active(t) /\ slot[t] = entry

\* Slots in use are unresolved and distinct, and await the one before.
SlotInv ==
    /\ \A t \in Tasks : Active(t) =>
          /\ slot[t] \in (1..made) \ resolved
          /\ awaited[t] \in {None, slot[t] - 1}
          /\ awaited[t] = None => slot[t] - 1 \in resolved \cup {0}
          /\ state[t] = "holding" => slot[t] - 1 \in resolved \cup {0}
    /\ \A t, u \in Tasks : Active(t) /\ Active(u) /\ slot[t] = slot[u] => t = u

\* What is resolved behind a slot in use has a slot given up in front of it.
OrderInv ==
    \A t \in Tasks : \A s \in resolved : Active(t) /\ slot[t] < s =>
        \E g \in gaveUp : slot[t] < g /\ g <= s

IInv == Shapes /\ EntryInv /\ SlotInv /\ OrderInv

-----------------------------------------------------------------------------
\* A latch nobody has asked for.
LEMMA InitInv == Init => IInv
BY TasksAssumption DEF Init, IInv, Shapes, EntryInv, SlotInv, OrderInv, Active, None

\* A new slot is the last one, and what it awaits is the one before it.
LEMMA AcquireInv ==
    ASSUME NEW t \in Tasks, IInv, Acquire(t)
    PROVE  IInv'
<1> USE TasksAssumption DEF IInv, Shapes, None
<1>1. Shapes'
  BY DEF Acquire
<1>2. EntryInv'
  BY DEF Acquire, EntryInv, Active
<1>3. SlotInv'
  <2>1. ASSUME NEW u \in Tasks, u # t
        PROVE  Active(u)' = Active(u) /\ slot'[u] = slot[u] /\ awaited'[u] = awaited[u]
                 /\ state'[u] = state[u]
    BY <2>1 DEF Acquire, Active
  <2>2. /\ slot'[t] = made + 1 /\ awaited'[t] = entry /\ state'[t] = "waiting"
        /\ resolved' = resolved /\ made' = made + 1
    BY DEF Acquire
  <2>3. \A u \in Tasks : Active(u) => slot[u] <= made
    BY DEF SlotInv
  <2> QED
    BY <2>1, <2>2, <2>3 DEF SlotInv, EntryInv, Active
<1>4. OrderInv'
  BY DEF Acquire, OrderInv, Active
<1> QED
  BY <1>1, <1>2, <1>3, <1>4

\* Whoever goes on finds its predecessor resolved.
LEMMA AcquiredInv ==
    ASSUME NEW t \in Tasks, IInv, Acquired(t)
    PROVE  IInv'
<1> USE TasksAssumption DEF IInv, Shapes, None
<1>1. \A u \in Tasks : Active(u)' <=> Active(u)
  BY DEF Acquired, Active
<1>2. Shapes'
  BY DEF Acquired
<1>3. EntryInv'
  BY <1>1 DEF Acquired, EntryInv
<1>4. SlotInv'
  BY <1>1 DEF Acquired, SlotInv, Active
<1>5. OrderInv'
  BY <1>1 DEF Acquired, OrderInv
<1> QED
  BY <1>2, <1>3, <1>4, <1>5

\* What the end of a use, by release or by giving up, has to show: that no slot in use
\* in front of it lacks a slot given up in between.
LEMMA EndInv ==
    ASSUME NEW t \in Tasks, IInv, Active(t), Release(t),
           state' = [state EXCEPT ![t] = "idle"],
           gaveUp' \in {gaveUp, gaveUp \cup {slot[t]}},
           UNCHANGED <<made, slot, awaited>>,
           \A u \in Tasks : Active(u) /\ slot[u] < slot[t] =>
               \E g \in gaveUp' : slot[u] < g /\ g <= slot[t]
    PROVE  IInv'
<1> USE TasksAssumption DEF IInv, Shapes, None
<1>1. slot[t] \in (1..made) \ resolved /\ resolved' = resolved \cup {slot[t]}
  BY DEF SlotInv, Release
<1>2. \A u \in Tasks : Active(u)' <=> Active(u) /\ u # t
  BY DEF Active
<1>3. Shapes'
  BY Zenon, <1>1 DEF Release
<1>4. EntryInv'
  BY <1>1, <1>2 DEF Release, EntryInv
<1>5. SlotInv'
  BY <1>1, <1>2 DEF SlotInv, Active
<1>6. OrderInv'
  BY <1>1, <1>2 DEF OrderInv
<1> QED
  BY <1>3, <1>4, <1>5, <1>6

\* A holder's predecessor is resolved, so a slot in use in front of that has one given
\* up behind it already.
LEMMA DoneInv ==
    ASSUME NEW t \in Tasks, IInv, Done(t)
    PROVE  IInv'
<1>1. ASSUME NEW u \in Tasks, Active(u), slot[u] < slot[t]
      PROVE  \E g \in gaveUp : slot[u] < g /\ g <= slot[t]
  <2>1. /\ slot[t] \in 1..made /\ slot[u] \in (1..made) \ resolved
        /\ slot[t] - 1 \in resolved \cup {0} /\ made \in Nat
    BY <1>1, TasksAssumption DEF Done, IInv, SlotInv, Shapes, Active
  <2>2. slot[u] < slot[t] - 1 /\ slot[t] - 1 \in resolved
    BY <1>1, <2>1
  <2>3. PICK g \in gaveUp : slot[u] < g /\ g <= slot[t] - 1
    BY <1>1, <2>2 DEF IInv, OrderInv
  <2> QED
    BY <2>1, <2>3, TasksAssumption DEF IInv, Shapes
<1> QED
  BY Zenon, <1>1, EndInv DEF Done, Active

\* A task that gives up is itself what lies in between.
LEMMA TimeOutInv ==
    ASSUME NEW t \in Tasks, IInv, TimeOut(t)
    PROVE  IInv'
<1>1. slot[t] \in gaveUp' /\ slot[t] \in Nat
  BY TasksAssumption DEF TimeOut, IInv, Shapes
<1>2. \A u \in Tasks : Active(u) /\ slot[u] < slot[t] =>
          \E g \in gaveUp' : slot[u] < g /\ g <= slot[t]
  BY <1>1
<1>3. /\ Active(t) /\ Release(t) /\ state' = [state EXCEPT ![t] = "idle"]
      /\ gaveUp' \in {gaveUp, gaveUp \cup {slot[t]}} /\ UNCHANGED <<made, slot, awaited>>
  BY DEF TimeOut, Active
<1> QED
  BY Zenon, <1>2, <1>3, EndInv

\* The inductive invariant holds of every latch.
THEOREM Invariance == Spec => []IInv
<1>1. Init => IInv
  BY InitInv
<1>2. IInv /\ [Next]_vars => IInv'
  <2>1. ASSUME IInv, Next PROVE IInv'
    BY <2>1, AcquireInv, AcquiredInv, DoneInv, TimeOutInv DEF Next
  <2>2. ASSUME IInv, UNCHANGED vars PROVE IInv'
    BY <2>2 DEF vars, IInv, Shapes, EntryInv, SlotInv, OrderInv, Active
  <2> QED
    BY <2>1, <2>2
<1> QED
  BY <1>1, <1>2, PTL DEF Spec

\* Two tasks hold a latch together only if one that queued up between them gave up
\* (acquire's time-out branch): otherwise the latch is a mutex.
THEOREM OverlapOnlyByTimeOut == Spec => []OverlapNeedsTimeOut
<1>1. IInv => OverlapNeedsTimeOut
  <2> SUFFICES ASSUME IInv, NEW t \in Tasks, NEW u \in Tasks,
                      state[t] = "holding", state[u] = "holding", slot[t] < slot[u]
               PROVE  \E s \in gaveUp : slot[t] < s /\ s < slot[u]
    BY DEF OverlapNeedsTimeOut
  <2>1. /\ slot[t] \in (1..made) \ resolved /\ slot[u] \in 1..made /\ made \in Nat
        /\ slot[u] - 1 \in resolved \cup {0}
    BY TasksAssumption DEF IInv, SlotInv, Shapes, Active
  <2>2. slot[t] < slot[u] - 1 /\ slot[u] - 1 \in resolved
    BY <2>1
  <2>3. PICK g \in gaveUp : slot[t] < g /\ g <= slot[u] - 1
    BY <2>2 DEF IInv, OrderInv, Active
  <2> QED
    BY <2>1, <2>3, TasksAssumption DEF IInv, Shapes
<1> QED
  BY <1>1, Invariance, PTL

\* The variables keep their shapes, and lockQueues has no entry for a key nobody holds or
\* awaits: release deletes the entry of the last in line.
THEOREM FreeKeyForgotten == Spec => []TypeOK
<1>1. IInv => TypeOK
  BY TasksAssumption DEF IInv, Shapes, EntryInv, Active, TypeOK, None
<1> QED
  BY <1>1, Invariance, PTL
=============================================================================
