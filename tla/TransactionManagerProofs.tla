---------------------- MODULE TransactionManagerProofs ----------------------
(***************************************************************************)
(* The safety properties of TransactionManager, for every set of           *)
(* connections, every bound on savepoints and every set of calls that may  *)
(* be rejected, of a driver that waits for the registrations it starts     *)
(* (Concurrent = FALSE).                                                   *)
(*                                                                         *)
(* IInv says, phase by phase, where the driver, the registrations and each *)
(* connection stand.  One lemma per action shows that it keeps IInv: first *)
(* the closing half (commit, rollback, the end of a transaction), then     *)
(* broadcasts, begin, registration, joining and early commit, then the     *)
(* settling of a call.                                                     *)
(***************************************************************************)
EXTENDS TransactionManager, TLAPS

-----------------------------------------------------------------------------
(* The operators all the actions share, and the closing half. *)

\* The fields of a record of the contract.
LEMMA RecFields ==
    \A state, depth, calls : /\ Rec(state, depth, calls).state = state
                            /\ Rec(state, depth, calls).depth = depth
                            /\ Rec(state, depth, calls).inFlight = calls
  BY DEF Rec

\* The fields of an idle one.
LEMMA IdleFields ==
    Contract!IdleRecord.state = "idle" /\ Contract!IdleRecord.depth = 0 /\ Contract!IdleRecord.inFlight = {}
  BY DEF Contract!IdleRecord

\* The fields of a call.
LEMMA CallFields ==
    \A by, method, d : NewCall(by, method, d).by = by /\ NewCall(by, method, d).method = method
  BY DEF NewCall

\* What makes a record one of the contract.
LEMMA RecType ==
    ASSUME NEW state \in {"idle", "open", "commit-failed"}, NEW depth \in 0..MaxDepth
    PROVE  Rec(state, depth, {}) \in Contract!Record
  BY DEF Rec, Contract!Record

\* An idle one is one.
LEMMA IdleType == Contract!IdleRecord \in Contract!Record
<1>1. 0 \in 0..MaxDepth
  BY ConstantsAssumption
<1> QED BY <1>1 DEF Contract!IdleRecord, Contract!Record

\* A call changes the calls of one connection, and keeps the type of all.
LEMMA CalledType ==
    ASSUME TypeOK, NEW c \in Conns, NEW by \in Contract!Callers, NEW method \in Contract!Methods, NEW d \in 0..MaxDepth
    PROVE  /\ Called(c, by, method, d) \in [Conns -> Contract!Record]
           /\ \A x \in Conns : x # c => Called(c, by, method, d)[x] = conn[x]
           /\ Called(c, by, method, d)[c] = Rec(conn[c].state, conn[c].depth, conn[c].inFlight \cup {NewCall(by, method, d)})
  BY DEF TypeOK, Called, NewCall, Rec, Contract!AfterIssue, Contract!Record, Contract!Call

\* rollbackOpenConnections calls rollback on every registered connection of `open'.
LEMMA RollbackType ==
    ASSUME TypeOK, NEW open \in SUBSET Conns, RollbackOpenConnections(open)
    PROVE  /\ conn' \in [Conns -> Contract!Record]
           /\ \A c \in activeConnections \cap open : 
                conn'[c] = Rec(conn[c].state, conn[c].depth, conn[c].inFlight \cup {NewCall("driver", "rollback", 0)})
           /\ \A c \in Conns \ (activeConnections \cap open) : conn'[c] = conn[c]
<1>0. NewCall("driver", "rollback", 0) \in Contract!Call
  BY ConstantsAssumption DEF NewCall, Contract!Call, Contract!Callers, Contract!Methods
<1>1. \A c \in Conns : Contract!AfterIssue(conn[c], NewCall("driver", "rollback", 0)) 
        = Rec(conn[c].state, conn[c].depth, conn[c].inFlight \cup {NewCall("driver", "rollback", 0)})
  BY DEF TypeOK, Contract!AfterIssue, Contract!Record, Rec
<1>2. \A c \in Conns : Contract!AfterIssue(conn[c], NewCall("driver", "rollback", 0)) \in Contract!Record
  BY <1>0 DEF TypeOK, Contract!AfterIssue, Contract!Record
<1>3. activeConnections \subseteq Conns
  BY DEF TypeOK
<1> QED BY <1>1, <1>2, <1>3, Zenon DEF RollbackOpenConnections, TypeOK

\* The start of joinConnection calls begin on c and changes no other connection.
LEMMA StartJoinType ==
    ASSUME TypeOK, NEW c \in Conns, StartJoin(c)
    PROVE  /\ conn' \in [Conns -> Contract!Record] /\ join' \in [Conns -> JoinState]
           /\ \A x \in Conns : x # c => conn'[x] = conn[x] /\ join'[x] = join[x]
           /\ conn'[c] = Rec(conn[c].state, conn[c].depth, conn[c].inFlight \cup {NewCall("join", "begin", 0)})
           /\ join'[c].at = "begin"
<1>1. conn' = Called(c, "join", "begin", 0)
  BY DEF StartJoin
<1>2. [NotJoining EXCEPT !.at = "begin"] = [at |-> "begin", next |-> 0, limit |-> 0]
  BY DEF NotJoining
<1>3. [at |-> "begin", next |-> 0, limit |-> 0] \in JoinState
  BY ConstantsAssumption DEF JoinState
<1>4. join' \in [Conns -> JoinState] /\ join'[c].at = "begin" /\ \A x \in Conns : x # c => join'[x] = join[x]
  BY <1>2, <1>3 DEF StartJoin, TypeOK
<1>5. "join" \in Contract!Callers /\ "begin" \in Contract!Methods /\ 0 \in 0..MaxDepth
  BY ConstantsAssumption DEF Contract!Callers, Contract!Methods
<1> QED BY <1>1, <1>4, <1>5, CalledType

\* replaySavepoints makes the next createSavepoint call, or ends the join.
LEMMA ReplayType ==
    ASSUME TypeOK, NEW c \in Conns, NEW next \in 0..MaxDepth, NEW limit \in 0..MaxDepth, ReplaySavepoints(c, next, limit)
    PROVE  /\ conn' \in [Conns -> Contract!Record] /\ join' \in [Conns -> JoinState]
           /\ \A x \in Conns : x # c => conn'[x] = conn[x] /\ join'[x] = join[x]
           /\ next < limit => 
                /\ conn'[c] = Rec(conn[c].state, conn[c].depth, conn[c].inFlight \cup {NewCall("join", "createSavepoint", next)})
                /\ join'[c] = [at |-> "replay", next |-> next + 1, limit |-> limit]
           /\ ~(next < limit) => conn' = conn /\ join'[c].at = "none"
<1>1. CASE next < limit
  <2>1. conn' = Called(c, "join", "createSavepoint", next)
    BY <1>1 DEF ReplaySavepoints
  <2>2. [at |-> "replay", next |-> next + 1, limit |-> limit] \in JoinState
    BY <1>1, ConstantsAssumption DEF JoinState
  <2>3. "join" \in Contract!Callers /\ "createSavepoint" \in Contract!Methods
    BY DEF Contract!Callers, Contract!Methods, Contract!SavepointMethods
  <2>4. join' = [join EXCEPT ![c] = [at |-> "replay", next |-> next + 1, limit |-> limit]]
    BY <1>1 DEF ReplaySavepoints
  <2>5. /\ join' \in [Conns -> JoinState]
        /\ join'[c] = [at |-> "replay", next |-> next + 1, limit |-> limit]
        /\ \A x \in Conns : x # c => join'[x] = join[x]
    BY <2>2, <2>4 DEF TypeOK
  <2>6. /\ conn' \in [Conns -> Contract!Record]
        /\ \A x \in Conns : x # c => conn'[x] = conn[x]
        /\ conn'[c] = Rec(conn[c].state, conn[c].depth, conn[c].inFlight \cup {NewCall("join", "createSavepoint", next)})
    BY <2>1, <2>3, CalledType
  <2> QED BY <1>1, <2>5, <2>6
<1>2. CASE ~(next < limit)
  <2>1. NotJoining \in JoinState /\ NotJoining.at = "none"
    BY ConstantsAssumption DEF JoinState, NotJoining
  <2> QED BY <1>2, <2>1 DEF ReplaySavepoints, TypeOK
<1> QED BY <1>1, <1>2

\* What ConnInv(x) depends on, and therefore what leaves it alone.
LEMMA ConnFrame ==
    ASSUME NEW x \in Conns, ConnInv(x),
           conn'[x] = conn[x], join'[x] = join[x],
           x \in activeConnections' <=> x \in activeConnections,
           x \in known' <=> x \in known,
           x \in openConnections' <=> x \in openConnections,
           pc' = pc, level' = level, savepointDepth' = savepointDepth,
           x = current' <=> x = current,
           x \in todo' <=> x \in todo,
           <<"join", x>> \in rejected' <=> <<"join", x>> \in rejected,
           <<"driver", x>> \in rejected' <=> <<"driver", x>> \in rejected,
           x \in dirty' => x \in dirty
    PROVE  ConnInv(x)'
  BY DEF ConnInv, JoiningOK, SettledOK, UntoldDepth, Rec, NewCall, Contract!IdleRecord, Sav, Contract!SavepointMethods

\* A rollback that finds every connection able to take it.
LEMMA RollbackStarts ==
    ASSUME TypeOK, inTransaction, NEW open \in SUBSET known, RollbackOpenConnections(open),
           UNCHANGED <<activeConnections, known, dirty>>,
           join' \in [Conns -> JoinState], \A x \in Conns : join'[x].at = "none", rejected' = {},
           \A x \in Conns :
              /\ x \in activeConnections \cap open =>
                    conn[x].inFlight = {} /\ conn[x].state # "idle"
              /\ x \in activeConnections \ open => conn[x] = Contract!IdleRecord
              /\ x \notin activeConnections => conn[x].inFlight = {}
              /\ x \notin known => conn[x] = Contract!IdleRecord
              /\ x \in dirty => x \in activeConnections /\ conn[x].state # "idle"
    PROVE  IInv'
<1>1. /\ conn' \in [Conns -> Contract!Record]
      /\ \A k \in activeConnections \cap open :
            conn'[k] = Rec(conn[k].state, conn[k].depth, conn[k].inFlight \cup {NewCall("driver", "rollback", 0)})
      /\ \A k \in Conns \ (activeConnections \cap open) : conn'[k] = conn[k]
  <2>1. open \in SUBSET Conns
    BY DEF TypeOK
  <2> QED BY <2>1, RollbackType, Zenon
<1>2. PhaseInv'
  BY DEF RollbackOpenConnections, PhaseInv
<1>3. DriverInv'
  <2>1. current' \notin todo'
    BY ConstantsAssumption DEF RollbackOpenConnections, TypeOK
  <2> QED BY <2>1 DEF RollbackOpenConnections, DriverInv, Sav, Contract!SavepointMethods, TypeOK
<1>4. MemberInv'
  BY DEF RollbackOpenConnections, MemberInv, Sav, Contract!SavepointMethods
<1>5. TypeOK'
  BY <1>1 DEF RollbackOpenConnections, TypeOK, PC
<1>6. ASSUME NEW x \in Conns PROVE ConnInv(x)'
  <2>0. pc' = "rollback" /\ todo' = activeConnections \cap open /\ openConnections' = open \ (activeConnections \cap open)
    BY DEF RollbackOpenConnections
  <2>1. CASE x \in activeConnections \cap open
    <3>1. conn'[x].state # "idle" /\ conn'[x].inFlight = {NewCall("driver", "rollback", 0)}
      <4>1. conn[x].inFlight = {} /\ conn[x].state # "idle"
        BY <2>1
      <4>2. conn'[x] = Rec(conn[x].state, conn[x].depth, conn[x].inFlight \cup {NewCall("driver", "rollback", 0)})
        BY <1>1, <2>1, Zenon
      <4> QED BY <4>1, <4>2 DEF Rec
    <3>2. SettledOK(x)'
      BY <2>0, <2>1, <3>1 DEF SettledOK, Rec, Sav, Contract!SavepointMethods
    <3> QED BY <2>0, <2>1, <3>1, <3>2 DEF ConnInv, Rec, TypeOK
  <2>2. CASE x \notin activeConnections \cap open
    <3>1. conn'[x] = conn[x]
      BY <1>1, <2>2
    <3>2. x \in activeConnections => SettledOK(x)'
      BY <2>0, <2>2, <3>1 DEF SettledOK, Sav, Contract!SavepointMethods
    <3> QED BY <2>0, <2>2, <3>1, <3>2 DEF ConnInv, TypeOK
  <2> QED BY <2>1, <2>2
<1> QED BY <1>2, <1>3, <1>4, <1>5, <1>6 DEF IInv

\* The end of a transaction that finds every connection idle.
LEMMA TransactionEnds ==
    ASSUME TypeOK, ResetToAutocommit, UNCHANGED <<registry, level, join, conn, rejected, dirty>>,
           \A x \in Conns : join[x].at = "none", rejected = {}, dirty = {},
           \A x \in activeConnections : conn[x] = Contract!IdleRecord,
           \A x \in Conns \ activeConnections : conn[x].inFlight = {},
           \A x \in Conns \ known : conn[x] = Contract!IdleRecord
    PROVE  IInv'
<1> USE DEF registry, Sav, Contract!SavepointMethods
<1>1. PhaseInv'
  BY DEF ResetToAutocommit, PhaseInv
<1>2. DriverInv'
  BY DEF ResetToAutocommit, DriverInv
<1>3. MemberInv'
  BY DEF ResetToAutocommit, MemberInv
<1>4. TypeOK'
  <2>1. 0 \in 0..MaxDepth
    BY ConstantsAssumption
  <2> QED BY <2>1, Zenon DEF ResetToAutocommit, TypeOK, PC
<1>5. ASSUME NEW x \in Conns PROVE ConnInv(x)'
  <2>1. x \in activeConnections => SettledOK(x)'
    BY DEF ResetToAutocommit, SettledOK
  <2> QED BY <2>1 DEF ConnInv
<1> QED BY <1>1, <1>2, <1>3, <1>4, <1>5 DEF IInv

\* A set of rejections that names no connection is empty.
LEMMA NoRejection ==
    ASSUME NEW r \in SUBSET (Contract!Callers \X Conns),
           \A x \in Conns : <<"join", x>> \notin r /\ <<"driver", x>> \notin r
    PROVE  r = {}
<1> SUFFICES ASSUME NEW p \in r PROVE FALSE
  OBVIOUS
<1>1. PICK b \in Contract!Callers, x \in Conns : p = <<b, x>>
  OBVIOUS
<1>2. b = "join" \/ b = "driver"
  BY DEF Contract!Callers
<1> QED BY <1>1, <1>2, Zenon

\* Where nobody is joining and nobody is awaited, every registered connection rests.
LEMMA Resting ==
    ASSUME IInv, pc \in {"none", "body", "checks"}, \A x \in Conns : join[x].at = "none"
    PROVE  /\ rejected = {}
           /\ \A x \in activeConnections :
                conn[x] = IF x \in openConnections THEN Rec("open", savepointDepth, {}) ELSE Contract!IdleRecord
           /\ \A x \in Conns \ activeConnections : conn[x].inFlight = {}
           /\ \A x \in Conns \ known : conn[x] = Contract!IdleRecord
           /\ \A x \in dirty : x \in activeConnections /\ conn[x].state # "idle"
<1>1. \A x \in Conns : <<"join", x>> \notin rejected /\ <<"driver", x>> \notin rejected
  BY Zenon DEF IInv, ConnInv
<1>2. rejected = {}
  BY <1>1, NoRejection DEF IInv, TypeOK
<1>3. ASSUME NEW x \in activeConnections
      PROVE  conn[x] = IF x \in openConnections THEN Rec("open", savepointDepth, {}) ELSE Contract!IdleRecord
  <2>1. SettledOK(x)
    BY Zenon DEF IInv, TypeOK, ConnInv
  <2> QED BY <2>1 DEF SettledOK, Sav, Contract!SavepointMethods
<1> QED BY <1>2, <1>3 DEF IInv, ConnInv, TypeOK

\* While a transaction closes no registration joins it.
LEMMA NoJoinWhileClosing ==
    ASSUME IInv, pc \in {"none", "checks", "commit", "rollback"}
    PROVE  \A x \in Conns : join[x].at = "none"
  BY Zenon DEF IInv, ConnInv, JoiningOK, Sav, Contract!SavepointMethods

\* A driver that waits for registrations goes on only when none is unfinished.
LEMMA ProceedIsQuiet ==
    ASSUME ~Concurrent, CanProceed
    PROVE  \A x \in Conns : join[x].at = "none"
  BY ConstantsAssumption DEF CanProceed, QuietBut

\* RollbackTransaction keeps the invariant.
LEMMA RollbackTransactionStep ==
    ASSUME IInv, ~Concurrent, RollbackTransaction
    PROVE  IInv'
<1>1. pc = "body" /\ \A x \in Conns : join[x].at = "none"
  BY ProceedIsQuiet DEF RollbackTransaction
<1>2. inTransaction /\ TypeOK /\ openConnections \in SUBSET known
  BY <1>1 DEF IInv, PhaseInv, MemberInv
<1> QED BY <1>1, <1>2, Resting, RollbackStarts DEF RollbackTransaction, registry, Rec, TypeOK

\* ChecksRefused keeps the invariant.
LEMMA ChecksRefusedStep ==
    ASSUME IInv, ChecksRefused
    PROVE  IInv'
<1>1. pc = "checks" /\ \A x \in Conns : join[x].at = "none"
  BY NoJoinWhileClosing DEF ChecksRefused
<1>2. inTransaction /\ TypeOK /\ openConnections \in SUBSET known
  BY <1>1 DEF IInv, PhaseInv, MemberInv
<1> QED BY <1>1, <1>2, Resting, RollbackStarts DEF ChecksRefused, registry, Rec, TypeOK

\* RollbackDone keeps the invariant.
LEMMA RollbackDoneStep ==
    ASSUME IInv, RollbackDone
    PROVE  IInv'
<1>1. pc = "rollback" /\ \A x \in Conns : join[x].at = "none"
  BY NoJoinWhileClosing DEF RollbackDone
<1>2. rejected = {}
  <2>1. \A x \in Conns : <<"join", x>> \notin rejected /\ <<"driver", x>> \notin rejected
    BY <1>1, Zenon DEF IInv, ConnInv
  <2> QED BY <2>1, NoRejection DEF IInv, TypeOK
<1>3. ASSUME NEW x \in activeConnections PROVE conn[x] = Contract!IdleRecord
  <2>1. SettledOK(x) /\ x \in Conns
    BY <1>1, Zenon DEF IInv, TypeOK, ConnInv
  <2>2. CASE x \in todo
    <3>1. NewCall("driver", "rollback", 0).by = "driver"
      BY DEF NewCall
    <3>2. conn[x].inFlight # {NewCall("driver", "rollback", 0)}
      BY <2>2, <3>1 DEF RollbackDone, Answered
    <3> QED BY <1>1, <2>1, <2>2, <3>2 DEF SettledOK, Sav, Contract!SavepointMethods
  <2>3. CASE x \notin todo
    BY <1>1, <2>1, <2>3 DEF SettledOK, Sav, Contract!SavepointMethods, IInv, MemberInv
  <2> QED BY <2>2, <2>3
<1>4. dirty = {}
  <2>1. \A x \in dirty : x \in activeConnections /\ conn[x].state # "idle"
    BY Zenon DEF IInv, ConnInv, TypeOK
  <2> QED BY <1>3, <2>1 DEF Contract!IdleRecord
<1>5. \A x \in Conns : (x \notin activeConnections => conn[x].inFlight = {})
                    /\ (x \notin known => conn[x] = Contract!IdleRecord)
  BY Zenon DEF IInv, ConnInv
<1> QED BY <1>1, <1>2, <1>3, <1>4, <1>5, TransactionEnds DEF RollbackDone, IInv

\* The next commit of the loop, on a connection that is open and quiet.
LEMMA CommitIssued ==
    ASSUME IInv, NEW open \in SUBSET known, NEW rest \in SUBSET activeConnections, CommitNext(open, rest),
           rest = activeConnections \cap open, pc \in {"checks", "commit"},
           UNCHANGED <<registry, join, rejected, dirty>>, rejected = {},
           \A x \in activeConnections :
                conn[x] = IF x \in open THEN Rec("open", savepointDepth, {}) ELSE Contract!IdleRecord
    PROVE  IInv'
<1>1. \A x \in Conns : join[x].at = "none"
  BY NoJoinWhileClosing
<1>2. \A x \in Conns : /\ x \notin activeConnections => conn[x].inFlight = {}
                       /\ x \notin known => conn[x] = Contract!IdleRecord
                       /\ x \in dirty => x \in activeConnections /\ conn[x].state # "idle"
  BY DEF IInv, ConnInv
<1>3. CASE rest = {} /\ ResetToAutocommit /\ UNCHANGED <<conn, level>>
  <2>1. \A x \in activeConnections : conn[x] = Contract!IdleRecord
    BY <1>3
  <2>2. dirty = {}
    BY <1>2, <2>1 DEF Contract!IdleRecord, IInv, TypeOK
  <2> QED BY <1>1, <1>2, <1>3, <2>1, <2>2, TransactionEnds DEF IInv
<1>4. ASSUME NEW c \in rest,
             conn' = Called(c, "driver", "commit", 0), openConnections' = open,
             pc' = "commit", todo' = rest \ {c}, current' = c,
             UNCHANGED <<inTransaction, closingTransaction, savepointDepth, level>>
      PROVE  IInv'
  <2> USE DEF registry, Sav, Contract!SavepointMethods
  <2>0. TypeOK /\ c \in Conns /\ c \in activeConnections /\ c \in open
    BY DEF IInv, TypeOK
  <2>1. /\ conn' \in [Conns -> Contract!Record]
        /\ \A x \in Conns : x # c => conn'[x] = conn[x]
        /\ conn'[c] = Rec(conn[c].state, conn[c].depth, conn[c].inFlight \cup {NewCall("driver", "commit", 0)})
    <3>1. "driver" \in Contract!Callers /\ "commit" \in Contract!Methods /\ 0 \in 0..MaxDepth
      BY ConstantsAssumption DEF Contract!Callers, Contract!Methods
    <3> QED BY <1>4, <2>0, <3>1, CalledType
  <2>2. conn'[c] = Rec("open", savepointDepth, {NewCall("driver", "commit", 0)})
    <3>1. conn[c] = Rec("open", savepointDepth, {})
      BY <2>0
    <3> QED BY <2>1, <3>1 DEF Rec
  <2>3. PhaseInv'
    BY <1>4 DEF IInv, PhaseInv
  <2>4. DriverInv'
    BY <1>1, <1>4, <2>0 DEF DriverInv, TypeOK
  <2>5. MemberInv'
    BY <1>4 DEF MemberInv
  <2>6. TypeOK'
    BY <1>4, <2>0, <2>1 DEF TypeOK, PC
  <2>7. ASSUME NEW x \in Conns PROVE ConnInv(x)'
    <3>1. CASE x = c
      <4>1. SettledOK(c)'
        BY <1>4, <2>2 DEF SettledOK
      <4> QED BY <1>1, <1>4, <2>0, <2>2, <3>1, <4>1 DEF ConnInv, Rec, TypeOK
    <3>2. CASE x # c
      <4>1. conn'[x] = conn[x]
        BY <2>1, <3>2
      <4>2. x \in activeConnections => SettledOK(x)'
        BY <1>4, <3>2, <4>1 DEF SettledOK
      <4> QED BY <1>1, <1>2, <1>4, <3>2, <4>1, <4>2 DEF ConnInv
    <3> QED BY <3>1, <3>2
  <2> QED BY <2>3, <2>4, <2>5, <2>6, <2>7 DEF IInv
<1> QED BY <1>3, <1>4 DEF CommitNext

\* ChecksPassed keeps the invariant.
LEMMA ChecksPassedStep ==
    ASSUME IInv, ChecksPassed
    PROVE  IInv'
<1>1. pc = "checks" /\ \A x \in Conns : join[x].at = "none"
  BY NoJoinWhileClosing DEF ChecksPassed
<1>2. openConnections \in SUBSET known
  BY DEF IInv, MemberInv
<1> QED BY <1>1, <1>2, Resting, CommitIssued DEF ChecksPassed

\* ConnectionCommitted keeps the invariant.
LEMMA ConnectionCommittedStep ==
    ASSUME IInv, ConnectionCommitted
    PROVE  IInv'
<1>1. pc = "commit" /\ \A x \in Conns : join[x].at = "none"
  BY NoJoinWhileClosing DEF ConnectionCommitted
<1>2. current \in activeConnections /\ current \notin todo /\ todo \subseteq activeConnections
      /\ activeConnections \cap openConnections = todo \cup {current} /\ openConnections \subseteq known
  BY <1>1 DEF IInv, DriverInv, MemberInv
<1>3. rejected = {}
  <2>1. \A x \in Conns : <<"join", x>> \notin rejected /\ <<"driver", x>> \notin rejected
    BY <1>1, Zenon DEF IInv, ConnInv, ConnectionCommitted
  <2> QED BY <2>1, NoRejection DEF IInv, TypeOK
<1>4. ASSUME NEW x \in activeConnections
      PROVE  conn[x] = IF x \in openConnections \ {current} THEN Rec("open", savepointDepth, {}) ELSE Contract!IdleRecord
  <2>1. SettledOK(x) /\ x \in Conns
    BY <1>1, Zenon DEF IInv, TypeOK, ConnInv
  <2>2. CASE x = current
    <3>1. NewCall("driver", "commit", 0).by = "driver"
      BY DEF NewCall
    <3>2. conn[x].inFlight # {NewCall("driver", "commit", 0)}
      BY <2>2, <3>1 DEF ConnectionCommitted, Answered
    <3>3. conn[x] # Rec("open", savepointDepth, {NewCall("driver", "commit", 0)})
      BY <3>2 DEF Rec
    <3> QED BY <1>1, <1>3, <2>1, <2>2, <3>3 DEF SettledOK, Sav, Contract!SavepointMethods
  <2>3. CASE x # current
    BY <1>1, <2>1, <2>3 DEF SettledOK, Sav, Contract!SavepointMethods
  <2> QED BY <2>2, <2>3
<1>5. todo = activeConnections \cap (openConnections \ {current})
  BY <1>2
<1>6. openConnections \ {current} \in SUBSET known /\ todo \in SUBSET activeConnections
  BY <1>2
<1> QED BY <1>1, <1>3, <1>4, <1>5, <1>6, CommitIssued DEF ConnectionCommitted

\* A commit was rejected, in the loop or ahead of it: the connection is still open.
LEMMA CommitRejected ==
    ASSUME IInv, pc \in {"commit", "early"}, \A x \in Conns : join[x].at = "none",
           <<"driver", current>> \in rejected, rejected' = rejected \ {<<"driver", current>>},
           RollbackOpenConnections(openConnections), UNCHANGED <<registry, join, dirty>>
    PROVE  IInv'
<1>1. current \in activeConnections /\ openConnections \in SUBSET known /\ inTransaction /\ TypeOK
  BY DEF IInv, DriverInv, MemberInv, PhaseInv
<1>2. rejected' = {}
  <2>1. \A x \in Conns : <<"join", x>> \notin rejected' /\ <<"driver", x>> \notin rejected'
    BY Zenon DEF IInv, ConnInv
  <2>2. rejected' \in SUBSET (Contract!Callers \X Conns)
    BY <1>1 DEF TypeOK
  <2> QED BY <2>1, <2>2, NoRejection
<1>3. ASSUME NEW x \in activeConnections
      PROVE  conn[x].inFlight = {} /\ (x \in openConnections => conn[x].state # "idle")
             /\ (x \notin openConnections => conn[x] = Contract!IdleRecord)
  <2>1. SettledOK(x) /\ x \in Conns
    BY Zenon DEF IInv, TypeOK, ConnInv
  <2>2. CASE x = current
    <3>1. conn[x] = Rec("commit-failed", savepointDepth, {})
      BY <2>1, <2>2 DEF SettledOK, Sav, Contract!SavepointMethods
    <3>2. x \in openConnections
      BY <2>2, <1>1 DEF IInv, MemberInv, Sav
    <3> QED BY <3>1, <3>2 DEF Rec
  <2>3. CASE x # current
    BY <2>1, <2>3 DEF SettledOK, Sav, Contract!SavepointMethods, Rec, Contract!IdleRecord
  <2> QED BY <2>2, <2>3
<1>4. \A x \in Conns : /\ x \notin activeConnections => conn[x].inFlight = {}
                       /\ x \notin known => conn[x] = Contract!IdleRecord
                       /\ x \in dirty => x \in activeConnections /\ conn[x].state # "idle"
  BY Zenon DEF IInv, ConnInv
<1> QED BY <1>1, <1>2, <1>3, <1>4, RollbackStarts DEF registry, TypeOK

\* ConnectionCommitRejected keeps the invariant.
LEMMA ConnectionCommitRejectedStep ==
    ASSUME IInv, ConnectionCommitRejected
    PROVE  IInv'
<1>1. pc = "commit" /\ \A x \in Conns : join[x].at = "none"
  BY NoJoinWhileClosing DEF ConnectionCommitRejected
<1> QED BY <1>1, CommitRejected DEF ConnectionCommitRejected

\* EarlyCommitRejected keeps the invariant.
LEMMA EarlyCommitRejectedStep ==
    ASSUME IInv, ~Concurrent, EarlyCommitRejected
    PROVE  IInv'
<1>1. pc = "early" /\ \A x \in Conns : join[x].at = "none"
  BY ProceedIsQuiet DEF EarlyCommitRejected
<1> QED BY <1>1, CommitRejected DEF EarlyCommitRejected

\* CommitTransaction keeps the invariant.
LEMMA CommitTransactionStep ==
    ASSUME IInv, ~Concurrent, CommitTransaction
    PROVE  IInv'
<1> USE DEF registry, Sav, Contract!SavepointMethods
<1>1. pc = "body" /\ \A x \in Conns : join[x].at = "none"
  BY ProceedIsQuiet DEF CommitTransaction
<1>2. PhaseInv'
  BY <1>1 DEF CommitTransaction, IInv, PhaseInv
<1>3. DriverInv' /\ MemberInv'
  BY <1>1 DEF CommitTransaction, IInv, DriverInv, MemberInv
<1>4. TypeOK'
  BY DEF CommitTransaction, IInv, TypeOK, PC
<1>5. ASSUME NEW x \in Conns PROVE ConnInv(x)'
  <2>1. x \in activeConnections => SettledOK(x)'
    BY <1>1, Resting DEF CommitTransaction, SettledOK
  <2> QED BY <1>1, <2>1, Resting DEF CommitTransaction, ConnInv
<1> QED BY <1>2, <1>3, <1>4, <1>5 DEF IInv

\* BeginTransaction keeps the invariant.
LEMMA BeginTransactionStep ==
    ASSUME IInv, ~Concurrent, BeginTransaction
    PROVE  IInv'
<1> USE DEF registry, Sav, Contract!SavepointMethods
<1>1. pc = "none" /\ \A x \in Conns : join[x].at = "none"
  BY ProceedIsQuiet DEF BeginTransaction
<1>2. PhaseInv'
  BY <1>1 DEF BeginTransaction, IInv, PhaseInv
<1>3. DriverInv' /\ MemberInv'
  BY <1>1, ConstantsAssumption DEF BeginTransaction, IInv, DriverInv, MemberInv, TypeOK
<1>4. TypeOK'
  BY DEF BeginTransaction, IInv, TypeOK, PC
<1>5. ASSUME NEW x \in Conns PROVE ConnInv(x)'
  <2>1. x \in activeConnections => SettledOK(x)'
    BY <1>1, Resting DEF BeginTransaction, SettledOK
  <2> QED BY <1>1, <2>1, Resting DEF BeginTransaction, ConnInv
<1> QED BY <1>2, <1>3, <1>4, <1>5 DEF IInv

-----------------------------------------------------------------------------
(* Broadcasts, begin, registration, joining, early commit. *)

\* The next call of a broadcast.  The connections in `rest' have yet to be told and can
\* take the call; the others hold the new depth already.
LEMMA BroadcastIssued ==
    ASSUME IInv, NEW method \in Sav, NEW d \in 0..MaxDepth, NEW rest \in SUBSET activeConnections,
           BroadcastNext(method, d, rest), level' = d,
           pc \in Sav \cup {"body"}, savepointDepth' \in 0..MaxDepth,
           savepointDepth' = IF method = "releaseSavepoint" THEN d ELSE d + 1, d < MaxDepth,
           UNCHANGED <<registry, openConnections, inTransaction, closingTransaction, join, rejected, dirty>>,
           \A x \in rest : /\ join[x].at = "none"
                           /\ conn[x].state = "open" /\ conn[x].inFlight = {}
                           /\ IF method = "createSavepoint" THEN conn[x].depth = d ELSE conn[x].depth > d,
           \A x \in activeConnections \ rest :
                join[x].at = "none" => conn[x] = Rec("open", savepointDepth', {}),
           (\E x \in Conns : join[x].at # "none") => savepointDepth' = savepointDepth
    PROVE  IInv'
<1> USE DEF registry
<1>1. TypeOK /\ activeConnections \subseteq openConnections /\ activeConnections \subseteq Conns
  BY DEF IInv, MemberInv, TypeOK, Sav
<1>2. \A x \in Conns : /\ x \notin activeConnections => join[x].at = "none" /\ conn[x].inFlight = {}
                       /\ x \notin known => conn[x] = Contract!IdleRecord
                       /\ x \in dirty => x \in activeConnections /\ conn[x].state # "idle"
                       /\ join[x].at # "none" => JoiningOK(x)
                       /\ <<"join", x>> \in rejected => join[x].at = "begin"
                       /\ <<"driver", x>> \notin rejected
  BY Zenon DEF IInv, ConnInv, Sav, Contract!SavepointMethods
<1>3. CASE rest = {} /\ pc' = "body" /\ todo' = {} /\ current' = NoConn /\ UNCHANGED conn
  <2> USE DEF Sav, Contract!SavepointMethods
  <2>1. PhaseInv' /\ DriverInv' /\ MemberInv'
    BY <1>1, <1>3 DEF IInv, PhaseInv, DriverInv, MemberInv
  <2>2. TypeOK'
    BY <1>1, <1>3 DEF TypeOK, PC
  <2>3. ASSUME NEW x \in Conns PROVE ConnInv(x)'
    <3>1. join[x].at = "none" /\ x \in activeConnections => SettledOK(x)'
      BY <1>1, <1>3 DEF SettledOK
    <3>2. join[x].at # "none" => JoiningOK(x)'
      BY <1>2, <1>3, ConstantsAssumption, Zenon DEF JoiningOK
    <3> QED BY <1>2, <1>3, <3>1, <3>2 DEF ConnInv
  <2> QED BY <2>1, <2>2, <2>3 DEF IInv
<1>4. ASSUME NEW c \in rest, conn' = Called(c, "driver", method, d), pc' = method,
             todo' = rest \ {c}, current' = c
      PROVE  IInv'
  <2>0. c \in Conns /\ c \in activeConnections /\ c \in openConnections
    BY <1>1
  <2>1. /\ conn' \in [Conns -> Contract!Record]
        /\ \A x \in Conns : x # c => conn'[x] = conn[x]
        /\ conn'[c] = Rec(conn[c].state, conn[c].depth, conn[c].inFlight \cup {NewCall("driver", method, d)})
    <3>1. "driver" \in Contract!Callers /\ method \in Contract!Methods
      BY DEF Contract!Callers, Contract!Methods, Sav
    <3> QED BY <1>1, <1>4, <2>0, <3>1, CalledType
  <2>2. conn'[c].state = "open" /\ conn'[c].depth = conn[c].depth /\ conn'[c].inFlight = {NewCall("driver", method, d)}
    <3>1. conn'[c] = Rec(conn[c].state, conn[c].depth, {NewCall("driver", method, d)})
      BY <2>1, Zenon
    <3> QED BY <3>1, RecFields
  <2> USE DEF Sav, Contract!SavepointMethods
  <2>3. PhaseInv'
    BY <1>4 DEF IInv, PhaseInv
  <2>4. DriverInv'
    BY <1>1, <1>4, <2>0 DEF DriverInv
  <2>5. MemberInv'
    BY <1>1, <1>4 DEF IInv, MemberInv
  <2>6. TypeOK'
    BY <1>1, <1>4, <2>0, <2>1 DEF TypeOK, PC
  <2>7. ASSUME NEW x \in Conns PROVE ConnInv(x)'
    <3>1. CASE x = c
      <4>1. SettledOK(x)'
        BY <1>4, <2>2, <3>1 DEF SettledOK, UntoldDepth
      <4>2. join'[x].at = "none" /\ conn'[x].state # "idle"
        BY <2>2, <3>1
      <4>3. x \in activeConnections' /\ x \in known'
        BY <1>1, <2>0, <3>1 DEF TypeOK
      <4>4. <<"join", x>> \notin rejected' /\ <<"driver", x>> \notin rejected'
        BY <1>2, <4>2
      <4> QED BY <4>1, <4>2, <4>3, <4>4 DEF ConnInv
    <3>2. CASE x # c
      <4>1. conn'[x] = conn[x]
        BY <2>1, <3>2
      <4>2. join[x].at = "none" /\ x \in activeConnections => SettledOK(x)'
        BY <1>1, <1>4, <3>2, <4>1 DEF SettledOK, UntoldDepth
      <4>3. join[x].at # "none" => JoiningOK(x)'
        BY <1>2, <1>4, <3>2, <4>1, Zenon DEF JoiningOK
      <4> QED BY <1>2, <1>4, <3>2, <4>1, <4>2, <4>3 DEF ConnInv
    <3> QED BY <3>1, <3>2
  <2> QED BY <2>3, <2>4, <2>5, <2>6, <2>7 DEF IInv
<1> QED BY <1>3, <1>4 DEF BroadcastNext

\* A broadcast starts where every registered connection holds the engine's depth.
LEMMA BroadcastStarts ==
    ASSUME IInv, ~Concurrent, NEW method \in Sav, NEW d \in 0..MaxDepth, d < MaxDepth,
           NEW newDepth \in 0..MaxDepth, Broadcast(method, d, newDepth),
           newDepth = IF method = "releaseSavepoint" THEN d ELSE d + 1,
           IF method = "createSavepoint" THEN d = savepointDepth ELSE d < savepointDepth
    PROVE  IInv'
<1>1. pc = "body" /\ \A x \in Conns : join[x].at = "none"
  BY ProceedIsQuiet DEF Broadcast
<1>2. activeConnections \subseteq openConnections /\ activeConnections \subseteq Conns
  BY <1>1 DEF IInv, MemberInv, TypeOK, Sav
<1>3. \A x \in activeConnections : conn[x] = Rec("open", savepointDepth, {})
  BY <1>1, <1>2, Resting, Zenon
<1>4. \A x \in activeConnections : conn[x].state = "open" /\ conn[x].inFlight = {} /\ conn[x].depth = savepointDepth
  BY <1>3, RecFields
<1>5. level' = d /\ savepointDepth' = newDepth /\ BroadcastNext(method, d, activeConnections)
      /\ UNCHANGED <<registry, openConnections, inTransaction, closingTransaction, join, rejected, dirty>>
  BY DEF Broadcast
<1>6. \A x \in activeConnections :
         /\ join[x].at = "none"
         /\ conn[x].state = "open" /\ conn[x].inFlight = {}
         /\ IF method = "createSavepoint" THEN conn[x].depth = d ELSE conn[x].depth > d
  <2>1. savepointDepth \in Nat /\ d \in Nat
    BY ConstantsAssumption DEF IInv, TypeOK
  <2> QED BY <1>1, <1>2, <1>4, <2>1, Zenon
<1>7. /\ \A x \in activeConnections \ activeConnections :
            join[x].at = "none" => conn[x] = Rec("open", savepointDepth', {})
      /\ (\E x \in Conns : join[x].at # "none") => savepointDepth' = savepointDepth
      /\ pc \in Sav \cup {"body"} /\ activeConnections \in SUBSET activeConnections
      /\ savepointDepth' \in 0..MaxDepth
      /\ savepointDepth' = IF method = "releaseSavepoint" THEN d ELSE d + 1
  BY <1>1, <1>5
<1> QED BY <1>5, <1>6, <1>7, BroadcastIssued, Zenon

\* CreateSavepointBroadcast keeps the invariant.
LEMMA CreateSavepointBroadcastStep ==
    ASSUME IInv, ~Concurrent, CreateSavepointBroadcast
    PROVE  IInv'
<1>1. savepointDepth \in 0..MaxDepth /\ savepointDepth < MaxDepth /\ savepointDepth + 1 \in 0..MaxDepth
  BY ConstantsAssumption DEF IInv, TypeOK, CreateSavepointBroadcast
<1>2. "createSavepoint" \in Sav
  BY DEF Sav, Contract!SavepointMethods
<1> QED BY <1>1, <1>2, BroadcastStarts DEF CreateSavepointBroadcast

\* ReleaseSavepointBroadcast keeps the invariant.
LEMMA ReleaseSavepointBroadcastStep ==
    ASSUME IInv, ~Concurrent, ReleaseSavepointBroadcast
    PROVE  IInv'
<1>1. PICK d \in 0..MaxDepth : d < savepointDepth /\ Broadcast("releaseSavepoint", d, d)
  BY DEF ReleaseSavepointBroadcast
<1>2. "releaseSavepoint" \in Sav /\ d < MaxDepth
  BY <1>1, ConstantsAssumption DEF Sav, Contract!SavepointMethods, IInv, TypeOK
<1> QED BY <1>1, <1>2, BroadcastStarts

\* RollbackToSavepointBroadcast keeps the invariant.
LEMMA RollbackToSavepointBroadcastStep ==
    ASSUME IInv, ~Concurrent, RollbackToSavepointBroadcast
    PROVE  IInv'
<1>1. PICK d \in 0..MaxDepth : d < savepointDepth /\ Broadcast("rollbackToSavepoint", d, d + 1)
  BY DEF RollbackToSavepointBroadcast
<1>2. "rollbackToSavepoint" \in Sav /\ d < MaxDepth /\ d + 1 \in 0..MaxDepth
  BY <1>1, ConstantsAssumption DEF Sav, Contract!SavepointMethods, IInv, TypeOK
<1> QED BY <1>1, <1>2, BroadcastStarts

\* BroadcastAnswered keeps the invariant.
LEMMA BroadcastAnsweredStep ==
    ASSUME IInv, BroadcastAnswered
    PROVE  IInv'
<1>1. pc \in Sav /\ current \in activeConnections /\ todo \in SUBSET activeConnections /\ TypeOK /\ current \notin todo
      /\ \A x \in todo : join[x].at = "none"
  BY DEF IInv, DriverInv, BroadcastAnswered, Sav
<1>2. level \in 0..MaxDepth /\ level < MaxDepth
      /\ savepointDepth = IF pc = "releaseSavepoint" THEN level ELSE level + 1
  BY <1>1, ConstantsAssumption DEF IInv, PhaseInv, TypeOK, Sav, Contract!SavepointMethods
<1>3. ASSUME NEW x \in todo
      PROVE  conn[x].state = "open" /\ conn[x].inFlight = {}
             /\ IF pc = "createSavepoint" THEN conn[x].depth = level ELSE conn[x].depth > level
  <2>1. SettledOK(x) /\ x \in Conns
    BY <1>1, Zenon DEF IInv, TypeOK, ConnInv
  <2>2. x # current
    BY <1>1
  <2> QED BY <1>1, <2>1, <2>2 DEF SettledOK, UntoldDepth, Sav, Contract!SavepointMethods
<1>4. ASSUME NEW x \in activeConnections \ todo, join[x].at = "none"
      PROVE  conn[x] = Rec("open", savepointDepth, {})
  <2>1. SettledOK(x) /\ x \in Conns /\ x \in openConnections
    BY <1>1, <1>4, Zenon DEF IInv, TypeOK, ConnInv, MemberInv
  <2>2. CASE x = current
    <3>1. NewCall("driver", pc, level).by = "driver"
      BY DEF NewCall
    <3>2. conn[x].inFlight # {NewCall("driver", pc, level)}
      BY <2>2, <3>1 DEF BroadcastAnswered, Answered
    <3> QED BY <1>1, <2>1, <2>2, <3>2 DEF SettledOK, Sav, Contract!SavepointMethods
  <2>3. CASE x # current
    BY <1>1, <2>1, <2>3 DEF SettledOK, Sav, Contract!SavepointMethods
  <2> QED BY <2>2, <2>3
<1> QED BY <1>1, <1>2, <1>3, <1>4, BroadcastIssued DEF BroadcastAnswered, manager, TypeOK

\* BeginNext keeps the invariant.
LEMMA BeginNextStep ==
    ASSUME IInv, NEW c \in Conns, BeginNext(c)
    PROVE  IInv'
<1> USE DEF registry, Sav, Contract!SavepointMethods
<1>1. TypeOK /\ pc = "begin" /\ c \in todo /\ current = NoConn /\ c \in activeConnections /\ join[c].at = "none" /\ c # NoConn
      /\ pc' = pc /\ todo' = todo \ {c} /\ UNCHANGED <<registry, inTransaction, closingTransaction, savepointDepth, level, rejected, dirty>>
  BY ConstantsAssumption DEF IInv, DriverInv, BeginNext
<1>2. PhaseInv'
  BY <1>1 DEF IInv, PhaseInv
<1>3. CASE c \in openConnections
  <2>1. UNCHANGED <<openConnections, join, conn, current>>
    BY <1>3 DEF BeginNext
  <2>2. DriverInv' /\ MemberInv'
    BY <1>1, <1>3, <2>1 DEF IInv, DriverInv, MemberInv
  <2>3. TypeOK'
    BY <1>1, <2>1 DEF TypeOK
  <2>4. ASSUME NEW x \in Conns PROVE ConnInv(x)'
    <3>1. ConnInv(x)
      BY DEF IInv
    <3>2. join[x].at = "none" /\ x \in activeConnections => SettledOK(x)'
      BY <1>1, <2>1, <3>1 DEF ConnInv, SettledOK
    <3>3. join[x].at # "none" => JoiningOK(x)'
      BY <1>1, <2>1, <3>1 DEF ConnInv, JoiningOK
    <3> QED BY <1>1, <2>1, <3>1, <3>2, <3>3 DEF ConnInv
  <2> QED BY <1>2, <2>2, <2>3, <2>4 DEF IInv
<1>4. CASE c \notin openConnections
  <2>1. StartJoin(c) /\ current' = c /\ openConnections' = openConnections \cup {c}
    BY <1>4 DEF BeginNext, StartJoin
  <2>2. /\ conn' \in [Conns -> Contract!Record] /\ join' \in [Conns -> JoinState]
        /\ \A x \in Conns : x # c => conn'[x] = conn[x] /\ join'[x] = join[x]
        /\ conn'[c] = Rec(conn[c].state, conn[c].depth, conn[c].inFlight \cup {NewCall("join", "begin", 0)})
        /\ join'[c].at = "begin"
    BY <1>1, <2>1, StartJoinType
  <2>3. DriverInv' /\ MemberInv'
    <3>1. \A x \in todo' : join'[x].at = "none"
      BY <1>1, <2>2 DEF IInv, DriverInv, TypeOK
    <3> QED BY <1>1, <1>4, <2>1, <3>1 DEF IInv, DriverInv, MemberInv, TypeOK
  <2>4. TypeOK'
    BY <1>1, <2>1, <2>2 DEF TypeOK
  <2>5. ASSUME NEW x \in Conns, x # c PROVE ConnInv(x)'
    <3>1. ConnInv(x) /\ conn'[x] = conn[x] /\ join'[x] = join[x]
      BY <2>2, <2>5 DEF IInv
    <3>2. x # current /\ x # current'
      BY <1>1, <2>1, <2>5, ConstantsAssumption
    <3> QED BY <1>1, <2>1, <2>5, <3>1, <3>2, ConnFrame
  <2>6. ConnInv(c)'
    <3>1. conn[c] = Contract!IdleRecord
      <4>1. SettledOK(c)
        BY <1>1, Zenon DEF IInv, ConnInv
      <4> QED BY <1>1, <1>4, <4>1 DEF SettledOK
    <3>2. conn'[c] = Rec("idle", 0, {NewCall("join", "begin", 0)})
      BY <2>2, <3>1 DEF Rec, Contract!IdleRecord
    <3>3. <<"join", c>> \notin rejected /\ <<"driver", c>> \notin rejected /\ c \notin dirty /\ c \in known
      BY <1>1, <3>1 DEF IInv, ConnInv, Contract!IdleRecord, TypeOK
    <3>4. JoiningOK(c)'
      BY <1>1, <2>1, <2>2, <3>2, <3>3 DEF JoiningOK
    <3> QED BY <1>1, <2>2, <3>3, <3>4 DEF ConnInv
  <2> QED BY <1>2, <2>3, <2>4, <2>5, <2>6 DEF IInv
<1> QED BY <1>3, <1>4

\* RegisterConnection keeps the invariant.
LEMMA RegisterConnectionStep ==
    ASSUME IInv, NEW c \in Conns, RegisterConnection(c)
    PROVE  IInv'
<1> USE DEF registry, driver, Sav, Contract!SavepointMethods
<1>1. TypeOK /\ c \notin known /\ c \notin activeConnections /\ c \notin openConnections /\ c \notin todo
      /\ join[c].at = "none" /\ conn[c] = Contract!IdleRecord /\ <<"join", c>> \notin rejected /\ <<"driver", c>> \notin rejected
      /\ c \notin dirty /\ (pc \in Sav \cup {"begin", "commit", "early", "rejoin"} => c # current)
  <2>1. TypeOK /\ ConnInv(c) /\ c \notin known /\ DriverInv /\ MemberInv
    BY DEF IInv, RegisterConnection
  <2>2. c \notin activeConnections
    BY <2>1 DEF TypeOK
  <2>3. pc \in Sav \cup {"begin", "commit", "early", "rejoin"} => c # current
    BY <2>1, <2>2, ConstantsAssumption DEF DriverInv
  <2> QED BY <2>1, <2>2, <2>3 DEF DriverInv, MemberInv, ConnInv, Contract!IdleRecord
<1>2. c # current
  BY <1>1, ConstantsAssumption DEF IInv, DriverInv, TypeOK, PC
<1>3. known' = known \cup {c} /\ activeConnections' = activeConnections \cup {c}
      /\ UNCHANGED <<inTransaction, closingTransaction, savepointDepth, pc, todo, current, level, rejected, dirty>>
  BY DEF RegisterConnection
<1>4. PhaseInv'
  BY <1>3 DEF IInv, PhaseInv
<1>5. CASE ~(inTransaction /\ ~closingTransaction)
  <2>1. UNCHANGED <<openConnections, join, conn>> /\ pc \in {"none", "checks", "commit", "rollback"}
    BY <1>5 DEF RegisterConnection, IInv, PhaseInv
  <2>2. DriverInv' /\ MemberInv'
    BY <1>1, <1>3, <2>1 DEF IInv, DriverInv, MemberInv
  <2>3. TypeOK'
    BY <1>1, <1>3, <2>1 DEF TypeOK
  <2>4. ASSUME NEW x \in Conns, x # c PROVE ConnInv(x)'
    BY <1>3, <2>1, <2>4, ConnFrame DEF IInv
  <2>5. ConnInv(c)'
    <3>1. SettledOK(c)'
      BY <1>1, <1>2, <1>3, <2>1 DEF SettledOK
    <3> QED BY <1>1, <1>3, <2>1, <3>1 DEF ConnInv
  <2> QED BY <1>4, <2>2, <2>3, <2>4, <2>5 DEF IInv
<1>6. CASE inTransaction /\ ~closingTransaction
  <2>1. StartJoin(c) /\ openConnections' = openConnections \cup {c}
    BY <1>6 DEF RegisterConnection, StartJoin
  <2>2. /\ conn' \in [Conns -> Contract!Record] /\ join' \in [Conns -> JoinState]
        /\ \A x \in Conns : x # c => conn'[x] = conn[x] /\ join'[x] = join[x]
        /\ conn'[c] = Rec(conn[c].state, conn[c].depth, conn[c].inFlight \cup {NewCall("join", "begin", 0)})
        /\ join'[c].at = "begin"
    BY <1>1, <2>1, StartJoinType
  <2>3. pc \in Sav \cup {"begin", "body", "early", "rejoin"}
    BY <1>1, <1>6 DEF IInv, PhaseInv, TypeOK, PC
  <2>4. DriverInv' /\ MemberInv'
    <3>1. \A x \in todo' : join'[x].at = "none"
      BY <1>1, <1>3, <2>2 DEF IInv, DriverInv, TypeOK
    <3> QED BY <1>1, <1>3, <2>1, <2>3, <3>1 DEF IInv, DriverInv, MemberInv
  <2>5. TypeOK'
    BY <1>1, <1>3, <2>1, <2>2 DEF TypeOK
  <2>6. ASSUME NEW x \in Conns, x # c PROVE ConnInv(x)'
    BY <1>3, <2>1, <2>2, <2>6, ConnFrame DEF IInv
  <2>7. ConnInv(c)'
    <3>1. conn'[c] = Rec("idle", 0, {NewCall("join", "begin", 0)})
      BY <1>1, <2>2 DEF Rec, Contract!IdleRecord
    <3>2. JoiningOK(c)'
      BY <1>1, <1>2, <1>3, <2>1, <2>2, <2>3, <3>1 DEF JoiningOK
    <3> QED BY <1>1, <1>3, <2>2, <3>2 DEF ConnInv
  <2> QED BY <1>4, <2>4, <2>5, <2>6, <2>7 DEF IInv
<1> QED BY <1>5, <1>6

\* DriverJoined keeps the invariant.
LEMMA DriverJoinedStep ==
    ASSUME IInv, DriverJoined
    PROVE  IInv'
<1> USE DEF registry, manager, Sav, Contract!SavepointMethods
<1>1. TypeOK /\ current # NoConn /\ join[current].at = "none" /\ pc \in {"begin", "rejoin"}
      /\ current' = NoConn /\ pc' = (IF pc = "rejoin" THEN "body" ELSE pc)
      /\ UNCHANGED <<activeConnections, known, openConnections, inTransaction, closingTransaction, savepointDepth,
                     todo, level, join, conn, rejected, dirty>>
  BY DEF IInv, DriverJoined
<1>2. PhaseInv' /\ DriverInv' /\ MemberInv'
  BY <1>1, ConstantsAssumption DEF IInv, PhaseInv, DriverInv, MemberInv, TypeOK
<1>3. TypeOK'
  BY <1>1 DEF TypeOK, PC
<1>4. ASSUME NEW x \in Conns PROVE ConnInv(x)'
  <2>1. ConnInv(x)
    BY DEF IInv
  <2>2. join[x].at = "none" /\ x \in activeConnections => SettledOK(x)'
    BY <1>1, <2>1 DEF ConnInv, SettledOK
  <2>3. join[x].at # "none" => JoiningOK(x)'
    BY <1>1, <2>1, ConstantsAssumption DEF ConnInv, JoiningOK
  <2> QED BY <1>1, <2>1, <2>2, <2>3 DEF ConnInv
<1> QED BY <1>2, <1>3, <1>4 DEF IInv

\* BeginDone keeps the invariant.
LEMMA BeginDoneStep ==
    ASSUME IInv, BeginDone
    PROVE  IInv'
<1> USE DEF registry, manager, Sav, Contract!SavepointMethods
<1>1. TypeOK /\ current = NoConn /\ todo = {} /\ pc = "begin" /\ pc' = "body"
      /\ UNCHANGED <<activeConnections, known, openConnections, inTransaction, closingTransaction, savepointDepth,
                     todo, current, level, join, conn, rejected, dirty>>
  BY DEF IInv, BeginDone
<1>2. PhaseInv' /\ DriverInv' /\ MemberInv'
  BY <1>1 DEF IInv, PhaseInv, DriverInv, MemberInv
<1>3. TypeOK'
  BY <1>1 DEF TypeOK, PC
<1>4. ASSUME NEW x \in Conns PROVE ConnInv(x)'
  <2>1. ConnInv(x)
    BY DEF IInv
  <2>2. join[x].at = "none" /\ x \in activeConnections => SettledOK(x)'
    BY <1>1, <2>1 DEF ConnInv, SettledOK
  <2>3. join[x].at # "none" => JoiningOK(x)'
    BY <1>1, <2>1, ConstantsAssumption DEF ConnInv, JoiningOK
  <2> QED BY <1>1, <2>1, <2>2, <2>3 DEF ConnInv
<1> QED BY <1>2, <1>3, <1>4 DEF IInv

\* Write keeps the invariant.
LEMMA WriteStep ==
    ASSUME IInv, NEW c \in Conns, Write(c)
    PROVE  IInv'
<1> USE DEF registry, manager, driver, Sav, Contract!SavepointMethods
<1>1. TypeOK /\ pc = "body" /\ c \in activeConnections /\ c \in openConnections /\ join[c].at = "none" /\ dirty' = dirty \cup {c}
      /\ UNCHANGED <<activeConnections, known, openConnections, inTransaction, closingTransaction, savepointDepth,
                     pc, todo, current, level, join, conn, rejected>>
  BY DEF IInv, Write
<1>2. PhaseInv' /\ DriverInv' /\ MemberInv'
  BY <1>1 DEF IInv, PhaseInv, DriverInv, MemberInv
<1>3. TypeOK'
  BY <1>1 DEF TypeOK
<1>4. ASSUME NEW x \in Conns, x # c PROVE ConnInv(x)'
  BY <1>1, <1>4, ConnFrame DEF IInv
<1>5. ConnInv(c)'
  <2>1. ConnInv(c)
    BY DEF IInv
  <2>2. SettledOK(c)'
    BY <1>1, <2>1 DEF ConnInv, SettledOK
  <2>3. conn[c].state # "idle"
    BY <1>1, <2>1 DEF ConnInv, SettledOK, Rec, IInv, DriverInv
  <2> QED BY <1>1, <2>1, <2>2, <2>3 DEF ConnInv
<1> QED BY <1>2, <1>3, <1>4, <1>5 DEF IInv

\* RemoveConnection keeps the invariant.
LEMMA RemoveConnectionStep ==
    ASSUME IInv, NEW c \in Conns, RemoveConnection(c)
    PROVE  IInv'
<1> USE DEF registry, manager, driver, Sav, Contract!SavepointMethods
<1>1. TypeOK /\ pc \in {"none", "body"} /\ c \in activeConnections /\ join[c].at = "none" /\ dirty' = dirty \ {c}
      /\ activeConnections' = activeConnections \ {c} /\ c \in known
      /\ UNCHANGED <<known, openConnections, inTransaction, closingTransaction, savepointDepth,
                     pc, todo, current, level, join, conn, rejected>>
  BY DEF IInv, RemoveConnection, TypeOK
<1>2. PhaseInv' /\ DriverInv' /\ MemberInv'
  BY <1>1 DEF IInv, PhaseInv, DriverInv, MemberInv
<1>3. TypeOK'
  BY <1>1 DEF TypeOK
<1>4. ASSUME NEW x \in Conns, x # c PROVE ConnInv(x)'
  BY <1>1, <1>4, ConnFrame DEF IInv
<1>5. ConnInv(c)'
  <2>1. ConnInv(c)
    BY DEF IInv
  <2>2. conn[c].inFlight = {}
    BY <1>1, <2>1 DEF ConnInv, SettledOK, Rec, Contract!IdleRecord
  <2> QED BY <1>1, <2>1, <2>2 DEF ConnInv
<1> QED BY <1>2, <1>3, <1>4, <1>5 DEF IInv

\* CommitConnectionEarly keeps the invariant.
LEMMA CommitConnectionEarlyStep ==
    ASSUME IInv, ~Concurrent, NEW c \in Conns, CommitConnectionEarly(c)
    PROVE  IInv'
<1> USE DEF registry, manager, Sav, Contract!SavepointMethods
<1>1. TypeOK /\ pc = "body" /\ c \in activeConnections /\ c \in openConnections /\ pc' = "early" /\ current' = c
      /\ conn' = Called(c, "driver", "commit", 0)
      /\ UNCHANGED <<activeConnections, known, openConnections, inTransaction, closingTransaction, savepointDepth,
                     todo, level, join, rejected, dirty>>
  BY DEF IInv, CommitConnectionEarly
<1>2. \A x \in Conns : join[x].at = "none"
  BY ProceedIsQuiet DEF CommitConnectionEarly
<1>3. /\ conn' \in [Conns -> Contract!Record]
      /\ \A x \in Conns : x # c => conn'[x] = conn[x]
      /\ conn'[c] = Rec(conn[c].state, conn[c].depth, conn[c].inFlight \cup {NewCall("driver", "commit", 0)})
  <2>1. "driver" \in Contract!Callers /\ "commit" \in Contract!Methods /\ 0 \in 0..MaxDepth
    BY ConstantsAssumption DEF Contract!Callers, Contract!Methods
  <2> QED BY <1>1, <2>1, CalledType
<1>4. conn'[c] = Rec("open", savepointDepth, {NewCall("driver", "commit", 0)})
  <2>1. conn[c] = Rec("open", savepointDepth, {})
    BY <1>1, <1>2, Resting
  <2> QED BY <1>3, <2>1 DEF Rec
<1>5. PhaseInv' /\ MemberInv'
  BY <1>1 DEF IInv, PhaseInv, MemberInv
<1>6. DriverInv'
  BY <1>1 DEF IInv, DriverInv
<1>7. TypeOK'
  BY <1>1, <1>3 DEF TypeOK, PC
<1>8. ASSUME NEW x \in Conns PROVE ConnInv(x)'
  <2>1. CASE x = c
    <3>1. SettledOK(x)'
      BY <1>1, <1>2, <1>4, <2>1, Resting DEF SettledOK
    <3>2. c \in known /\ <<"join", c>> \notin rejected /\ <<"driver", c>> \notin rejected /\ conn'[c].state = "open"
      BY <1>1, <1>2, <1>4, Resting, RecFields DEF TypeOK
    <3> QED BY <1>1, <1>2, <2>1, <3>1, <3>2 DEF ConnInv
  <2>2. CASE x # c
    <3>1. conn'[x] = conn[x]
      BY <1>3, <2>2
    <3>2. x \in activeConnections => SettledOK(x)'
      BY <1>1, <1>2, <2>2, <3>1, Resting DEF SettledOK, IInv, DriverInv
    <3> QED BY <1>1, <1>2, <2>2, <3>1, <3>2, Resting DEF ConnInv
  <2> QED BY <2>1, <2>2
<1> QED BY <1>5, <1>6, <1>7, <1>8 DEF IInv

\* EarlyCommitted keeps the invariant.
LEMMA EarlyCommittedStep ==
    ASSUME IInv, EarlyCommitted
    PROVE  IInv'
<1> USE DEF registry, Sav, Contract!SavepointMethods
<1>1. TypeOK /\ pc = "early" /\ pc' = "rejoin" /\ current \in activeConnections /\ current \in Conns /\ StartJoin(current)
      /\ current \in openConnections /\ openConnections' = openConnections /\ todo = {}
      /\ <<"driver", current>> \notin rejected
      /\ UNCHANGED <<activeConnections, known, inTransaction, closingTransaction, savepointDepth,
                     todo, current, level, rejected, dirty>>
  BY DEF IInv, DriverInv, MemberInv, TypeOK, EarlyCommitted, StartJoin
<1>2. /\ conn' \in [Conns -> Contract!Record] /\ join' \in [Conns -> JoinState]
      /\ \A x \in Conns : x # current => conn'[x] = conn[x] /\ join'[x] = join[x]
      /\ conn'[current] = Rec(conn[current].state, conn[current].depth, conn[current].inFlight \cup {NewCall("join", "begin", 0)})
      /\ join'[current].at = "begin"
  BY <1>1, StartJoinType, Zenon
<1>3. conn[current] = Contract!IdleRecord /\ join[current].at = "none"
  <2>1. ConnInv(current)
    BY <1>1 DEF IInv
  <2>2. join[current].at = "none" /\ SettledOK(current)
    BY <1>1, <2>1 DEF ConnInv, JoiningOK
  <2>3. conn[current].inFlight # {NewCall("driver", "commit", 0)}
    <3>1. NewCall("driver", "commit", 0).by = "driver"
      BY DEF NewCall
    <3> QED BY <3>1 DEF EarlyCommitted, Answered
  <2>4. conn[current] # Rec("open", savepointDepth, {NewCall("driver", "commit", 0)})
    BY <2>3 DEF Rec
  <2> QED BY <1>1, <2>2, <2>4 DEF SettledOK
<1>4. conn'[current] = Rec("idle", 0, {NewCall("join", "begin", 0)})
  BY <1>2, <1>3 DEF Rec, Contract!IdleRecord
<1>5. PhaseInv' /\ MemberInv'
  BY <1>1 DEF IInv, PhaseInv, MemberInv
<1>6. DriverInv'
  BY <1>1 DEF IInv, DriverInv
<1>7. TypeOK'
  BY <1>1, <1>2 DEF TypeOK, PC
<1>8. ASSUME NEW x \in Conns PROVE ConnInv(x)'
  <2>0. ConnInv(x)
    BY DEF IInv
  <2>1. CASE x = current
    <3>1. <<"join", x>> \notin rejected /\ x \notin dirty /\ x \in known
      BY <1>1, <1>3, <2>0, <2>1 DEF ConnInv, Contract!IdleRecord, TypeOK
    <3>2. JoiningOK(x)'
      BY <1>1, <1>2, <1>4, <2>1, <3>1 DEF JoiningOK
    <3> QED BY <1>1, <1>2, <2>1, <3>1, <3>2 DEF ConnInv
  <2>2. CASE x # current
    <3>1. conn'[x] = conn[x] /\ join'[x] = join[x]
      BY <1>2, <2>2
    <3>2. join[x].at = "none" /\ x \in activeConnections => SettledOK(x)'
      BY <1>1, <2>0, <2>2, <3>1 DEF SettledOK, ConnInv
    <3>3. join[x].at # "none" => JoiningOK(x)'
      BY <1>1, <2>0, <2>2, <3>1 DEF JoiningOK, ConnInv
    <3> QED BY <1>1, <2>0, <2>2, <3>1, <3>2, <3>3 DEF ConnInv
  <2> QED BY <2>1, <2>2
<1> QED BY <1>5, <1>6, <1>7, <1>8 DEF IInv

\* A joining connection whose last call is answered makes its next one, or has joined.
LEMMA JoinAdvances ==
    ASSUME IInv, NEW c \in Conns, join[c].at # "none", <<"join", c>> \notin rejected,
           NEW n \in 0..MaxDepth, n <= savepointDepth, conn[c] = Rec("open", n, {}),
           ReplaySavepoints(c, n, savepointDepth),
           UNCHANGED <<registry, manager, driver, rejected, dirty>>
    PROVE  IInv'
<1> USE DEF registry, manager, driver
<1>1. TypeOK /\ savepointDepth \in 0..MaxDepth /\ JoiningOK(c) /\ ConnInv(c)
  BY Zenon DEF IInv, TypeOK, ConnInv
<1>2. /\ conn' \in [Conns -> Contract!Record] /\ join' \in [Conns -> JoinState]
      /\ \A x \in Conns : x # c => conn'[x] = conn[x] /\ join'[x] = join[x]
      /\ n < savepointDepth =>
           /\ conn'[c] = Rec(conn[c].state, conn[c].depth, conn[c].inFlight \cup {NewCall("join", "createSavepoint", n)})
           /\ join'[c] = [at |-> "replay", next |-> n + 1, limit |-> savepointDepth]
      /\ ~(n < savepointDepth) => conn' = conn /\ join'[c].at = "none"
  BY <1>1, ReplayType, Zenon
<1>3. c \notin todo
  BY Zenon DEF IInv, DriverInv
<1>4. PhaseInv' /\ MemberInv'
  BY DEF IInv, PhaseInv, MemberInv
<1>5. DriverInv'
  <2>0. todo \subseteq Conns /\ \A x \in todo : join[x].at = "none"
    BY Zenon, <1>1 DEF IInv, DriverInv, TypeOK
  <2>1. \A x \in todo : join'[x].at = "none"
    BY Zenon, <1>2, <1>3, <2>0
  <2> QED BY SMTT(30), <2>1 DEF IInv, DriverInv
<1>6. TypeOK'
  BY <1>1, <1>2 DEF TypeOK
<1>7. ASSUME NEW x \in Conns, x # c PROVE ConnInv(x)'
  BY <1>2, <1>7, ConnFrame DEF IInv
<1>8. ConnInv(c)'
  <2>0. <<"driver", c>> \notin rejected
    BY <1>1, Zenon DEF ConnInv, JoiningOK, Sav, Contract!SavepointMethods
  <2>1. CASE n < savepointDepth
    <3>1. conn'[c] = Rec("open", n, {NewCall("join", "createSavepoint", n)})
      <4>1. conn[c].state = "open" /\ conn[c].depth = n /\ conn[c].inFlight = {}
        BY RecFields
      <4>2. conn[c].inFlight \cup {NewCall("join", "createSavepoint", n)} = {NewCall("join", "createSavepoint", n)}
        BY <4>1
      <4> QED BY <1>2, <2>1, <4>1, <4>2
    <3>2. join'[c].at = "replay" /\ join'[c].next = n + 1 /\ join'[c].limit = savepointDepth
      BY <1>2, <2>1, SMTT(30)
    <3>3. n + 1 \in 1..savepointDepth /\ (n + 1) - 1 = n
      BY <1>1, <2>1, ConstantsAssumption, SMTT(30)
    <3>4. JoiningOK(c)'
      BY <1>1, <3>1, <3>2, <3>3, Zenon DEF JoiningOK
    <3>5. c \in known /\ c \in activeConnections /\ conn'[c].state = "open"
      BY <1>1, <3>1, RecFields, SMTT(30) DEF TypeOK, JoiningOK
    <3> QED BY <2>0, <3>2, <3>4, <3>5 DEF ConnInv
  <2>2. CASE ~(n < savepointDepth)
    <3>1. n = savepointDepth
      BY <1>1, <2>2, ConstantsAssumption
    <3>2. SettledOK(c)'
      BY <1>1, <1>2, <1>3, <2>2, <3>1 DEF JoiningOK, SettledOK, Sav, Contract!SavepointMethods
    <3> QED BY <1>1, <1>2, <2>0, <2>2, <3>2 DEF ConnInv, JoiningOK, Rec, TypeOK
  <2> QED BY <2>1, <2>2
<1> QED BY <1>4, <1>5, <1>6, <1>7, <1>8, Zenon DEF IInv

\* JoinBegun keeps the invariant.
LEMMA JoinBegunStep ==
    ASSUME IInv, NEW c \in Conns, JoinBegun(c)
    PROVE  IInv'
<1>1. TypeOK /\ JoiningOK(c) /\ join[c].at = "begin" /\ <<"join", c>> \notin rejected
  BY Zenon DEF IInv, ConnInv, JoinBegun
<1>2. conn[c] = Rec("open", 0, {})
  <2>1. NewCall("join", "begin", 0).by = "join"
    BY DEF NewCall
  <2>2. conn[c].inFlight # {NewCall("join", "begin", 0)}
    BY <2>1 DEF JoinBegun, Answered
  <2>3. conn[c] # Rec("idle", 0, {NewCall("join", "begin", 0)})
    BY <2>2 DEF Rec
  <2> QED BY <1>1, <2>3 DEF JoiningOK
<1>3. 0 \in 0..MaxDepth /\ 0 <= savepointDepth
  BY <1>1, ConstantsAssumption DEF TypeOK
<1> QED BY <1>1, <1>2, <1>3, JoinAdvances DEF JoinBegun

\* JoinReplayed keeps the invariant.
LEMMA JoinReplayedStep ==
    ASSUME IInv, NEW c \in Conns, JoinReplayed(c)
    PROVE  IInv'
<1>1. TypeOK /\ JoiningOK(c) /\ join[c].at = "replay"
  BY Zenon DEF IInv, ConnInv, JoinReplayed
<1>2. <<"join", c>> \notin rejected /\ join[c].next \in 1..savepointDepth /\ join[c].limit = savepointDepth
  BY <1>1 DEF JoiningOK
<1>3. conn[c] = Rec("open", join[c].next, {})
  <2>1. NewCall("join", "createSavepoint", join[c].next - 1).by = "join"
    BY DEF NewCall
  <2>2. conn[c].inFlight # {NewCall("join", "createSavepoint", join[c].next - 1)}
    BY <2>1 DEF JoinReplayed, Answered
  <2>3. conn[c] # Rec("open", join[c].next - 1, {NewCall("join", "createSavepoint", join[c].next - 1)})
    BY <2>2 DEF Rec
  <2> QED BY <1>1, <2>3 DEF JoiningOK
<1>4. join[c].next \in 0..MaxDepth /\ join[c].next <= savepointDepth
  BY <1>1, <1>2, ConstantsAssumption DEF TypeOK
<1> QED BY <1>1, <1>2, <1>3, <1>4, JoinAdvances DEF JoinReplayed

\* JoinRejected keeps the invariant.
LEMMA JoinRejectedStep ==
    ASSUME IInv, ~Concurrent, NEW c \in Conns, JoinRejected(c)
    PROVE  IInv'
<1>1. TypeOK /\ ConnInv(c) /\ JoiningOK(c) /\ join[c].at = "begin" /\ <<"join", c>> \in rejected
      /\ rejected' = rejected \ {<<"join", c>>} /\ join' = [join EXCEPT ![c] = NotJoining]
      /\ known' = known /\ dirty' = dirty
  BY DEF IInv, ConnInv, JoinRejected
<1>2. conn[c] = Contract!IdleRecord /\ c \in activeConnections /\ c \in openConnections /\ c \notin dirty /\ c \notin todo
      /\ <<"driver", c>> \notin rejected /\ pc \in Sav \cup {"begin", "body", "early", "rejoin"}
      /\ (c = current => pc \in {"begin", "rejoin"})
  <2>1. conn[c] = Contract!IdleRecord /\ c \in activeConnections /\ c \in openConnections
        /\ pc \in Sav \cup {"begin", "body", "early", "rejoin"} /\ (c = current => pc \in {"begin", "rejoin"})
    BY <1>1 DEF JoiningOK
  <2>2. c \notin dirty
    BY <1>1, <2>1, IdleFields DEF ConnInv
  <2>3. c \notin todo
    BY <1>1 DEF IInv, DriverInv
  <2>4. <<"driver", c>> \notin rejected
    BY <1>1, <2>1 DEF ConnInv
  <2> QED BY <2>1, <2>2, <2>3, <2>4
<1>3. join' \in [Conns -> JoinState] /\ join'[c].at = "none" /\ \A x \in Conns : x # c => join'[x] = join[x]
  <2>1. NotJoining \in JoinState /\ NotJoining.at = "none"
    BY ConstantsAssumption DEF JoinState, NotJoining
  <2> QED BY <1>1, <2>1 DEF TypeOK
<1>4. CASE c = current
  <2>1. RollbackOpenConnections(openConnections \ {c}) /\ activeConnections' = activeConnections /\ \A x \in Conns : x # c => join[x].at = "none"
    BY <1>4 DEF JoinRejected, QuietBut
  <2>2. rejected' = {}
    <3>1. \A x \in Conns : <<"join", x>> \notin rejected' /\ <<"driver", x>> \notin rejected'
      BY <1>1, <1>2, <1>4, <2>1, Zenon DEF IInv, ConnInv, Sav, Contract!SavepointMethods
    <3>2. rejected' \in SUBSET (Contract!Callers \X Conns)
      BY <1>1 DEF TypeOK
    <3> QED BY <3>1, <3>2, NoRejection
  <2>3. inTransaction /\ openConnections \ {c} \in SUBSET known
    BY <1>2, <1>4 DEF IInv, PhaseInv, MemberInv
  <2>4. \A x \in Conns : join'[x].at = "none"
    BY <1>3, <2>1
  <2>5. ASSUME NEW x \in Conns
        PROVE  /\ x \in activeConnections \cap (openConnections \ {c}) => conn[x].inFlight = {} /\ conn[x].state # "idle"
               /\ x \in activeConnections \ (openConnections \ {c}) => conn[x] = Contract!IdleRecord
               /\ x \notin activeConnections => conn[x].inFlight = {}
               /\ x \notin known => conn[x] = Contract!IdleRecord
               /\ x \in dirty => x \in activeConnections /\ conn[x].state # "idle"
    <3>1. ConnInv(x)
      BY DEF IInv
    <3>2. CASE x = c
      BY <1>2, <3>1, <3>2 DEF ConnInv
    <3>3. CASE x # c
      <4>1. x \in activeConnections =>
              conn[x] = IF x \in openConnections THEN Rec("open", savepointDepth, {}) ELSE Contract!IdleRecord
        BY <1>2, <1>4, <2>1, <3>1, <3>3 DEF ConnInv, SettledOK, Sav, Contract!SavepointMethods
      <4> QED BY <3>1, <3>3, <4>1 DEF ConnInv, Rec
    <3> QED BY <3>2, <3>3
  <2> QED BY <1>1, <1>3, <2>1, <2>2, <2>3, <2>4, <2>5, RollbackStarts
<1>5. CASE c # current
  <2> USE DEF driver
  <2>1. openConnections' = openConnections \ {c} /\ activeConnections' = activeConnections \ {c}
        /\ UNCHANGED <<inTransaction, closingTransaction, savepointDepth, pc, todo, current, level, conn>>
    BY <1>5 DEF JoinRejected
  <2>2. PhaseInv'
    BY <2>1 DEF IInv, PhaseInv
  <2>3. DriverInv'
    <3>1. \A x \in todo' : join'[x].at = "none"
      BY <1>1, <1>2, <1>3, <2>1 DEF IInv, DriverInv, TypeOK
    <3> QED BY <1>2, <1>5, <2>1, <3>1 DEF IInv, DriverInv
  <2>4. MemberInv'
    BY <1>1, <1>2, <2>1 DEF IInv, MemberInv, Sav, Contract!SavepointMethods
  <2>5. TypeOK'
    BY <1>1, <1>3, <2>1 DEF TypeOK
  <2>6. ASSUME NEW x \in Conns, x # c PROVE ConnInv(x)'
    <3>1. conn'[x] = conn[x] /\ join'[x] = join[x]
      BY <1>3, <2>1, <2>6
    <3>2. (<<"join", x>> \in rejected' <=> <<"join", x>> \in rejected) /\ (<<"driver", x>> \in rejected' <=> <<"driver", x>> \in rejected)
      BY <1>1, <2>6
    <3> QED BY <1>1, <2>1, <2>6, <3>1, <3>2, ConnFrame DEF IInv
  <2>7. ConnInv(c)'
    <3>1. c \notin activeConnections' /\ <<"join", c>> \notin rejected' /\ <<"driver", c>> \notin rejected' /\ c \notin dirty'
          /\ conn'[c] = Contract!IdleRecord
      BY <1>1, <1>2, <2>1
    <3> QED BY <1>3, <3>1 DEF ConnInv, Contract!IdleRecord
  <2> QED BY <2>2, <2>3, <2>4, <2>5, <2>6, <2>7 DEF IInv
<1> QED BY <1>4, <1>5

-----------------------------------------------------------------------------
(* The settling of a call, and the theorems. *)

\* What a settled call leaves of a connection that had no other.
LEMMA BeginSettles ==
    ASSUME NEW by, NEW r, NEW resolved \in BOOLEAN, r.inFlight = {NewCall(by, "begin", 0)}
    PROVE  Contract!AfterSettle(r, NewCall(by, "begin", 0), resolved)
              = Rec(IF resolved THEN "open" ELSE r.state, r.depth, {})
  BY DEF NewCall, Rec, Contract!AfterSettle, Contract!StateAfter, Contract!DepthAfter, Contract!IdleRecord

\* The same for a commit, which leaves the connection open when it is rejected.
LEMMA CommitSettles ==
    ASSUME NEW by, NEW r, NEW resolved \in BOOLEAN, r.inFlight = {NewCall(by, "commit", 0)}
    PROVE  Contract!AfterSettle(r, NewCall(by, "commit", 0), resolved)
              = IF resolved THEN Contract!IdleRecord ELSE Rec("commit-failed", r.depth, {})
  BY DEF NewCall, Rec, Contract!AfterSettle, Contract!StateAfter, Contract!DepthAfter, Contract!IdleRecord

\* The same for a rollback, which leaves the connection idle either way.
LEMMA RollbackSettles ==
    ASSUME NEW by, NEW r, NEW resolved \in BOOLEAN, r.inFlight = {NewCall(by, "rollback", 0)}
    PROVE  Contract!AfterSettle(r, NewCall(by, "rollback", 0), resolved) = Contract!IdleRecord
  BY DEF NewCall, Rec, Contract!AfterSettle, Contract!StateAfter, Contract!DepthAfter, Contract!IdleRecord

\* Settling a call of c touches nothing but c.
LEMMA SettleFrame ==
    ASSUME IInv, NEW c \in Conns, UNCHANGED <<registry, manager, driver, join>>,
           NEW r \in Contract!Record, conn' = [conn EXCEPT ![c] = r],
           rejected' \subseteq Contract!Callers \X Conns,
           \A b \in Contract!Callers, x \in Conns : x # c => (<<b, x>> \in rejected' <=> <<b, x>> \in rejected),
           dirty' \subseteq dirty, ConnInv(c)'
    PROVE  IInv'
<1> USE DEF registry, manager, driver
<1>1. TypeOK'
  BY DEF IInv, TypeOK
<1>2. PhaseInv' /\ DriverInv' /\ MemberInv'
  BY DEF IInv, PhaseInv, DriverInv, MemberInv
<1>3. ASSUME NEW x \in Conns, x # c PROVE ConnInv(x)'
  <2>1. conn'[x] = conn[x]
    BY <1>3 DEF IInv, TypeOK
  <2>2. "join" \in Contract!Callers /\ "driver" \in Contract!Callers
    BY DEF Contract!Callers
  <2> QED BY <1>3, <2>1, <2>2, ConnFrame, Zenon DEF IInv
<1> QED BY <1>1, <1>2, <1>3 DEF IInv

\* The module settles a call: one case per phase that may have one unsettled.
LEMMA SettleStep ==
    ASSUME IInv, NEW c \in Conns, Settle(c)
    PROVE  IInv'
<1>1. PICK call \in conn[c].inFlight, resolved \in BOOLEAN :
        /\ resolved \/ call.method \in MayReject
        /\ conn' = [conn EXCEPT ![c] = Contract!AfterSettle(@, call, resolved)]
        /\ rejected' = IF resolved \/ call.method = "rollback" THEN rejected
                       ELSE rejected \cup {<<call.by, c>>}
        /\ dirty' = IF call.method = "rollback" \/ (call.method = "commit" /\ resolved)
                    THEN dirty \ {c} ELSE dirty
        /\ UNCHANGED <<registry, manager, driver, join>>
  BY Zenon DEF Settle
<1> DEFINE r == Contract!AfterSettle(conn[c], call, resolved)
<1>2. TypeOK /\ ConnInv(c) /\ conn' = [conn EXCEPT ![c] = r] /\ c \in activeConnections
      /\ UNCHANGED <<activeConnections, known, openConnections, inTransaction, closingTransaction, savepointDepth,
                     pc, todo, current, level, join>>
  BY <1>1 DEF IInv, ConnInv, registry, manager, driver
<1>3. call \in Contract!Call /\ savepointDepth \in 0..MaxDepth /\ level \in 0..MaxDepth /\ 0 \in 0..MaxDepth /\ conn'[c] = r
  BY <1>2, ConstantsAssumption DEF TypeOK, Contract!Record
<1>4. dirty' \subseteq dirty
  BY <1>1
<1>5. rejected' \subseteq Contract!Callers \X Conns
  <2>1. call.by \in Contract!Callers
    BY <1>3 DEF Contract!Call
  <2>2. rejected \subseteq Contract!Callers \X Conns
    BY <1>2 DEF TypeOK
  <2> QED BY <1>1, <2>1, <2>2
<1>6. \A b \in Contract!Callers, x \in Conns : x # c => (<<b, x>> \in rejected' <=> <<b, x>> \in rejected)
  BY <1>1
<1>7. SUFFICES r \in Contract!Record /\ ConnInv(c)'
  <2> HIDE DEF r
  <2> QED BY <1>1, <1>2, <1>4, <1>5, <1>6, SettleFrame, Zenon
<1> HIDE DEF r
<1>8. \A m \in Sav : m \notin MayReject /\ m # "rollback" /\ m # "commit"
  BY ConstantsAssumption DEF Sav, Contract!SavepointMethods
<1>9. CASE join[c].at # "none"
  <2>1. JoiningOK(c) /\ <<"driver", c>> \notin rejected
    BY <1>2, <1>9, Zenon DEF ConnInv, JoiningOK, Sav, Contract!SavepointMethods
  <2>2. CASE join[c].at = "begin"
    <3>1. conn[c] = Rec("idle", 0, {NewCall("join", "begin", 0)}) /\ <<"join", c>> \notin rejected
      BY <2>1, <2>2 DEF JoiningOK, Rec, Contract!IdleRecord
    <3>2. conn[c].inFlight = {NewCall("join", "begin", 0)} /\ conn[c].state = "idle" /\ conn[c].depth = 0 /\ call = NewCall("join", "begin", 0)
      BY <3>1 DEF Rec
    <3>3. "begin" \in Contract!Methods
      BY DEF Contract!Methods
    <3>4. r = IF resolved THEN Rec("open", 0, {}) ELSE Contract!IdleRecord
      <4>1. r = Rec(IF resolved THEN "open" ELSE conn[c].state, conn[c].depth, {})
        BY <3>2, BeginSettles DEF r
      <4> QED BY <3>2, <4>1 DEF Rec, Contract!IdleRecord
    <3>5. rejected' = (IF resolved THEN rejected ELSE rejected \cup {<<"join", c>>}) /\ dirty' = dirty /\ c \notin dirty
      <4>1. call.by = "join" /\ call.method = "begin"
        BY <3>2 DEF NewCall
      <4>2. c \notin dirty
        BY <1>2, <3>2, Zenon DEF ConnInv
      <4> QED BY <1>1, <4>1, <4>2
    <3>6. r \in Contract!Record
      BY <1>3, <3>4, RecType, IdleType
    <3>7. JoiningOK(c)'
      BY <1>2, <1>3, <2>1, <2>2, <3>1, <3>4, <3>5 DEF JoiningOK
    <3>8. <<"driver", c>> \notin rejected'
      BY <2>1, <3>5
    <3> QED BY <1>2, <2>2, <3>5, <3>6, <3>7, <3>8, Zenon DEF ConnInv, TypeOK
  <2>3. CASE join[c].at = "replay"
    <3>1. /\ conn[c] = Rec("open", join[c].next - 1, {NewCall("join", "createSavepoint", join[c].next - 1)})
          /\ <<"join", c>> \notin rejected /\ join[c].next \in 1..savepointDepth
      <4>1. conn[c] # Rec("open", join[c].next, {})
        BY RecFields
      <4> QED BY <2>1, <2>3, <4>1, Zenon DEF JoiningOK
    <3> DEFINE d == join[c].next - 1
    <3>2. d \in 0..MaxDepth /\ d + 1 = join[c].next /\ join[c].next \in 0..MaxDepth
      <4>1. join[c].next \in 1..savepointDepth /\ savepointDepth \in 0..MaxDepth
        BY <1>3, <3>1
      <4> QED BY <4>1, ConstantsAssumption
    <3> HIDE DEF d
    <3>3. conn[c].inFlight = {NewCall("join", "createSavepoint", d)} /\ conn[c].state = "open" /\ call = NewCall("join", "createSavepoint", d)
      <4>1. conn[c] = Rec("open", d, {NewCall("join", "createSavepoint", d)})
        BY <3>1 DEF d
      <4> QED BY <4>1, RecFields
    <3>4. "createSavepoint" \in Contract!Methods /\ "createSavepoint" \in Sav
      BY DEF Contract!Methods, Sav, Contract!SavepointMethods
    <3>5. resolved
      <4>1. call.method = "createSavepoint"
        BY <3>3, CallFields
      <4> QED BY <1>1, <1>8, <3>4, <4>1
    <3>6. r = Rec("open", join[c].next, {})
      <4>1. resolved = TRUE
        BY <3>5
      <4>2. Contract!AfterSettle(conn[c], NewCall("join", "createSavepoint", d), resolved) = Rec(conn[c].state, d + 1, {})
        BY <3>3, <4>1 DEF NewCall, Rec, Sav, Contract!SavepointMethods, Contract!AfterSettle,
           Contract!StateAfter, Contract!DepthAfter
      <4> QED BY <3>2, <3>3, <4>2 DEF r
    <3>7. rejected' = rejected /\ dirty' = dirty
      <4>1. call.method = "createSavepoint"
        BY <3>3, CallFields
      <4> QED BY <1>1, <3>5, <4>1
    <3>8. r \in Contract!Record
      BY <3>2, <3>6, RecType
    <3>9. JoiningOK(c)'
      BY <1>2, <1>3, <2>1, <2>3, <3>1, <3>6, <3>7 DEF JoiningOK
    <3> QED BY <1>2, <1>3, <2>1, <2>3, <3>1, <3>6, <3>7, <3>8, <3>9, Zenon DEF ConnInv, TypeOK, Rec
  <2> QED BY <2>1, <2>2, <2>3 DEF JoiningOK
<1>10. CASE join[c].at = "none"
  <2>1. SettledOK(c) /\ conn[c].inFlight # {} /\ <<"join", c>> \notin rejected
    BY <1>2, <1>10 DEF ConnInv
  <2>2. CASE pc \in Sav /\ c = current
    <3>1. conn[c].state = "open" /\ conn[c].inFlight = {NewCall("driver", pc, level)} /\ call = NewCall("driver", pc, level)
      BY <2>1, <2>2 DEF SettledOK, Rec, Sav, Contract!SavepointMethods
    <3>2. resolved /\ rejected' = rejected /\ dirty' = dirty
      <4>1. call.method = pc
        BY <3>1, CallFields
      <4> QED BY <1>1, <1>8, <2>2, <4>1
    <3>3. savepointDepth = IF pc = "releaseSavepoint" THEN level ELSE level + 1
      BY <2>2 DEF IInv, PhaseInv, Sav, Contract!SavepointMethods
    <3>4. pc \in Contract!Methods
      BY <2>2 DEF Contract!Methods, Sav
    <3>5. r = Rec("open", savepointDepth, {})
      <4>1. resolved = TRUE
        BY <3>2
      <4>2. Contract!AfterSettle(conn[c], NewCall("driver", pc, level), resolved) = Rec(conn[c].state, savepointDepth, {})
        BY <2>2, <3>1, <3>3, <4>1 DEF NewCall, Rec, Sav, Contract!SavepointMethods, Contract!AfterSettle,
           Contract!StateAfter, Contract!DepthAfter
      <4> QED BY <3>1, <4>2 DEF r
    <3>6. r \in Contract!Record
      BY <1>3, <3>5, RecType
    <3>7. SettledOK(c)'
      <4>1. pc' \in Sav /\ c = current' /\ conn'[c] = Rec("open", savepointDepth', {}) /\ c \notin todo'
        BY <1>2, <1>3, <2>2, <3>5, Zenon DEF IInv, DriverInv
      <4> QED BY <4>1 DEF SettledOK, Sav, Contract!SavepointMethods
    <3> QED BY <1>2, <1>3, <1>10, <3>2, <3>5, <3>6, <3>7 DEF ConnInv, TypeOK, Rec
  <2>3. CASE pc \in {"commit", "early"} /\ c = current
    <3>1. conn[c] = Rec("open", savepointDepth, {NewCall("driver", "commit", 0)}) /\ <<"driver", c>> \notin rejected
      BY <2>1, <2>3 DEF SettledOK, Rec, Contract!IdleRecord, Sav, Contract!SavepointMethods
    <3>2. conn[c].inFlight = {NewCall("driver", "commit", 0)} /\ conn[c].depth = savepointDepth /\ call = NewCall("driver", "commit", 0)
      BY <3>1, RecFields
    <3>3. "commit" \in Contract!Methods
      BY DEF Contract!Methods
    <3>4. r = IF resolved THEN Contract!IdleRecord ELSE Rec("commit-failed", savepointDepth, {})
      <4>1. r = IF resolved THEN Contract!IdleRecord ELSE Rec("commit-failed", conn[c].depth, {})
        BY <3>2, CommitSettles DEF r
      <4> QED BY <3>2, <4>1
    <3>5. rejected' = (IF resolved THEN rejected ELSE rejected \cup {<<"driver", c>>})
          /\ dirty' = IF resolved THEN dirty \ {c} ELSE dirty
      <4>1. call.by = "driver" /\ call.method = "commit"
        BY <3>2 DEF NewCall
      <4> QED BY <1>1, <4>1
    <3>6. r \in Contract!Record
      BY <1>3, <3>4, RecType, IdleType
    <3>7. SettledOK(c)'
      BY <1>2, <1>3, <2>3, <3>1, <3>4, <3>5 DEF SettledOK, Sav, Contract!SavepointMethods
    <3>8. c \in dirty' => conn'[c].state # "idle"
      BY <1>3, <3>4, <3>5, RecFields
    <3>9. <<"join", c>> \notin rejected'
      BY <2>1, <3>5
    <3> QED BY <1>2, <1>10, <2>3, <3>6, <3>7, <3>8, <3>9, Zenon DEF ConnInv, TypeOK
  <2>4. CASE pc = "rollback" /\ c \in todo
    <3>1. conn[c].inFlight = {NewCall("driver", "rollback", 0)} /\ call = NewCall("driver", "rollback", 0)
      BY <2>1, <2>4 DEF SettledOK, Contract!IdleRecord, Sav, Contract!SavepointMethods
    <3>2. "rollback" \in Contract!Methods
      BY DEF Contract!Methods
    <3>3. r = Contract!IdleRecord
      BY <3>1, RollbackSettles DEF r
    <3>4. rejected' = rejected /\ c \notin dirty'
      <4>1. call.method = "rollback"
        BY <3>1, CallFields
      <4> QED BY <1>1, <4>1
    <3>5. r \in Contract!Record
      BY <3>3, IdleType
    <3>6. SettledOK(c)'
      BY <1>2, <1>3, <2>4, <3>3 DEF SettledOK, Sav, Contract!SavepointMethods
    <3> QED BY <1>2, <1>3, <1>10, <2>4, <3>3, <3>4, <3>5, <3>6 DEF ConnInv, TypeOK
  <2>5. CASE ~(pc \in Sav /\ c = current) /\ ~(pc \in {"commit", "early"} /\ c = current) /\ ~(pc = "rollback" /\ c \in todo)
    BY <2>1, <2>5 DEF SettledOK, Rec, Contract!IdleRecord
  <2> QED BY <2>2, <2>3, <2>4, <2>5
<1> QED BY <1>9, <1>10

\* The invariant holds before the first connection registers.
LEMMA InitIInv ==
    ASSUME Init
    PROVE  IInv
<1> USE DEF Init
<1>1. TypeOK
  <2>1. 0 \in 0..MaxDepth
    BY ConstantsAssumption
  <2>2. NotJoining \in JoinState /\ Contract!IdleRecord \in Contract!Record
    BY <2>1 DEF NotJoining, JoinState, Contract!IdleRecord, Contract!Record
  <2> QED BY <2>1, <2>2, Zenon DEF TypeOK, PC
<1>2. PhaseInv /\ DriverInv /\ MemberInv
  BY DEF PhaseInv, DriverInv, MemberInv, Sav, Contract!SavepointMethods
<1>3. \A c \in Conns : ConnInv(c)
  BY Zenon DEF ConnInv, NotJoining, Contract!IdleRecord
<1> QED BY <1>1, <1>2, <1>3 DEF IInv

\* Every step of a driver that waits for unfinished registrations keeps the invariant.
LEMMA StepIInv ==
    ASSUME IInv, ~Concurrent, [Next]_vars
    PROVE  IInv'
<1>1. CASE DriverStep
  BY <1>1, BeginNextStep, DriverJoinedStep, BeginDoneStep, BroadcastAnsweredStep, ChecksPassedStep, ChecksRefusedStep,
     ConnectionCommittedStep, ConnectionCommitRejectedStep, RollbackDoneStep, EarlyCommittedStep, EarlyCommitRejectedStep
     DEF DriverStep
<1>2. ASSUME NEW c \in Conns, JoinStep(c) PROVE IInv'
  BY <1>2, JoinBegunStep, JoinReplayedStep, JoinRejectedStep DEF JoinStep
<1>3. ASSUME NEW c \in Conns,
             RegisterConnection(c) \/ Settle(c) \/ Write(c) \/ RemoveConnection(c) \/ CommitConnectionEarly(c)
      PROVE  IInv'
  BY <1>3, RegisterConnectionStep, SettleStep, WriteStep, RemoveConnectionStep, CommitConnectionEarlyStep
<1>4. CASE BeginTransaction \/ CommitTransaction \/ RollbackTransaction
  BY <1>4, BeginTransactionStep, CommitTransactionStep, RollbackTransactionStep
<1>5. CASE CreateSavepointBroadcast \/ ReleaseSavepointBroadcast \/ RollbackToSavepointBroadcast
  BY <1>5, CreateSavepointBroadcastStep, ReleaseSavepointBroadcastStep, RollbackToSavepointBroadcastStep
<1>6. CASE UNCHANGED vars
  <2>1. TypeOK' /\ PhaseInv' /\ DriverInv' /\ MemberInv'
    BY <1>6 DEF IInv, TypeOK, PhaseInv, DriverInv, MemberInv, vars, registry, manager, driver
  <2>2. \A c \in Conns : ConnInv(c)'
    BY <1>6, ConnFrame DEF IInv, vars, registry, manager, driver
  <2> QED BY <2>1, <2>2 DEF IInv
<1> QED BY <1>1, <1>2, <1>3, <1>4, <1>5, <1>6 DEF Next

\* In every state of the invariant a connection has at most one unsettled call, and that
\* call is one the contract allows where the connection stands.
CallsLegal ==
    \A c \in Conns : \A call \in conn[c].inFlight :
        conn[c].inFlight = {call} /\ Contract!Legal(conn[c], call)

\* The invariant gives it.
LEMMA CallsAreLegal ==
    ASSUME IInv
    PROVE  CallsLegal
<1> SUFFICES ASSUME NEW c \in Conns, NEW call \in conn[c].inFlight
             PROVE  conn[c].inFlight = {call} /\ Contract!Legal(conn[c], call)
  BY DEF CallsLegal
<1> USE DEF Sav, Contract!SavepointMethods
<1>1. ConnInv(c) /\ c \in activeConnections /\ conn[c] \in Contract!Record /\ TypeOK
  BY DEF IInv, ConnInv, TypeOK
<1>2. CASE join[c].at # "none"
  <2>1. \/ conn[c] = Rec("idle", 0, {NewCall("join", "begin", 0)})
        \/ conn[c] = Rec("open", join[c].next - 1, {NewCall("join", "createSavepoint", join[c].next - 1)})
    BY <1>1, <1>2, SMTT(30) DEF ConnInv, JoiningOK, Rec, Contract!IdleRecord
  <2> QED BY <2>1 DEF Rec, NewCall, Contract!Legal
<1>3. CASE join[c].at = "none"
  <2>1. SettledOK(c) /\ conn[c].inFlight # {}
    BY <1>1, <1>3 DEF ConnInv
  <2>2. CASE pc \in Sav /\ c = current
    <3>1. conn[c].state = "open" /\ conn[c].inFlight = {NewCall("driver", pc, level)} /\ UntoldDepth(conn[c].depth)
      BY <2>1, <2>2 DEF SettledOK, Rec
    <3>2. conn[c].depth \in Nat /\ level \in Nat
      BY <1>1, ConstantsAssumption DEF Contract!Record, TypeOK
    <3> QED BY <2>2, <3>1, <3>2 DEF NewCall, Contract!Legal, Contract!HoldsDepth, UntoldDepth
  <2>3. CASE pc \in {"commit", "early"} /\ c = current
    <3>1. conn[c] = Rec("open", savepointDepth, {NewCall("driver", "commit", 0)})
      BY <2>1, <2>3 DEF SettledOK, Rec, Contract!IdleRecord
    <3> QED BY <3>1 DEF Rec, NewCall, Contract!Legal
  <2>4. CASE pc = "rollback" /\ c \in todo
    <3>1. conn[c].state # "idle" /\ conn[c].inFlight = {NewCall("driver", "rollback", 0)}
      BY <2>1, <2>4 DEF SettledOK, Contract!IdleRecord
    <3> QED BY <3>1 DEF NewCall, Contract!Legal
  <2>5. CASE ~(pc \in Sav /\ c = current) /\ ~(pc \in {"commit", "early"} /\ c = current) /\ ~(pc = "rollback" /\ c \in todo)
    BY <2>1, <2>5 DEF SettledOK, Rec, Contract!IdleRecord
  <2> QED BY <2>2, <2>3, <2>4, <2>5
<1> QED BY <1>2, <1>3

\* A step does one of three things to a connection: nothing, issue a call, settle one.
OneThing(c) ==
    \/ conn'[c] = conn[c]
    \/ \E call \in Contract!Call : conn'[c] = Contract!AfterIssue(conn[c], call)
    \/ \E call \in conn[c].inFlight, resolved \in BOOLEAN :
         conn'[c] = Contract!AfterSettle(conn[c], call, resolved)

\* Called issues one call on one connection.
LEMMA CalledIsOneThing ==
    ASSUME TypeOK, NEW c \in Conns, NEW by \in Contract!Callers, NEW method \in Contract!Methods, NEW d \in 0..MaxDepth,
           conn' = Called(c, by, method, d), NEW x \in Conns
    PROVE  OneThing(x)
<1>1. NewCall(by, method, d) \in Contract!Call
  BY DEF NewCall, Contract!Call
<1>2. conn'[x] = IF x = c THEN Contract!AfterIssue(conn[c], NewCall(by, method, d)) ELSE conn[x]
  BY DEF Called, TypeOK
<1> QED BY <1>1, <1>2 DEF OneThing

\* rollbackOpenConnections issues at most one call on each connection.
LEMMA RollbackIsOneThing ==
    ASSUME TypeOK, NEW open, RollbackOpenConnections(open), NEW x \in Conns
    PROVE  OneThing(x)
<1>1. NewCall("driver", "rollback", 0) \in Contract!Call
  BY ConstantsAssumption DEF NewCall, Contract!Call, Contract!Callers, Contract!Methods
<1> QED BY <1>1 DEF OneThing, RollbackOpenConnections

\* Every step of the specification does one thing to each connection.
LEMMA NextIsOneThing ==
    ASSUME TypeOK, [Next]_vars, NEW x \in Conns
    PROVE  OneThing(x)
<1>1. "driver" \in Contract!Callers /\ "join" \in Contract!Callers /\ Contract!Methods = {"begin", "commit", "rollback"} \cup Sav
      /\ Sav = {"createSavepoint", "releaseSavepoint", "rollbackToSavepoint"} /\ 0 \in 0..MaxDepth
  BY ConstantsAssumption DEF Contract!Callers, Contract!Methods, Sav, Contract!SavepointMethods
<1>2. UNCHANGED conn => OneThing(x)
  BY DEF OneThing
<1>3. ASSUME NEW c \in Conns, StartJoin(c) PROVE OneThing(x)
  BY <1>1, <1>3, CalledIsOneThing DEF StartJoin
<1>4. ASSUME NEW c \in Conns, NEW n \in 0..MaxDepth, NEW limit, ReplaySavepoints(c, n, limit) PROVE OneThing(x)
  BY <1>1, <1>2, <1>4, CalledIsOneThing DEF ReplaySavepoints
<1>5. ASSUME NEW open, NEW participants \in SUBSET Conns, CommitNext(open, participants) PROVE OneThing(x)
  BY <1>1, <1>2, <1>5, CalledIsOneThing DEF CommitNext
<1>6. ASSUME NEW method \in Sav, NEW d \in 0..MaxDepth, NEW rest \in SUBSET Conns, BroadcastNext(method, d, rest) PROVE OneThing(x)
  BY <1>1, <1>2, <1>6, CalledIsOneThing DEF BroadcastNext
<1>7. activeConnections \in SUBSET Conns /\ todo \in SUBSET Conns /\ level \in 0..MaxDepth /\ savepointDepth \in 0..MaxDepth
  BY DEF TypeOK
<1>8. CASE DriverStep
  <2>1. ASSUME NEW c \in Conns, BeginNext(c) PROVE OneThing(x)
    BY <1>2, <1>3, <2>1 DEF BeginNext
  <2>2. CASE DriverJoined \/ BeginDone \/ RollbackDone
    BY <1>2, <2>2 DEF DriverJoined, BeginDone, RollbackDone
  <2>3. CASE BroadcastAnswered
    BY <1>6, <1>7, <2>3 DEF BroadcastAnswered, Sav
  <2>4. CASE ChecksPassed
    BY <1>5, <1>7, <2>4 DEF ChecksPassed
  <2>5. CASE ConnectionCommitted
    BY <1>5, <1>7, <2>5 DEF ConnectionCommitted
  <2>6. CASE ChecksRefused \/ ConnectionCommitRejected \/ EarlyCommitRejected
    BY <2>6, RollbackIsOneThing DEF ChecksRefused, ConnectionCommitRejected, EarlyCommitRejected
  <2>7. CASE EarlyCommitted
    <3>1. CASE current \in Conns
      BY <1>3, <2>7, <3>1 DEF EarlyCommitted
    <3>2. CASE current \notin Conns
      <4>1. conn' = conn
        BY <2>7, <3>2 DEF EarlyCommitted, StartJoin, Called, TypeOK
      <4> QED BY <1>2, <4>1
    <3> QED BY <3>1, <3>2
  <2> QED BY <1>8, <2>1, <2>2, <2>3, <2>4, <2>5, <2>6, <2>7 DEF DriverStep
<1>9. ASSUME NEW c \in Conns, JoinStep(c) PROVE OneThing(x)
  <2>1. CASE JoinBegun(c)
    BY <1>1, <1>4, <2>1 DEF JoinBegun
  <2>2. CASE JoinReplayed(c)
    <3>1. join[c].next \in 0..MaxDepth
      BY DEF TypeOK, JoinState
    <3> QED BY <1>4, <2>2, <3>1 DEF JoinReplayed
  <2>3. CASE JoinRejected(c)
    BY <1>2, <2>3, RollbackIsOneThing DEF JoinRejected
  <2> QED BY <1>9, <2>1, <2>2, <2>3 DEF JoinStep
<1>10. ASSUME NEW c \in Conns, Settle(c) PROVE OneThing(x)
  BY <1>10 DEF Settle, OneThing, TypeOK
<1>11. ASSUME NEW c \in Conns, RegisterConnection(c) PROVE OneThing(x)
  BY <1>2, <1>3, <1>11 DEF RegisterConnection
<1>12. ASSUME NEW c \in Conns, Write(c) \/ RemoveConnection(c) PROVE OneThing(x)
  BY <1>2, <1>12 DEF Write, RemoveConnection
<1>13. ASSUME NEW c \in Conns, CommitConnectionEarly(c) PROVE OneThing(x)
  BY <1>1, <1>13, CalledIsOneThing DEF CommitConnectionEarly
<1>14. CASE BeginTransaction \/ CommitTransaction \/ UNCHANGED vars
  BY <1>2, <1>14 DEF BeginTransaction, CommitTransaction, vars
<1>15. CASE RollbackTransaction
  BY <1>15, RollbackIsOneThing DEF RollbackTransaction
<1>16. CASE CreateSavepointBroadcast \/ ReleaseSavepointBroadcast \/ RollbackToSavepointBroadcast
  BY <1>1, <1>6, <1>7, <1>16
     DEF CreateSavepointBroadcast, ReleaseSavepointBroadcast, RollbackToSavepointBroadcast, Broadcast
<1> QED BY <1>8, <1>9, <1>10, <1>11, <1>12, <1>13, <1>14, <1>15, <1>16 DEF Next

\* A step from the invariant is a step of the connection contract: the call it issues is
\* the only unsettled one afterwards, so there was none before, and it is legal.
LEMMA StepIsLawful ==
    ASSUME IInv, CallsLegal', [Next]_vars
    PROVE  [Contract!ContractNext]_conn
<1> SUFFICES ASSUME NEW x \in Conns PROVE Contract!ConnectionStep(conn[x], conn'[x])
  BY DEF Contract!ContractNext
<1>1. OneThing(x)
  BY NextIsOneThing DEF IInv
<1>2. ASSUME NEW call \in Contract!Call, conn'[x] = Contract!AfterIssue(conn[x], call)
      PROVE  Contract!ConnectionStep(conn[x], conn'[x])
  <2>1. conn'[x].inFlight = conn[x].inFlight \cup {call} /\ conn'[x].state = conn[x].state /\ conn'[x].depth = conn[x].depth
    BY <1>2 DEF Contract!AfterIssue
  <2>2. conn'[x].inFlight = {call} /\ Contract!Legal(conn'[x], call)
    BY <2>1 DEF CallsLegal
  <2>3. CASE conn[x].inFlight = {}
    BY <1>2, <2>1, <2>2, <2>3 DEF Contract!ConnectionStep, Contract!MayIssue, Contract!Legal, Contract!HoldsDepth
  <2>4. CASE conn[x].inFlight # {}
    <3>1. conn[x].inFlight = {call}
      BY <2>1, <2>2, <2>4
    <3>2. conn'[x] = conn[x]
      BY <1>2, <3>1 DEF Contract!AfterIssue, IInv, TypeOK, Contract!Record
    <3> QED BY <3>2 DEF Contract!ConnectionStep
  <2> QED BY <2>3, <2>4
<1> QED BY <1>1, <1>2 DEF OneThing, Contract!ConnectionStep

\* A connection that has left the registry does not come back.
LEMMA RemovedStaysOut ==
    ASSUME TypeOK, [Next]_vars, NEW c \in known \ activeConnections
    PROVE  c \notin activeConnections'
<1> USE DEF registry, manager
<1>1. CASE DriverStep
  BY <1>1 DEF DriverStep, BeginNext, DriverJoined, BeginDone, BroadcastAnswered, ChecksPassed, ChecksRefused,
     ConnectionCommitted, ConnectionCommitRejected, RollbackDone, EarlyCommitted, EarlyCommitRejected
<1>2. ASSUME NEW x \in Conns, JoinStep(x) PROVE c \notin activeConnections'
  BY <1>2, Zenon DEF JoinStep, JoinBegun, JoinReplayed, JoinRejected
<1>3. ASSUME NEW x \in Conns,
             RegisterConnection(x) \/ Settle(x) \/ Write(x) \/ RemoveConnection(x) \/ CommitConnectionEarly(x)
      PROVE  c \notin activeConnections'
  BY <1>3 DEF RegisterConnection, Settle, Write, RemoveConnection, CommitConnectionEarly
<1>4. CASE \/ BeginTransaction \/ CommitTransaction \/ RollbackTransaction
           \/ CreateSavepointBroadcast \/ ReleaseSavepointBroadcast \/ RollbackToSavepointBroadcast \/ UNCHANGED vars
  BY <1>4 DEF BeginTransaction, CommitTransaction, RollbackTransaction, CreateSavepointBroadcast,
     ReleaseSavepointBroadcast, RollbackToSavepointBroadcast, Broadcast, vars
<1> QED BY <1>1, <1>2, <1>3, <1>4 DEF Next

\* The inductive invariant, for any number of connections, any depth of savepoints and any
\* calls a module may reject, of a driver that waits for unfinished registrations.
THEOREM Invariance ==
    ASSUME ~Concurrent
    PROVE  Spec => []IInv
<1>1. Init => IInv
  BY InitIInv
<1>2. IInv /\ [Next]_vars => IInv'
  BY StepIInv
<1> QED BY <1>1, <1>2, PTL DEF Spec

\* The state keeps its type (TypeOK): among others, no savepoint depth the engine or a
\* connection holds exceeds the bound.
THEOREM TypeCorrect ==
    ASSUME ~Concurrent
    PROVE  Spec => []TypeOK
<1>1. IInv => TypeOK
  BY DEF IInv
<1> QED BY <1>1, Invariance, PTL

\* No two calls are in flight on one connection (NeverOverlap).
THEOREM CallsNeverOverlap ==
    ASSUME ~Concurrent
    PROVE  Spec => []NeverOverlap
<1>1. IInv => NeverOverlap
  BY CallsAreLegal DEF NeverOverlap, CallsLegal
<1> QED BY <1>1, Invariance, PTL

\* Outside a transaction no connection has one of its own left open.
LEMMA NoneOpenInAutocommit ==
    ASSUME ~Concurrent
    PROVE  IInv => IdleInAutocommit
<1> SUFFICES ASSUME IInv, pc = "none", NEW c \in activeConnections PROVE conn[c] = Contract!IdleRecord
  BY DEF IdleInAutocommit
<1>1. \A x \in Conns : join[x].at = "none"
  BY NoJoinWhileClosing, Zenon
<1>2. openConnections = {}
  BY DEF IInv, MemberInv
<1> QED BY <1>1, <1>2, Resting

\* The same in every reachable state (IdleInAutocommit).
THEOREM AutocommitIsIdle ==
    ASSUME ~Concurrent
    PROVE  Spec => []IdleInAutocommit
<1>1. IInv => IdleInAutocommit
  BY NoneOpenInAutocommit
<1> QED BY <1>1, Invariance, PTL

\* Every connection that is not just joining has the engine's savepoint depth
\* (SavepointLockstep).
THEOREM SavepointsInLockstep ==
    ASSUME ~Concurrent
    PROVE  Spec => []SavepointLockstep
<1>1. IInv => SavepointLockstep
  <2> SUFFICES ASSUME IInv, pc = "body", NEW c \in activeConnections, join[c].at = "none"
               PROVE  conn[c].state = "open" /\ conn[c].depth = savepointDepth
    BY DEF SavepointLockstep
  <2>1. c \in openConnections /\ SettledOK(c)
    BY Zenon DEF IInv, MemberInv, ConnInv, TypeOK
  <2> QED BY <2>1 DEF SettledOK, Rec, Sav, Contract!SavepointMethods
<1> QED BY <1>1, Invariance, PTL

\* What a connection wrote in a transaction is committed or rolled back by its end
\* (EveryWriteSettled).
THEOREM WritesAreSettled ==
    ASSUME ~Concurrent
    PROVE  Spec => []EveryWriteSettled
<1>1. IInv => EveryWriteSettled
  <2> SUFFICES ASSUME IInv, ~inTransaction, NEW c \in dirty PROVE FALSE
    BY DEF EveryWriteSettled
  <2>1. pc = "none" /\ c \in Conns
    BY DEF IInv, PhaseInv, TypeOK
  <2>2. conn[c] = Contract!IdleRecord
    BY NoneOpenInAutocommit, <2>1, Zenon DEF IInv, ConnInv, IdleInAutocommit
  <2>3. conn[c].state # "idle"
    BY <2>1, Zenon DEF IInv, ConnInv
  <2> QED BY <2>2, <2>3, IdleFields, Zenon
<1> QED BY <1>1, Invariance, PTL

\* For such a driver the manager's calls on every connection follow the contract of
\* vtab/connection.ts (invariant TXN-001): the specification implements it.
THEOREM ContractHonoured ==
    ASSUME ~Concurrent
    PROVE  Spec => HonoursContract
<1>1. Init => Contract!ContractInit
  BY DEF Init, Contract!ContractInit
<1>2. IInv => CallsLegal
  BY CallsAreLegal
<1>3. IInv /\ CallsLegal' /\ [Next]_vars => [Contract!ContractNext]_conn
  BY StepIsLawful
<1> QED BY <1>1, <1>2, <1>3, Invariance, PTL DEF Spec, HonoursContract, Contract!ContractSpec

\* For such a driver no step calls a connection that has been taken out of the registry.
THEOREM RemovedNeverCalled ==
    ASSUME ~Concurrent
    PROVE  Spec => NoCallAfterRemoval
<1>1. IInv' => \A c \in Conns : c \notin activeConnections' => conn'[c].inFlight = {}
  BY Zenon DEF IInv, ConnInv
<1>2. ASSUME IInv, IInv', [Next]_vars
      PROVE  \A c \in known \ activeConnections : conn'[c].inFlight \subseteq conn[c].inFlight
  BY <1>1, <1>2, RemovedStaysOut DEF IInv, TypeOK
<1> QED BY <1>2, Invariance, PTL DEF Spec, NoCallAfterRemoval
=============================================================================
