------------------------- MODULE TransactionManager -------------------------
(***************************************************************************)
(* How the engine takes its virtual-table connections through a            *)
(* transaction: registration, begin, savepoint broadcasts, early commit,   *)
(* coordinated commit, rollback (core/database-transaction.ts and the      *)
(* broadcasts and the registry of core/database.ts).                       *)
(*                                                                         *)
(* The driver is the one statement that holds the execution mutex.  Every  *)
(* call on a connection is asynchronous: the engine issues it in one step, *)
(* the module settles it in another, and the code after the await is a     *)
(* third.  registerConnection runs as a task of its own per connection     *)
(* (`join'), because a statement may open a table while it does other      *)
(* work.  Loops over connections visit them in any order.                  *)
(***************************************************************************)
EXTENDS Naturals

CONSTANTS
    Conns,       \* connections that may be registered
    NoConn,      \* "no connection awaited"
    MaxDepth,    \* bound: savepoints open at once
    MayReject,   \* the calls a module may reject
    Concurrent   \* whether the driver goes on while a registration is unfinished

ASSUME ConstantsAssumption ==
    /\ NoConn \notin Conns
    /\ MaxDepth \in Nat
    /\ MayReject \subseteq {"begin", "commit", "rollback"}
    /\ Concurrent \in BOOLEAN

VARIABLES
    activeConnections,   \* the registry
    openConnections,     \* connections begun and not yet committed or rolled back
    inTransaction,
    closingTransaction,
    savepointDepth,      \* savepointStack.length
    pc,                  \* what the driver is doing
    todo,                \* connections the driver's loop still has to visit or await
    current,             \* the connection the driver awaits
    level,               \* the depth a savepoint broadcast is about
    join,                \* per connection: where its joinConnection stands
    conn,                \* per connection: its state and its unsettled calls
    rejected,            \* who has a rejection to handle, on which connection
    known,               \* connections registered so far (an object registers once)
    dirty                \* connections holding rows neither committed nor rolled back

registry == <<activeConnections, known>>
manager == <<openConnections, inTransaction, closingTransaction, savepointDepth>>
driver == <<pc, todo, current, level>>
vars == <<registry, manager, driver, join, conn, rejected, dirty>>

Contract == INSTANCE ConnectionContract WITH record <- conn

NotJoining == [at |-> "none", next |-> 0, limit |-> 0]
JoinState == [at : {"none", "begin", "replay"}, next : 0..MaxDepth, limit : 0..MaxDepth]
PC == {"none", "begin", "body", "checks", "commit", "rollback", "early", "rejoin"}
        \cup Contract!SavepointMethods

TypeOK ==
    /\ activeConnections \subseteq known /\ known \subseteq Conns
    /\ openConnections \subseteq Conns
    /\ inTransaction \in BOOLEAN /\ closingTransaction \in BOOLEAN
    /\ savepointDepth \in 0..MaxDepth /\ level \in 0..MaxDepth
    /\ pc \in PC
    /\ todo \subseteq Conns /\ current \in Conns \cup {NoConn}
    /\ join \in [Conns -> JoinState]
    /\ conn \in [Conns -> Contract!Record]
    /\ rejected \subseteq Contract!Callers \X Conns
    /\ dirty \subseteq Conns

Init ==
    /\ activeConnections = {} /\ known = {}
    /\ openConnections = {}
    /\ inTransaction = FALSE /\ closingTransaction = FALSE
    /\ savepointDepth = 0 /\ level = 0
    /\ pc = "none" /\ todo = {} /\ current = NoConn
    /\ join = [c \in Conns |-> NotJoining]
    /\ conn = [c \in Conns |-> Contract!IdleRecord]
    /\ rejected = {}
    /\ dirty = {}

-----------------------------------------------------------------------------
\* Calls.

NewCall(by, method, d) == [by |-> by, method |-> method, depth |-> d]
Called(c, by, method, d) == [conn EXCEPT ![c] = Contract!AfterIssue(@, NewCall(by, method, d))]

\* The call `by' made on c has settled.
Answered(by, c) == \A call \in conn[c].inFlight : call.by # by

\* The module settles a call.  A rejected rollback is logged and forgotten.
Settle(c) ==
    \E call \in conn[c].inFlight, resolved \in BOOLEAN :
        /\ resolved \/ call.method \in MayReject
        /\ conn' = [conn EXCEPT ![c] = Contract!AfterSettle(@, call, resolved)]
        /\ rejected' = IF resolved \/ call.method = "rollback" THEN rejected
                       ELSE rejected \cup {<<call.by, c>>}
        /\ dirty' = IF call.method = "rollback" \/ (call.method = "commit" /\ resolved)
                    THEN dirty \ {c} ELSE dirty
        /\ UNCHANGED <<registry, manager, driver, join>>

-----------------------------------------------------------------------------
\* Registration.

\* No registration is unfinished, except perhaps that of c.
QuietBut(c) == \A o \in Conns \ {c} : join[o].at = "none"

\* The driver's next call comes after every registration it started has finished,
\* unless the statement runs them concurrently.
CanProceed == Concurrent \/ QuietBut(NoConn)

\* joinConnection, once it is known that c takes part: marked open before the await.
StartJoin(c) ==
    /\ openConnections' = openConnections \cup {c}
    /\ join' = [join EXCEPT ![c] = [NotJoining EXCEPT !.at = "begin"]]
    /\ conn' = Called(c, "join", "begin", 0)

\* registerConnection.  Outside a transaction, or while it closes, c joins at the next begin.
RegisterConnection(c) ==
    /\ c \notin known
    /\ known' = known \cup {c}
    /\ activeConnections' = activeConnections \cup {c}
    /\ IF inTransaction /\ ~closingTransaction
         THEN StartJoin(c)
         ELSE UNCHANGED <<openConnections, join, conn>>
    /\ UNCHANGED <<inTransaction, closingTransaction, savepointDepth, driver, rejected, dirty>>

\* replaySavepoints from depth `next' up to the stack length read when it started.
ReplaySavepoints(c, next, limit) ==
    IF next < limit
      THEN /\ join' = [join EXCEPT ![c] = [at |-> "replay", next |-> next + 1, limit |-> limit]]
           /\ conn' = Called(c, "join", "createSavepoint", next)
      ELSE /\ join' = [join EXCEPT ![c] = NotJoining]
           /\ UNCHANGED conn

JoinBegunUnreplayed(c) ==
    /\ join[c].at = "begin" /\ Answered("join", c) /\ <<"join", c>> \notin rejected
    /\ join' = [join EXCEPT ![c] = NotJoining]
    /\ UNCHANGED <<registry, manager, driver, conn, rejected, dirty>>

JoinBegun(c) ==
    /\ join[c].at = "begin" /\ Answered("join", c) /\ <<"join", c>> \notin rejected
    /\ ReplaySavepoints(c, 0, savepointDepth)
    /\ UNCHANGED <<registry, manager, driver, rejected, dirty>>

JoinReplayed(c) ==
    /\ join[c].at = "replay" /\ Answered("join", c)
    /\ ReplaySavepoints(c, join[c].next, join[c].limit)
    /\ UNCHANGED <<registry, manager, driver, rejected, dirty>>

-----------------------------------------------------------------------------
\* Closing.

\* resetToAutocommit, and the batch flushed or discarded.
ResetToAutocommit ==
    /\ inTransaction' = FALSE /\ closingTransaction' = FALSE
    /\ openConnections' = {}
    /\ savepointDepth' = 0
    /\ pc' = "none" /\ todo' = {} /\ current' = NoConn

RollbackEveryOpen(open) ==
    /\ openConnections' = {}
    /\ conn' = [c \in Conns |-> IF c \in open
                                THEN Contract!AfterIssue(conn[c], NewCall("driver", "rollback", 0))
                                ELSE conn[c]]
    /\ closingTransaction' = TRUE
    /\ pc' = "rollback" /\ todo' = open /\ current' = NoConn
    /\ UNCHANGED <<inTransaction, savepointDepth, level>>

\* rollbackOpenConnections: every registered connection in `open' leaves the open set
\* and is called at once; the driver awaits them all.
RollbackOpenConnections(open) ==
    LET participants == activeConnections \cap open
    IN  /\ openConnections' = open \ participants
        /\ conn' = [c \in Conns |-> IF c \in participants
                                    THEN Contract!AfterIssue(conn[c], NewCall("driver", "rollback", 0))
                                    ELSE conn[c]]
        /\ closingTransaction' = TRUE
        /\ pc' = "rollback" /\ todo' = participants /\ current' = NoConn
        /\ UNCHANGED <<inTransaction, savepointDepth, level>>

\* rollbackTransaction: ROLLBACK, or a statement that failed.
RollbackTransaction ==
    /\ pc = "body" /\ CanProceed
    /\ RollbackOpenConnections(openConnections)
    /\ UNCHANGED <<registry, join, rejected, dirty>>

RollbackDoneUnawaited ==
    /\ pc = "rollback"
    /\ ResetToAutocommit
    /\ UNCHANGED <<registry, level, join, conn, rejected, dirty>>

RollbackDone ==
    /\ pc = "rollback"
    /\ \A c \in todo : Answered("driver", c)
    /\ ResetToAutocommit
    /\ UNCHANGED <<registry, level, join, conn, rejected, dirty>>

\* commitTransaction up to its first await: assertions and deferred checks run next.
CommitTransaction ==
    /\ pc = "body" /\ CanProceed
    /\ closingTransaction' = TRUE
    /\ pc' = "checks"
    /\ UNCHANGED <<registry, openConnections, inTransaction, savepointDepth, todo, current, level,
                   join, conn, rejected, dirty>>

ChecksRefused ==
    /\ pc = "checks"
    /\ RollbackOpenConnections(openConnections)
    /\ UNCHANGED <<registry, join, rejected, dirty>>

\* The next commit of commitOpenConnections, or the end of the transaction.
CommitNext(open, participants) ==
    \/ /\ participants = {}
       /\ ResetToAutocommit
       /\ UNCHANGED <<conn, level>>
    \/ \E c \in participants :
        /\ conn' = Called(c, "driver", "commit", 0)
        /\ openConnections' = open
        /\ pc' = "commit" /\ todo' = participants \ {c} /\ current' = c
        /\ UNCHANGED <<inTransaction, closingTransaction, savepointDepth, level>>

ChecksPassed ==
    /\ pc = "checks"
    /\ CommitNext(openConnections, activeConnections \cap openConnections)
    /\ UNCHANGED <<registry, join, rejected, dirty>>

ConnectionCommittedStaysOpen ==
    /\ pc = "commit" /\ Answered("driver", current) /\ <<"driver", current>> \notin rejected
    /\ CommitNext(openConnections, todo)
    /\ UNCHANGED <<registry, join, rejected, dirty>>

ConnectionCommitted ==
    /\ pc = "commit" /\ Answered("driver", current) /\ <<"driver", current>> \notin rejected
    /\ CommitNext(openConnections \ {current}, todo)
    /\ UNCHANGED <<registry, join, rejected, dirty>>

CommitRejectedSkipsCurrent ==
    /\ pc = "commit" /\ <<"driver", current>> \in rejected
    /\ rejected' = rejected \ {<<"driver", current>>}
    /\ RollbackOpenConnections(openConnections \ {current})
    /\ UNCHANGED <<registry, join, dirty>>

CommitRejectedEscapes ==
    /\ pc = "commit" /\ <<"driver", current>> \in rejected
    /\ rejected' = rejected \ {<<"driver", current>>}
    /\ pc' = "body" /\ todo' = {} /\ current' = NoConn
    /\ UNCHANGED <<registry, manager, level, join, conn, dirty>>

\* A connection whose commit rejected is still open, so the rollback reaches it.
ConnectionCommitRejected ==
    /\ pc = "commit" /\ <<"driver", current>> \in rejected
    /\ rejected' = rejected \ {<<"driver", current>>}
    /\ RollbackOpenConnections(openConnections)
    /\ UNCHANGED <<registry, join, dirty>>

-----------------------------------------------------------------------------
\* Opening.

BeginTransaction ==
    /\ pc = "none" /\ CanProceed
    /\ inTransaction' = TRUE
    /\ pc' = "begin" /\ todo' = activeConnections
    /\ UNCHANGED <<registry, openConnections, closingTransaction, savepointDepth, current, level,
                   join, conn, rejected, dirty>>

\* The loop of beginTransaction: join the next connection, unless it is open already
\* because it registered meanwhile.
BeginNext(c) ==
    /\ pc = "begin" /\ current = NoConn /\ c \in todo
    /\ todo' = todo \ {c}
    /\ IF c \in openConnections
         THEN UNCHANGED <<openConnections, join, conn, current>>
         ELSE StartJoin(c) /\ current' = c
    /\ UNCHANGED <<registry, inTransaction, closingTransaction, savepointDepth, pc, level, rejected, dirty>>

\* The awaited joinConnection returned.
DriverJoined ==
    /\ pc \in {"begin", "rejoin"} /\ current # NoConn /\ join[current].at = "none"
    /\ current' = NoConn
    /\ pc' = IF pc = "rejoin" THEN "body" ELSE pc
    /\ UNCHANGED <<registry, manager, todo, level, join, conn, rejected, dirty>>

BeginDone ==
    /\ pc = "begin" /\ current = NoConn /\ todo = {}
    /\ pc' = "body"
    /\ UNCHANGED <<registry, manager, todo, current, level, join, conn, rejected, dirty>>

\* A begin was rejected.  The driver rolls the whole transaction back; a registration
\* takes its connection out of the registry and leaves the transaction alone.
JoinRejected(c) ==
    /\ join[c].at = "begin" /\ <<"join", c>> \in rejected
    /\ rejected' = rejected \ {<<"join", c>>}
    /\ join' = [join EXCEPT ![c] = NotJoining]
    /\ IF c = current
         THEN /\ Concurrent \/ QuietBut(c)
              /\ RollbackOpenConnections(openConnections \ {c})
              /\ UNCHANGED activeConnections
         ELSE /\ openConnections' = openConnections \ {c}
              /\ activeConnections' = activeConnections \ {c}
              /\ UNCHANGED <<inTransaction, closingTransaction, savepointDepth, driver, conn>>
    /\ UNCHANGED <<known, dirty>>

-----------------------------------------------------------------------------
\* Inside the transaction.

\* A statement writes rows through a connection it has opened.
Write(c) ==
    /\ pc = "body" /\ c \in activeConnections \cap openConnections
    /\ join[c].at = "none"
    /\ dirty' = dirty \cup {c}
    /\ UNCHANGED <<registry, manager, driver, join, conn, rejected>>

\* removeConnection: the table is dropped, its rows with it.
RemoveConnection(c) ==
    /\ pc \in {"none", "body"} /\ c \in activeConnections
    /\ join[c].at = "none"
    /\ activeConnections' = activeConnections \ {c}
    /\ dirty' = dirty \ {c}
    /\ UNCHANGED <<known, manager, driver, join, conn, rejected>>

\* The next call of a savepoint broadcast, or its end.
BroadcastNext(method, d, rest) ==
    \/ /\ rest = {}
       /\ pc' = "body" /\ todo' = {} /\ current' = NoConn
       /\ UNCHANGED conn
    \/ \E c \in rest :
        /\ conn' = Called(c, "driver", method, d)
        /\ pc' = method /\ todo' = rest \ {c} /\ current' = c

\* The broadcasts: the stack changes first, then the registered connections are told.
Broadcast(method, d, newDepth) ==
    /\ pc = "body" /\ CanProceed
    /\ savepointDepth' = newDepth /\ level' = d
    /\ BroadcastNext(method, d, activeConnections)
    /\ UNCHANGED <<registry, openConnections, inTransaction, closingTransaction, join, rejected, dirty>>

CreateSavepointBroadcast ==
    /\ savepointDepth < MaxDepth
    /\ Broadcast("createSavepoint", savepointDepth, savepointDepth + 1)

ReleaseSavepointBroadcast ==
    \E d \in 0..MaxDepth : d < savepointDepth /\ Broadcast("releaseSavepoint", d, d)

RollbackToSavepointBroadcast ==
    \E d \in 0..MaxDepth : d < savepointDepth /\ Broadcast("rollbackToSavepoint", d, d + 1)

BroadcastAnswered ==
    /\ pc \in Contract!SavepointMethods /\ Answered("driver", current)
    /\ BroadcastNext(pc, level, todo)
    /\ UNCHANGED <<registry, manager, level, join, rejected, dirty>>

\* commitConnectionEarly: commit now, then join again.
CommitConnectionEarly(c) ==
    /\ pc = "body" /\ CanProceed
    /\ c \in activeConnections \cap openConnections
    /\ conn' = Called(c, "driver", "commit", 0)
    /\ pc' = "early" /\ current' = c
    /\ UNCHANGED <<registry, manager, todo, level, join, rejected, dirty>>

EarlyCommitted ==
    /\ pc = "early" /\ Answered("driver", current) /\ <<"driver", current>> \notin rejected
    /\ StartJoin(current)
    /\ pc' = "rejoin"
    /\ UNCHANGED <<registry, inTransaction, closingTransaction, savepointDepth, todo, current, level,
                   rejected, dirty>>

EarlyCommitRejected ==
    /\ pc = "early" /\ <<"driver", current>> \in rejected /\ CanProceed
    /\ rejected' = rejected \ {<<"driver", current>>}
    /\ RollbackOpenConnections(openConnections)
    /\ UNCHANGED <<registry, join, dirty>>

-----------------------------------------------------------------------------
\* What the driver does once it has started something.
DriverStep ==
    \/ \E c \in Conns : BeginNext(c)
    \/ DriverJoined
    \/ BeginDone
    \/ BroadcastAnswered
    \/ ChecksPassed
    \/ ChecksRefused
    \/ ConnectionCommitted
    \/ ConnectionCommitRejected
    \/ RollbackDone
    \/ EarlyCommitted
    \/ EarlyCommitRejected

JoinStep(c) == JoinBegun(c) \/ JoinReplayed(c) \/ JoinRejected(c)

Next ==
    \/ BeginTransaction
    \/ CreateSavepointBroadcast
    \/ ReleaseSavepointBroadcast
    \/ RollbackToSavepointBroadcast
    \/ CommitTransaction
    \/ RollbackTransaction
    \/ DriverStep
    \/ \E c \in Conns : \/ RegisterConnection(c)
                        \/ JoinStep(c)
                        \/ Settle(c)
                        \/ Write(c)
                        \/ RemoveConnection(c)
                        \/ CommitConnectionEarly(c)

Spec == Init /\ [][Next]_vars

\* Every call settles, and the code after an await runs.
Fairness ==
    /\ WF_vars(DriverStep)
    /\ \A c \in Conns : WF_vars(JoinStep(c)) /\ WF_vars(Settle(c))

FairSpec == Spec /\ Fairness

-----------------------------------------------------------------------------
\* TXN-001: calls on one connection never overlap, each is legal where the connection
\* stands (begin once, savepoint depths in range, one commit or rollback per begin, a
\* rollback after a rejected commit), for every connection and whatever is rejected.
HonoursContract == Contract!ContractSpec

\* The part of TXN-001 about overlap alone.
NeverOverlap ==
    \A c \in Conns : \A x, y \in conn[c].inFlight : x = y

\* In autocommit with no statement running every registered connection is idle.
IdleInAutocommit ==
    pc = "none" => \A c \in activeConnections : conn[c] = Contract!IdleRecord

\* Between two calls of the driver every connection that finished joining holds as many
\* savepoints as the engine, so any depth the engine may name next is in range on it.
SavepointLockstep ==
    pc = "body" => \A c \in activeConnections :
        join[c].at = "none" => conn[c].state = "open" /\ conn[c].depth = savepointDepth

\* No transaction ends, successfully or not, with rows on a registered connection that
\* were neither committed nor rolled back.
EveryWriteSettled == ~inTransaction => dirty = {}

\* A connection taken out of the registry is never called again.
NoCallAfterRemoval ==
    [][\A c \in known \ activeConnections : conn'[c].inFlight \subseteq conn[c].inFlight]_vars

\* A transaction that starts to close ends, whatever its connections reject.
ClosingEnds == closingTransaction ~> ~inTransaction

-----------------------------------------------------------------------------
\* The inductive invariant behind the safety properties, for a driver that waits for
\* unfinished registrations.

Sav == Contract!SavepointMethods
Rec(state, depth, calls) == [state |-> state, depth |-> depth, inFlight |-> calls]

\* The manager's flags follow the driver, and a broadcast has moved the stack already.
PhaseInv ==
    /\ inTransaction <=> pc # "none"
    /\ closingTransaction <=> pc \in {"checks", "commit", "rollback"}
    /\ pc \in {"none", "begin"} => savepointDepth = 0
    /\ pc \in {"createSavepoint", "rollbackToSavepoint"} => savepointDepth = level + 1
    /\ pc = "releaseSavepoint" => savepointDepth = level /\ level < MaxDepth

\* What the driver awaits and has yet to visit is registered and not joining by itself.
DriverInv ==
    /\ pc \in Sav \cup {"commit", "early", "rejoin"} => current \in activeConnections
    /\ pc = "begin" => current \in activeConnections \cup {NoConn}
    /\ pc \in {"none", "body", "checks", "rollback"} => current = NoConn
    /\ todo \subseteq activeConnections /\ current \notin todo
    /\ pc \notin Sav \cup {"begin", "commit", "rollback"} => todo = {}
    /\ \A c \in todo : join[c].at = "none"

\* Who is open in which phase.
MemberInv ==
    /\ openConnections \subseteq known
    /\ pc = "none" => openConnections = {}
    /\ pc \in Sav \cup {"body", "early", "rejoin"} => activeConnections \subseteq openConnections
    /\ pc = "begin" => activeConnections \subseteq openConnections \cup todo
    /\ pc = "commit" => activeConnections \cap openConnections = todo \cup {current}
    /\ pc = "rollback" => activeConnections \cap openConnections = {}

\* A connection in the middle of joinConnection.
JoiningOK(c) ==
    /\ c \in activeConnections \cap openConnections
    /\ pc \in Sav \cup {"begin", "body", "early", "rejoin"}
    /\ c = current => pc \in {"begin", "rejoin"}
    /\ \/ /\ join[c].at = "begin"
          /\ \/ conn[c] = Rec("idle", 0, {NewCall("join", "begin", 0)}) /\ <<"join", c>> \notin rejected
             \/ conn[c] = Rec("open", 0, {}) /\ <<"join", c>> \notin rejected
             \/ conn[c] = Contract!IdleRecord /\ <<"join", c>> \in rejected
       \/ /\ join[c].at = "replay" /\ <<"join", c>> \notin rejected
          /\ join[c].next \in 1..savepointDepth /\ join[c].limit = savepointDepth
          /\ \/ conn[c] = Rec("open", join[c].next, {})
             \/ conn[c] = Rec("open", join[c].next - 1, {NewCall("join", "createSavepoint", join[c].next - 1)})

\* The depth of a connection a broadcast has not reached makes the call legal.
UntoldDepth(d) == IF pc = "createSavepoint" THEN d = level ELSE d > level

\* A registered connection that is not joining.
SettledOK(c) ==
    CASE pc \in Sav /\ c = current ->
            \/ conn[c] = Rec("open", savepointDepth, {})
            \/ /\ conn[c].state = "open" /\ conn[c].inFlight = {NewCall("driver", pc, level)}
               /\ UntoldDepth(conn[c].depth)
      [] pc \in Sav /\ c \in todo ->
            conn[c].state = "open" /\ conn[c].inFlight = {} /\ UntoldDepth(conn[c].depth)
      [] pc \in {"commit", "early"} /\ c = current ->
            \/ conn[c] = Rec("open", savepointDepth, {NewCall("driver", "commit", 0)}) /\ <<"driver", c>> \notin rejected
            \/ conn[c] = Contract!IdleRecord /\ <<"driver", c>> \notin rejected
            \/ conn[c] = Rec("commit-failed", savepointDepth, {}) /\ <<"driver", c>> \in rejected
      [] pc = "rollback" /\ c \in todo ->
            \/ conn[c] = Contract!IdleRecord
            \/ conn[c].state # "idle" /\ conn[c].inFlight = {NewCall("driver", "rollback", 0)}
      [] OTHER ->
            conn[c] = IF c \in openConnections THEN Rec("open", savepointDepth, {}) ELSE Contract!IdleRecord

ConnInv(c) ==
    /\ c \notin known => conn[c] = Contract!IdleRecord
    /\ c \notin activeConnections => join[c].at = "none" /\ conn[c].inFlight = {}
    /\ join[c].at # "none" => JoiningOK(c)
    /\ join[c].at = "none" /\ c \in activeConnections => SettledOK(c)
    /\ <<"join", c>> \in rejected => join[c].at = "begin"
    /\ <<"driver", c>> \in rejected => pc \in {"commit", "early"} /\ c = current
    /\ c \in dirty => c \in activeConnections /\ conn[c].state # "idle"

\* The driver, the registrations and the connections agree on where every connection
\* stands: whoever may call a connection next finds it able to take that call.
IInv ==
    /\ TypeOK
    /\ PhaseInv
    /\ DriverInv
    /\ MemberInv
    /\ \A c \in Conns : ConnInv(c)
=============================================================================
