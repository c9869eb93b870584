------------------------- MODULE MemoryTableCommits -------------------------
(***************************************************************************)
(* The layers of one in-memory table, part two of the proofs:              *)
(* EveryCommitLands, OwnWritesVisible and ReplicaFollows.                  *)
(*                                                                         *)
(* The invariant is Lands: every transaction in progress began at some     *)
(* committed layer; the layer it reads, and each layer a savepoint returns *)
(* to, is that one with the transaction's log over it, and the layers it   *)
(* made are nobody else's.  So the fork point of a rebase is where the     *)
(* transaction began, whatever siblings committed.                         *)
(***************************************************************************)
EXTENDS MemoryTableProofs

-----------------------------------------------------------------------------
\* The layers a transaction reads and made.

\* The layer a connection reads, and the one a savepoint of it returns to.
Viewed(r) == IF r.pending # NoLayer THEN r.pending ELSE r.readLayer
Target(e) == IF e.snapshot = NoLayer THEN e.readLayer ELSE e.snapshot
Refs(r) == {Viewed(r)} \cup {Target(r.savepoints[i]) : i \in 1..Len(r.savepoints)}

\* Layer l is layer o with the log written over it.
Follows(ls, o, l, log) ==
    /\ o \in Chain(ls, l)
    /\ WritesAbove(ls, l, o) = log
    /\ ls[l].rows = Apply(ls[o].rows, log)

\* The transaction of a connection with record r began at the committed layer o with these
\* rows, changed log since, and had changed logs at its savepoints.
Traces(ls, h, r, o, rows, log, logs) ==
    /\ o \in Chain(ls, h) /\ ls[o].rows = rows
    /\ r.explicit
    /\ Follows(ls, o, Viewed(r), log)
    /\ r.pending = NoLayer /\ r.readSnapshot = NoLayer => r.readLayer = o
    /\ Len(logs) = Len(r.savepoints)
    /\ \A i \in 1..Len(r.savepoints) :
        /\ Follows(ls, o, Target(r.savepoints[i]), logs[i])
        /\ r.savepoints[i].snapshot = NoLayer /\ r.savepoints[i].readSnapshot = NoLayer
              => r.savepoints[i].readLayer = o

\* The layers such a transaction made.
Own(ls, r, o) == (UNION {Chain(ls, l) : l \in Refs(r)}) \ Chain(ls, o)

\* The layers a connection refers to exist.
LEMMA RefsExist ==
    ASSUME NEW n \in Nat, NEW r \in ConnShape(n)
    PROVE  Viewed(r) \in 1..n /\ Refs(r) \subseteq 1..n /\ \A i \in 1..Len(r.savepoints) : Target(r.savepoints[i]) \in 1..n
<1>1. r.readLayer \in 1..n /\ r.pending \in 0..n /\ r.savepoints \in Seq(EntryShape(n))
  BY DEF ConnShape
<1>2. Viewed(r) \in 1..n
  BY <1>1 DEF Viewed, NoLayer
<1>3. ASSUME NEW i \in 1..Len(r.savepoints) PROVE Target(r.savepoints[i]) \in 1..n
  <2>1. r.savepoints[i] \in EntryShape(n)
    BY <1>1
  <2> QED BY <2>1 DEF EntryShape, Target, NoLayer
<1> QED BY <1>2, <1>3 DEF Refs

\* A transaction that has written nothing yet.
LEMMA FreshTrace ==
    ASSUME NEW ls, Sound(ls), NEW h \in 1..Len(ls), NEW o \in Chain(ls, h), NEW r, NEW logs,
           r.explicit, r.pending = NoLayer, r.readLayer = o, Len(logs) = Len(r.savepoints),
           \A i \in 1..Len(r.savepoints) :
                r.savepoints[i].snapshot = NoLayer /\ r.savepoints[i].readLayer = o /\ logs[i] = <<>>
    PROVE  Traces(ls, h, r, o, ls[o].rows, <<>>, logs) /\ Own(ls, r, o) = {}
<1>0. Len(ls) \in Nat /\ Tree(ls) /\ Logged(ls)
  BY SoundFacts
<1>1. o \in 1..Len(ls)
  BY <1>0, ChainBelow
<1>2. ls[o].rows \in Table /\ o \in 0..Len(ls)
  BY <1>1, SoundFacts
<1>3. Follows(ls, o, o, <<>>)
  <2>1. o \in Chain(ls, o)
    BY <1>0, <1>1, ChainBelow
  <2>2. WritesAbove(ls, o, o) = <<>>
    BY Zenon, <1>0, <1>2, WritesWalk
  <2>3. Apply(ls[o].rows, <<>>) = ls[o].rows
    BY <1>2, ApplyNothing
  <2> QED BY <2>1, <2>2, <2>3 DEF Follows
<1>4. Viewed(r) = o /\ \A i \in 1..Len(r.savepoints) : Target(r.savepoints[i]) = o
  BY DEF Viewed, Target
<1>5. Refs(r) = {o}
  BY <1>4 DEF Refs
<1>6. Own(ls, r, o) = {}
  <2>1. ASSUME NEW x \in Own(ls, r, o) PROVE FALSE
    <3>1. PICK l \in Refs(r) : x \in Chain(ls, l) /\ x \notin Chain(ls, o)
      BY DEF Own
    <3>2. l = o
      BY Zenon, <1>5
    <3> QED BY <3>1, <3>2
  <2> QED BY <2>1
<1> QED BY Zenon, <1>3, <1>4, <1>6 DEF Traces

\* Everything committed at h in ls is committed at h2 in lt.
Beyond(ls, h, lt, h2) == Chain(ls, h) \subseteq Chain(lt, h2)

\* A transaction none of whose layers changes goes on as it was, when the head advances.
LEMMA TraceCarried ==
    ASSUME NEW ls, Sound(ls), NEW lt, Sound(lt), NEW p, Grown(ls, lt, p),
           NEW r \in ConnShape(Len(ls)), NEW h \in 1..Len(ls), NEW h2, NEW o, NEW rows, NEW log, NEW logs,
           Traces(ls, h, r, o, rows, log, logs), \A l \in Refs(r) : p \notin Chain(ls, l),
           Beyond(ls, h, lt, h2)
    PROVE  Traces(lt, h2, r, o, rows, log, logs) /\ Own(lt, r, o) = Own(ls, r, o)
<1>0. Len(ls) \in Nat /\ Tree(ls) /\ Logged(ls) /\ Len(lt) \in Nat /\ Tree(lt) /\ Logged(lt)
  BY SoundFacts
<1>1. \A l \in 0..Len(ls) : Chain(lt, l) = Chain(ls, l)
  BY Zenon, <1>0, ChainKept
<1>2. Refs(r) \subseteq 1..Len(ls) /\ o \in 1..Len(ls) /\ o \in Chain(ls, h)
  BY <1>0, RefsExist, ChainBelow DEF Traces
<1>3. o # p /\ lt[o].rows = ls[o].rows
  <2>1. Viewed(r) \in Refs(r) /\ o \in Chain(ls, Viewed(r))
    BY Zenon DEF Refs, Traces, Follows
  <2> QED BY Zenon, <2>1, <1>2 DEF Grown
<1>4. ASSUME NEW l \in Refs(r), NEW w, Follows(ls, o, l, w) PROVE Follows(lt, o, l, w)
  <2>1. l \in 1..Len(ls) /\ l \in 0..Len(ls) /\ l \in Chain(ls, l) /\ p \notin Chain(ls, l)
    BY <1>0, <1>2, ChainBelow
  <2>2. lt[l].rows = ls[l].rows
    BY <2>1 DEF Grown
  <2>3. WritesAbove(lt, l, o) = WritesAbove(ls, l, o)
    BY <1>0, <2>1, WritesKept
  <2> QED BY Zenon, <1>1, <1>3, <1>4, <2>1, <2>2, <2>3 DEF Follows
<1>5. Own(lt, r, o) = Own(ls, r, o)
  <2>1. o \in 0..Len(ls) /\ \A l \in Refs(r) : l \in 0..Len(ls)
    BY <1>0, <1>2
  <2> QED BY <1>1, <2>1 DEF Own
<1>6. Follows(lt, o, Viewed(r), log)
  BY <1>4 DEF Traces, Refs
<1>7. ASSUME NEW i \in 1..Len(r.savepoints) PROVE Follows(lt, o, Target(r.savepoints[i]), logs[i])
  BY Zenon, <1>4 DEF Traces, Refs
<1>8. o \in Chain(lt, h2) /\ lt[o].rows = rows
  BY <1>2, <1>3 DEF Traces, Beyond
<1> QED BY <1>5, <1>6, <1>7, <1>8 DEF Traces

-----------------------------------------------------------------------------
\* Each call keeps Lands.

\* The connections with a transaction in progress.
Live == IF phase = "body" THEN registered ELSE IF phase = "closing" THEN todo ELSE {}

\* With org the layers the transactions began at: each one's trace, and no layer that a
\* transaction made is another's or committed.
Tracked(org) ==
    \A c \in Live :
        /\ Traces(layers, head, conn[c], org[c], start[c], changes[c], saved[c])
        /\ Own(layers, conn[c], org[c]) \cap Chain(layers, head) = {}
        /\ \A b \in Live : b # c => Own(layers, conn[c], org[c]) \cap Own(layers, conn[b], org[b]) = {}

\* The other connections read a committed layer.
Resting ==
    \A c \in Conns \ Live :
        /\ conn[c].pending = NoLayer /\ conn[c].readSnapshot = NoLayer
        /\ conn[c].readLayer \in Chain(layers, head)

Landed == layers[head].rows = promised /\ replica = promised

Lands == Safe /\ Resting /\ Landed /\ \E org \in [Conns -> Nat] : Tracked(org)

\* Live connections are known ones.
LEMMA LiveFacts ==
    ASSUME Safe
    PROVE  Live \subseteq registered /\ registered \subseteq Conns /\ Live \subseteq Conns
BY DEF Safe, Shapes, Live

\* A step that changes no layer: each transaction in progress keeps its origin, and refers
\* to no layer it did not refer to.
LEMMA TracedOn ==
    ASSUME NEW org, Tracked(org), layers' = layers, head' = head, Live' \subseteq Live,
           \A c \in Live' : /\ Traces(layers, head, conn'[c], org[c], start'[c], changes'[c], saved'[c])
                            /\ Refs(conn'[c]) \subseteq Refs(conn[c])
    PROVE  Tracked(org)'
<1>1. ASSUME NEW c \in Live' PROVE Own(layers, conn'[c], org[c]) \subseteq Own(layers, conn[c], org[c])
  BY <1>1, Zenon DEF Own
<1>2. ASSUME NEW c \in Live'
      PROVE  /\ Own(layers, conn'[c], org[c]) \cap Chain(layers, head) = {}
             /\ \A b \in Live' : b # c => Own(layers, conn'[c], org[c]) \cap Own(layers, conn'[b], org[b]) = {}
  <2>1. c \in Live /\ Own(layers, conn[c], org[c]) \cap Chain(layers, head) = {}
    BY Zenon DEF Tracked
  <2>2. ASSUME NEW b \in Live', b # c
        PROVE  Own(layers, conn'[c], org[c]) \cap Own(layers, conn'[b], org[b]) = {}
    <3>1. Own(layers, conn[c], org[c]) \cap Own(layers, conn[b], org[b]) = {}
      BY Zenon, <2>1, <2>2 DEF Tracked
    <3> QED BY Zenon, <3>1, <1>1
  <2> QED BY Zenon, <2>1, <2>2, <1>1
<1>3. \A c \in Live' :
        /\ Traces(layers', head', conn'[c], org[c], start'[c], changes'[c], saved'[c])
        /\ Own(layers', conn'[c], org[c]) \cap Chain(layers', head') = {}
        /\ \A b \in Live' : b # c => Own(layers', conn'[c], org[c]) \cap Own(layers', conn'[b], org[b]) = {}
  BY <1>2
<1> QED BY <1>3, Zenon DEF Tracked

\* Initially nothing is in progress.
LEMMA InitLands == Init => Lands
<1> SUFFICES ASSUME Init PROVE Lands
  OBVIOUS
<1>1. Safe
  BY InitSafe
<1>2. Live = {}
  BY DEF Init, Live
<1>3. head \in Chain(layers, head) /\ head = Base
  BY Zenon, <1>1, SafeFacts, SoundFacts, ChainBelow DEF Init
<1>4. \A c \in Conns : conn[c] = Connection(head)
  BY Zenon DEF Init
<1>4a. Connection(head).readLayer = head /\ Connection(head).pending = NoLayer /\ Connection(head).readSnapshot = NoLayer
  BY DEF Connection
<1>5. Resting
  BY Zenon, <1>3, <1>4, <1>4a DEF Resting
<1>6. Landed
  BY Zenon DEF Init, Landed
<1>7. [c \in Conns |-> 0] \in [Conns -> Nat] /\ Tracked([c \in Conns |-> 0])
  BY <1>2 DEF Tracked
<1> QED BY <1>1, <1>5, <1>6, <1>7 DEF Lands

\* The commit starts or ends.
LEMMA EngineLands == ASSUME Lands, StartCommit \/ CommitDone PROVE Lands'
<1>0. Safe /\ Safe'
  BY EngineSafe DEF Lands
<1>1. /\ layers' = layers /\ head' = head /\ conn' = conn /\ promised' = promised /\ replica' = replica
      /\ start' = start /\ changes' = changes /\ saved' = saved
  BY DEF StartCommit, CommitDone, ghosts
<1>2. Live' = Live
  BY DEF StartCommit, CommitDone, Live
<1>3. PICK org \in [Conns -> Nat] : Tracked(org)
  BY Zenon DEF Lands
<1>4. Tracked(org)'
  <2>1. \A c \in Live' : /\ Traces(layers, head, conn'[c], org[c], start'[c], changes'[c], saved'[c])
                         /\ Refs(conn'[c]) \subseteq Refs(conn[c])
    BY <1>1, <1>2, <1>3 DEF Tracked
  <2>2. Live' \subseteq Live
    BY <1>2
  <2> QED BY Zenon, <1>1, <1>3, <2>1, <2>2, TracedOn
<1>5. Resting' /\ Landed'
  BY <1>1, <1>2 DEF Lands, Resting, Landed
<1> QED BY <1>0, <1>3, <1>4, <1>5 DEF Lands

\* A rollback of the transaction.
LEMMA RollbackLands == ASSUME Lands, Rollback PROVE Lands'
<1> DEFINE open == IF phase = "body" THEN registered ELSE todo
<1>0. Safe /\ Safe'
  BY RollbackSafe DEF Lands
<1>1. layers' = layers /\ head' = head /\ promised' = promised /\ replica' = replica
  BY DEF Rollback, ghosts
<1>2. Live' = {} /\ Live = open
  BY Zenon DEF Rollback, Live
<1>3. head \in Chain(layers, head)
  BY Zenon, <1>0, SafeFacts, SoundFacts, ChainBelow
<1>4. Resting'
  <2>1. ASSUME NEW c \in Conns
        PROVE  /\ conn'[c].pending = NoLayer /\ conn'[c].readSnapshot = NoLayer
               /\ conn'[c].readLayer \in Chain(layers, head)
    <3>1. conn'[c] = IF c \in Live THEN Connection(head) ELSE conn[c]
      BY <1>2 DEF Rollback, RolledBack
    <3>2. CASE c \in Live
      BY <3>1, <3>2, <1>3 DEF Connection
    <3>3. CASE c \notin Live
      BY <3>1, <3>3 DEF Lands, Resting
    <3> QED BY <3>2, <3>3
  <2> QED BY <2>1, <1>1 DEF Resting
<1>5. Landed'
  BY Zenon, <1>1 DEF Lands, Landed
<1>6. [c \in Conns |-> 0] \in [Conns -> Nat] /\ Tracked([c \in Conns |-> 0])'
  BY <1>2 DEF Tracked
<1> QED BY <1>0, <1>4, <1>5, <1>6 DEF Lands

\* A transaction begins: each connection at the layer it reads.
LEMMA BeginLands == ASSUME Lands, Begin PROVE Lands'
<1>0. Safe /\ Safe' /\ depth \in Nat /\ Sound(layers) /\ head \in 1..Len(layers) /\ Len(layers) \in Nat
  BY BeginSafe, SafeFacts DEF Lands
<1>1. layers' = layers /\ head' = head /\ promised' = promised /\ replica' = replica /\ registered' = registered
  BY DEF Begin
<1>2. Live' = registered /\ Live = {} /\ depth = 0
  BY <1>0 DEF Begin, Live, Safe, Lockstep
<1>3. PICK org \in [Conns -> Nat] : org = [c \in Conns |-> conn[c].readLayer]
  <2>1. [c \in Conns |-> conn[c].readLayer] \in [Conns -> Nat]
    BY <1>0, SafeFacts
  <2> QED BY Zenon, <2>1
<1>4. ASSUME NEW c \in registered
      PROVE  /\ Traces(layers, head, conn'[c], org[c], start'[c], changes'[c], saved'[c])
             /\ Own(layers, conn'[c], org[c]) = {}
  <2>1. c \in Conns
    BY Zenon, <1>0 DEF Safe, Shapes
  <2>2. conn'[c] = Begun(conn[c]) /\ start'[c] = layers[org[c]].rows /\ changes'[c] = <<>> /\ saved'[c] = <<>>
    BY Zenon, <1>3, <2>1 DEF Begin
  <2>3. org[c] \in Chain(layers, head) /\ conn[c].pending = NoLayer /\ org[c] = conn[c].readLayer
    BY Zenon, <1>2, <1>3, <2>1 DEF Lands, Resting
  <2>4. /\ Begun(conn[c]).explicit /\ Begun(conn[c]).pending = NoLayer /\ Begun(conn[c]).readLayer = org[c]
        /\ Len(Begun(conn[c]).savepoints) = 0
    BY Zenon, <1>0, <1>2, <2>1, <2>3, SafeFacts, BegunShape
  <2> DEFINE r == Begun(conn[c])
  <2>5. /\ Len(<<>>) = Len(r.savepoints)
        /\ \A i \in 1..Len(r.savepoints) :
             r.savepoints[i].snapshot = NoLayer /\ r.savepoints[i].readLayer = org[c] /\ <<>>[i] = <<>>
    BY <2>4
  <2> HIDE DEF r
  <2>6. r.explicit /\ r.pending = NoLayer /\ r.readLayer = org[c]
    BY Zenon, <2>4 DEF r
  <2>7. Traces(layers, head, r, org[c], layers[org[c]].rows, <<>>, <<>>) /\ Own(layers, r, org[c]) = {}
    BY Zenon, <1>0, <2>3, <2>5, <2>6, FreshTrace
  <2> QED BY Zenon, <2>2, <2>7 DEF r
<1>5. Tracked(org)'
  <2>1. \A c \in Live' :
        /\ Traces(layers', head', conn'[c], org[c], start'[c], changes'[c], saved'[c])
        /\ Own(layers', conn'[c], org[c]) \cap Chain(layers', head') = {}
        /\ \A b \in Live' : b # c => Own(layers', conn'[c], org[c]) \cap Own(layers', conn'[b], org[b]) = {}
    BY Zenon, <1>1, <1>2, <1>4
  <2> QED BY <2>1, Zenon DEF Tracked
<1>6. Resting'
  <2>1. \A c \in Conns \ registered : conn'[c] = conn[c]
    BY DEF Begin
  <2> QED BY Zenon, <1>1, <1>2, <2>1 DEF Lands, Resting
<1>7. Landed'
  BY <1>1 DEF Lands, Landed
<1> QED BY Zenon, <1>0, <1>3, <1>5, <1>6, <1>7 DEF Lands

\* A record as begin makes it, at layer h, with blank logs: a fresh trace.
LEMMA BegunTrace ==
    ASSUME NEW ls, Sound(ls), NEW h \in 1..Len(ls), ls[h].frozen, depth \in Nat
    PROVE  /\ Traces(ls, h, Begun(Connection(h)), h, ls[h].rows, <<>>, [i \in 1..depth |-> <<>>])
           /\ Own(ls, Begun(Connection(h)), h) = {}
<1> DEFINE q == Connection(h)
           r == Begun(q)
           logs == [i \in 1..depth |-> <<>>]
<1>0. Len(ls) \in Nat /\ h \in Chain(ls, h)
  BY Zenon, SoundFacts, ChainBelow
<1>1. q \in ConnShape(Len(ls)) /\ Fixed(ls, q) /\ q.pending = NoLayer /\ q.readLayer = h
  BY Zenon, <1>0, ConnectionShape
<1> HIDE DEF q
<1>2. /\ r.explicit /\ r.pending = NoLayer /\ r.readLayer = h /\ Len(r.savepoints) = depth
      /\ \A i \in 1..depth : r.savepoints[i] = [snapshot |-> NoLayer, readLayer |-> q.readLayer, readSnapshot |-> q.readSnapshot]
  BY <1>0, <1>1, BegunShape
<1>3. Len(logs) = depth /\ \A i \in 1..depth : logs[i] = <<>>
  BY Zenon, Blanks
<1> HIDE DEF r, logs
<1>4. \A i \in 1..Len(r.savepoints) :
        r.savepoints[i].snapshot = NoLayer /\ r.savepoints[i].readLayer = h /\ logs[i] = <<>>
  BY <1>1, <1>2, <1>3
<1>5. Traces(ls, h, r, h, ls[h].rows, <<>>, logs) /\ Own(ls, r, h) = {}
  BY Zenon, <1>0, <1>2, <1>3, <1>4, FreshTrace
<1> QED BY <1>5 DEF r, q, logs

\* A connection registers.
LEMMA ConnectLands == ASSUME Lands, NEW c \in Conns, Connect(c) PROVE Lands'
<1>0. Safe /\ Safe' /\ depth \in Nat /\ Sound(layers) /\ head \in 1..Len(layers) /\ Len(layers) \in Nat /\ layers[head].frozen
  BY Zenon, ConnectSafe, SafeFacts DEF Lands
<1>1. /\ layers' = layers /\ head' = head /\ promised' = promised /\ replica' = replica
      /\ registered' = registered \cup {c} /\ phase' = phase /\ todo' = todo /\ c \notin registered
      /\ phase \in {"idle", "body"}
  BY DEF Connect, engine
<1>2. PICK org \in [Conns -> Nat] : Tracked(org)
  BY DEF Lands
<1>3. head \in Chain(layers, head)
  BY Zenon, <1>0, SoundFacts, ChainBelow
<1>4. \A b \in Conns : b # c => conn'[b] = conn[b] /\ start'[b] = start[b] /\ changes'[b] = changes[b] /\ saved'[b] = saved[b]
  BY <1>0 DEF Connect, Safe, Shapes
<1>5. Live \subseteq Conns /\ c \notin Live
  BY <1>0, <1>1, LiveFacts
<1>6. Landed'
  BY <1>1 DEF Lands, Landed
<1>7. CASE phase = "idle"
  <2>1. Live' = {} /\ Live = {}
    BY Zenon, <1>1, <1>7 DEF Live
  <2>2. conn'[c] = Connection(head)
    BY Zenon, <1>0, <1>7 DEF Connect, Safe, Shapes
  <2>3. Resting'
    <3>1. ASSUME NEW b \in Conns
          PROVE  /\ conn'[b].pending = NoLayer /\ conn'[b].readSnapshot = NoLayer
                 /\ conn'[b].readLayer \in Chain(layers, head)
      <4>1. CASE b = c
        BY <4>1, <2>2, <1>3 DEF Connection
      <4>2. CASE b # c
        BY Zenon, <4>2, <2>1, <1>4 DEF Lands, Resting
      <4> QED BY Zenon, <4>1, <4>2
    <3> QED BY Zenon, <3>1, <1>1 DEF Resting
  <2>4. Tracked(org)'
    BY <2>1 DEF Tracked
  <2> QED BY Zenon, <1>0, <1>2, <1>6, <2>3, <2>4 DEF Lands
<1>8. CASE phase = "body"
  <2>1. Live' = Live \cup {c} /\ Live = registered
    BY Zenon, <1>1, <1>8 DEF Live
  <2>2. conn'[c] = Begun(Connection(head)) /\ start'[c] = layers[head].rows /\ changes'[c] = <<>>
        /\ saved'[c] = [i \in 1..depth |-> <<>>]
    BY Zenon, <1>0, <1>8 DEF Connect, Safe, Shapes
  <2>3. Traces(layers, head, conn'[c], head, start'[c], changes'[c], saved'[c]) /\ Own(layers, conn'[c], head) = {}
    BY <1>0, <2>2, BegunTrace
  <2>4. PICK org2 \in [Conns -> Nat] : org2 = [org EXCEPT ![c] = head]
    <3>1. [org EXCEPT ![c] = head] \in [Conns -> Nat]
      BY <1>0
    <3> QED BY Zenon, <3>1
  <2>5. org2[c] = head /\ \A b \in Live : b # c /\ org2[b] = org[b] /\ conn'[b] = conn[b]
            /\ start'[b] = start[b] /\ changes'[b] = changes[b] /\ saved'[b] = saved[b]
    BY Zenon, <1>4, <1>5, <2>4
  <2>6. ASSUME NEW b \in Live'
        PROVE  /\ Traces(layers, head, conn'[b], org2[b], start'[b], changes'[b], saved'[b])
               /\ Own(layers, conn'[b], org2[b]) \cap Chain(layers, head) = {}
               /\ \A a \in Live' : a # b => Own(layers, conn'[b], org2[b]) \cap Own(layers, conn'[a], org2[a]) = {}
    <3>1. CASE b = c
      BY Zenon, <3>1, <2>3, <2>5
    <3>2. CASE b \in Live
      <4>1. /\ Traces(layers, head, conn[b], org[b], start[b], changes[b], saved[b])
            /\ Own(layers, conn[b], org[b]) \cap Chain(layers, head) = {}
            /\ \A a \in Live : a # b => Own(layers, conn[b], org[b]) \cap Own(layers, conn[a], org[a]) = {}
        BY Zenon, <1>2, <3>2 DEF Tracked
      <4>2. ASSUME NEW a \in Live', a # b PROVE Own(layers, conn'[b], org2[b]) \cap Own(layers, conn'[a], org2[a]) = {}
        <5>1. CASE a = c
          BY Zenon, <5>1, <2>3, <2>5
        <5>2. CASE a \in Live
          BY Zenon, <5>2, <4>1, <4>2, <3>2, <2>5
        <5> QED BY Zenon, <5>1, <5>2, <2>1
      <4> QED BY Zenon, <4>1, <4>2, <3>2, <2>5
    <3> QED BY Zenon, <3>1, <3>2, <2>1
  <2>7. Tracked(org2)'
    <3>1. \A b \in Live' :
            /\ Traces(layers', head', conn'[b], org2[b], start'[b], changes'[b], saved'[b])
            /\ Own(layers', conn'[b], org2[b]) \cap Chain(layers', head') = {}
            /\ \A a \in Live' : a # b => Own(layers', conn'[b], org2[b]) \cap Own(layers', conn'[a], org2[a]) = {}
      BY Zenon, <1>1, <2>6
    <3> QED BY <3>1, Zenon DEF Tracked
  <2>8. Resting'
    BY Zenon, <1>1, <1>4, <2>1 DEF Lands, Resting
  <2> QED BY Zenon, <1>0, <1>6, <2>4, <2>7, <2>8 DEF Lands
<1> QED BY <1>1, <1>7, <1>8

\* A connection outside a transaction is reused.
LEMMA ReuseLands == ASSUME Lands, NEW c \in Conns, Reuse(c) PROVE Lands'
<1>0. Safe /\ Safe'
  BY ReuseSafe DEF Lands
<1>1. /\ layers' = layers /\ head' = head /\ promised' = promised /\ replica' = replica /\ start' = start
      /\ changes' = changes /\ saved' = saved
  BY DEF Reuse, ghosts
<1>2. Live' = Live
  BY DEF Reuse, engine, Live
<1>3. PICK org \in [Conns -> Nat] : Tracked(org)
  BY DEF Lands
<1>4. c \notin Live
  BY <1>3 DEF Reuse, Tracked, Traces
<1>5. \A b \in Conns : b # c => conn'[b] = conn[b]
  BY <1>0 DEF Reuse, Safe, Shapes
<1>6. conn'[c] = [conn[c] EXCEPT !.readLayer = head]
  BY <1>0 DEF Reuse, Safe, Shapes
<1>7. conn'[c].readLayer = head /\ conn'[c].pending = conn[c].pending /\ conn'[c].readSnapshot = conn[c].readSnapshot
  BY Zenon, <1>0, <1>6, SafeFacts DEF ConnShape
<1>8. head \in Chain(layers, head)
  BY Zenon, <1>0, SafeFacts, SoundFacts, ChainBelow
<1>9. Resting'
  BY Zenon, <1>1, <1>2, <1>4, <1>5, <1>7, <1>8 DEF Lands, Resting
<1>10. Tracked(org)'
  <2>1. \A b \in Live' : conn'[b] = conn[b]
    BY Zenon, <1>0, <1>2, <1>4, <1>5, LiveFacts
  <2>2. \A b \in Live' : /\ Traces(layers, head, conn'[b], org[b], start'[b], changes'[b], saved'[b])
                         /\ Refs(conn'[b]) \subseteq Refs(conn[b])
    BY Zenon, <1>1, <1>2, <1>3, <2>1 DEF Tracked
  <2>3. Live' \subseteq Live
    BY <1>2
  <2> QED BY Zenon, <1>1, <1>3, <2>2, <2>3, TracedOn
<1>11. Landed'
  BY <1>1 DEF Lands, Landed
<1> QED BY Zenon, <1>0, <1>3, <1>9, <1>10, <1>11 DEF Lands

\* A savepoint is released: fewer layers are referred to.
LEMMA ReleaseLands == ASSUME Lands, NEW d \in Nat, ReleaseSavepoint(d) PROVE Lands'
<1>0. Safe /\ Safe' /\ depth \in Nat
  BY Zenon, ReleaseSafe, SafeFacts DEF Lands
<1>1. /\ layers' = layers /\ head' = head /\ promised' = promised /\ replica' = replica /\ start' = start
      /\ changes' = changes /\ d < depth /\ phase = "body"
  BY DEF ReleaseSavepoint
<1>2. Live' = Live /\ Live = registered
  BY DEF ReleaseSavepoint, Live
<1>3. PICK org \in [Conns -> Nat] : Tracked(org)
  BY Zenon DEF Lands
<1>4. ASSUME NEW c \in Live'
      PROVE  /\ Traces(layers, head, conn'[c], org[c], start'[c], changes'[c], saved'[c])
             /\ Refs(conn'[c]) \subseteq Refs(conn[c])
  <2> DEFINE r == conn[c]
             q == SavepointReleased(r, d)
  <2>1. c \in Conns /\ c \in registered /\ c \in Live
    BY Zenon, <1>0, <1>2, LiveFacts
  <2>2. conn'[c] = q /\ saved'[c] = SubSeq(saved[c], 1, d)
    BY Zenon, <2>1 DEF ReleaseSavepoint
  <2>3. Traces(layers, head, r, org[c], start[c], changes[c], saved[c]) /\ Len(r.savepoints) = depth
        /\ Len(saved[c]) = depth /\ saved[c] \in Seq(Seq(Change))
    BY Zenon, <1>0, <1>1, <1>3, <2>1 DEF Tracked, Safe, Lockstep, Shapes
  <2>4. /\ Len(q.savepoints) = d /\ q.pending = r.pending /\ q.readLayer = r.readLayer
        /\ q.readSnapshot = r.readSnapshot /\ q.explicit = r.explicit
        /\ \A i \in 1..d : q.savepoints[i] = r.savepoints[i]
    <3>1. r \in ConnShape(Len(layers)) /\ Fixed(layers, r)
      BY Zenon, <1>0, <2>1, SafeFacts
    <3>2. Len(layers) \in Nat /\ d < Len(r.savepoints)
      BY Zenon, <1>0, <1>1, <2>3, SafeFacts
    <3> HIDE DEF r
    <3> QED BY <3>1, <3>2, ReleasedShape
  <2>5. Len(saved'[c]) = d /\ \A i \in 1..d : saved'[c][i] = saved[c][i]
    BY <1>0, <1>1, <2>2, <2>3
  <2>6. \A i \in 1..d : i \in 1..depth
    BY <1>0, <1>1
  <2>7. Viewed(conn'[c]) = Viewed(r)
    BY <2>2, <2>4 DEF Viewed
  <2> HIDE DEF r, q
  <2>8. Refs(conn'[c]) \subseteq Refs(r)
    BY Zenon, <2>2, <2>3, <2>4, <2>6, <2>7 DEF Refs
  <2>9. Traces(layers, head, conn'[c], org[c], start'[c], changes'[c], saved'[c])
    BY ZenonT(30), <1>1, <2>2, <2>3, <2>4, <2>5, <2>6, <2>7 DEF Traces
  <2> QED BY <2>8, <2>9 DEF r
<1>5. Tracked(org)'
  BY Zenon, <1>1, <1>2, <1>3, <1>4, TracedOn
<1>6. Resting'
  <2>1. \A c \in Conns \ Live : conn'[c] = conn[c]
    BY <1>2 DEF ReleaseSavepoint
  <2> QED BY Zenon, <1>1, <1>2, <2>1 DEF Lands, Resting
<1>7. Landed'
  BY Zenon, <1>1 DEF Lands, Landed
<1> QED BY Zenon, <1>0, <1>3, <1>5, <1>6, <1>7 DEF Lands

\* A rollback to a savepoint: the view is the savepoint's, and the log the one it had then.
LEMMA RollbackToLands == ASSUME Lands, NEW d \in Nat, RollbackToSavepoint(d) PROVE Lands'
<1>0. Safe /\ Safe' /\ depth \in Nat
  BY RollbackToSafe, SafeFacts DEF Lands
<1>1. /\ layers' = layers /\ head' = head /\ promised' = promised /\ replica' = replica /\ start' = start
      /\ d < depth /\ phase = "body"
  BY DEF RollbackToSavepoint
<1>2. Live' = Live /\ Live = registered
  BY Zenon DEF RollbackToSavepoint, Live
<1>3. PICK org \in [Conns -> Nat] : Tracked(org)
  BY DEF Lands
<1>4. ASSUME NEW c \in Live'
      PROVE  /\ Traces(layers, head, conn'[c], org[c], start'[c], changes'[c], saved'[c])
             /\ Refs(conn'[c]) \subseteq Refs(conn[c])
  <2> DEFINE r == conn[c]
             q == RolledBackTo(r, d)
             e == r.savepoints[d + 1]
  <2>1. c \in Conns /\ c \in registered /\ c \in Live
    BY <1>0, <1>2, LiveFacts
  <2>2. conn'[c] = q /\ saved'[c] = SubSeq(saved[c], 1, d + 1) /\ changes'[c] = saved[c][d + 1]
    BY Zenon, <2>1 DEF RollbackToSavepoint
  <2>3. Traces(layers, head, r, org[c], start[c], changes[c], saved[c]) /\ Len(r.savepoints) = depth
        /\ Len(saved[c]) = depth /\ saved[c] \in Seq(Seq(Change))
    BY Zenon, <1>0, <1>1, <1>3, <2>1 DEF Tracked, Safe, Lockstep, Shapes
  <2>4. /\ Len(q.savepoints) = d + 1 /\ q.pending = NoLayer /\ q.explicit = r.explicit
        /\ q.readLayer = (IF e.snapshot = NoLayer THEN e.readLayer ELSE e.snapshot)
        /\ q.readSnapshot = (IF e.snapshot = NoLayer THEN e.readSnapshot ELSE e.snapshot)
        /\ \A i \in 1..(d + 1) : q.savepoints[i] = r.savepoints[i]
    <3>1. r \in ConnShape(Len(layers)) /\ Fixed(layers, r)
      BY Zenon, <1>0, <2>1, SafeFacts
    <3>2. Len(layers) \in Nat /\ d < Len(r.savepoints)
      BY Zenon, <1>0, <1>1, <2>3, SafeFacts
    <3> HIDE DEF r
    <3> QED BY <3>1, <3>2, RolledBackToShape
  <2>5. Len(saved'[c]) = d + 1 /\ \A i \in 1..(d + 1) : saved'[c][i] = saved[c][i]
    BY <1>0, <1>1, <2>2, <2>3
  <2>6. d + 1 \in 1..depth /\ \A i \in 1..(d + 1) : i \in 1..depth
    BY <1>0, <1>1
  <2>7. Viewed(conn'[c]) = Target(e)
    BY Zenon, <2>2, <2>4 DEF Viewed, Target
  <2>8. /\ Follows(layers, org[c], Target(e), saved[c][d + 1])
        /\ (e.snapshot = NoLayer /\ e.readSnapshot = NoLayer) => e.readLayer = org[c]
        /\ Target(e) \in Refs(r)
    BY Zenon, <2>3, <2>6 DEF Traces, Refs
  <2>9. (q.pending = NoLayer /\ q.readSnapshot = NoLayer) => q.readLayer = org[c]
    BY Zenon, <2>4, <2>8
  <2> HIDE DEF r, q, e
  <2>10. Refs(conn'[c]) \subseteq Refs(r)
    <3>1. \A i \in 1..(d + 1) : Target(conn'[c].savepoints[i]) \in Refs(r)
      BY Zenon, <2>2, <2>3, <2>4, <2>6 DEF Refs
    <3>2. Viewed(conn'[c]) \in Refs(r) /\ Len(conn'[c].savepoints) = d + 1
      BY Zenon, <2>2, <2>4, <2>7, <2>8
    <3> QED BY Zenon, <3>1, <3>2 DEF Refs
  <2>11. Follows(layers, org[c], Viewed(conn'[c]), changes'[c])
    BY Zenon, <2>2, <2>7, <2>8
  <2>12. /\ org[c] \in Chain(layers, head) /\ layers[org[c]].rows = start'[c] /\ conn'[c].explicit
         /\ Len(saved'[c]) = Len(conn'[c].savepoints)
    BY Zenon, <1>1, <2>2, <2>3, <2>4, <2>5 DEF Traces
  <2>13. ASSUME NEW i \in 1..Len(conn'[c].savepoints)
         PROVE  /\ Follows(layers, org[c], Target(conn'[c].savepoints[i]), saved'[c][i])
                /\ (conn'[c].savepoints[i].snapshot = NoLayer /\ conn'[c].savepoints[i].readSnapshot = NoLayer)
                      => conn'[c].savepoints[i].readLayer = org[c]
    <3>1. i \in 1..(d + 1) /\ i \in 1..Len(r.savepoints)
      BY Zenon, <2>2, <2>3, <2>4, <2>6
    <3>2. conn'[c].savepoints[i] = r.savepoints[i] /\ saved'[c][i] = saved[c][i]
      BY Zenon, <2>2, <2>4, <2>5, <3>1
    <3> QED BY Zenon, <2>3, <3>1, <3>2 DEF Traces
  <2>14. Traces(layers, head, conn'[c], org[c], start'[c], changes'[c], saved'[c])
    BY Zenon, <2>2, <2>9, <2>11, <2>12, <2>13 DEF Traces
  <2> QED BY <2>10, <2>14 DEF r
<1>5. Tracked(org)'
  BY Zenon, <1>1, <1>2, <1>3, <1>4, TracedOn
<1>6. Resting'
  <2>1. \A c \in Conns \ Live : conn'[c] = conn[c]
    BY <1>2 DEF RollbackToSavepoint
  <2> QED BY Zenon, <1>1, <1>2, <2>1 DEF Lands, Resting
<1>7. Landed'
  BY <1>1 DEF Lands, Landed
<1> QED BY <1>0, <1>3, <1>5, <1>6, <1>7 DEF Lands

\* A savepoint is created: it points to the view, and the view stays.
LEMMA CreateSavepointLands == ASSUME Lands, CreateSavepoint PROVE Lands'
<1>0. /\ Safe /\ Safe' /\ Sound(layers) /\ Sound(layers') /\ Len(layers') = Len(layers) /\ Len(layers) \in Nat
      /\ head \in 1..Len(layers)
  BY Zenon, CreateSavepointSafe, SavepointLayers, SafeFacts DEF Lands
<1>1. /\ head' = head /\ promised' = promised /\ replica' = replica /\ start' = start
      /\ changes' = changes /\ phase = "body"
  BY Zenon DEF CreateSavepoint
<1>2. Live' = Live /\ Live = registered
  BY DEF CreateSavepoint, Live
<1>3. PICK org \in [Conns -> Nat] : Tracked(org)
  BY Zenon DEF Lands
<1>4. Grown(layers, layers', NoLayer)
  BY <1>0, SavepointLayers DEF Grown
<1>5. \A l \in 0..Len(layers) : Chain(layers', l) = Chain(layers, l) /\ (l # 0 => NoLayer \notin Chain(layers, l))
  <2>1. \A l \in 0..Len(layers) : Chain(layers', l) = Chain(layers, l)
    BY Zenon, <1>0, <1>4, ChainKept, SoundFacts
  <2>2. \A l \in 1..Len(layers) : NoLayer \notin Chain(layers, l)
    BY <1>0, ChainBelow, SoundFacts DEF NoLayer
  <2> QED BY <2>1, <2>2
<1>6. Chain(layers', head') = Chain(layers, head)
  BY <1>0, <1>1, <1>5
<1>7. ASSUME NEW c \in Live
      PROVE  /\ Traces(layers', head', conn'[c], org[c], start'[c], changes'[c], saved'[c])
             /\ Own(layers', conn'[c], org[c]) = Own(layers, conn[c], org[c])
  <2> DEFINE r == conn[c]
             q == SavepointCreated(r)
             e == [snapshot |-> r.pending, readLayer |-> r.readLayer, readSnapshot |-> r.readSnapshot]
             o == org[c]
             n == Len(r.savepoints)
  <2>1. c \in Conns /\ c \in registered /\ r \in ConnShape(Len(layers)) /\ Fixed(layers, r)
    BY Zenon, <1>0, <1>2, LiveFacts, SafeFacts
  <2>2. conn'[c] = q /\ saved'[c] = Append(saved[c], changes[c])
    BY Zenon, <2>1 DEF CreateSavepoint
  <2>3. Traces(layers, head, r, o, start[c], changes[c], saved[c])
    BY <1>3 DEF Tracked
  <2>4. /\ saved[c] \in Seq(Seq(Change)) /\ changes[c] \in Seq(Change) /\ Len(saved[c]) = n /\ n \in Nat
        /\ r.savepoints \in Seq(EntryShape(Len(layers)))
    <3>1. saved[c] \in Seq(Seq(Change)) /\ changes[c] \in Seq(Change)
      BY Zenon, <1>0, <2>1 DEF Safe, Shapes
    <3>2. r.savepoints \in Seq(EntryShape(Len(layers)))
      BY Zenon, <1>0, <2>1, SafeFacts
    <3>3. Len(saved[c]) = n
      BY Zenon, <2>3 DEF Traces
    <3> HIDE DEF r
    <3> QED BY <3>1, <3>2, <3>3
  <2>5. /\ q.savepoints = Append(r.savepoints, e) /\ q.pending = NoLayer /\ q.explicit
        /\ q.readLayer = (IF r.pending = NoLayer THEN r.readLayer ELSE r.pending)
        /\ q.readSnapshot = (IF r.pending = NoLayer THEN r.readSnapshot ELSE r.pending)
    <3>1. Fixed(layers', r) /\ (r.pending # NoLayer => layers'[r.pending].frozen)
      <4>1. r.pending # NoLayer => r.pending \in 1..Len(layers)
        BY <2>1 DEF ConnShape, NoLayer
      <4>2. Fixed(layers', r)
        BY Zenon, <2>1, SavepointLayers, FixedKept, <1>0
      <4> QED BY Zenon, <1>0, <2>1, <4>1, <4>2, SavepointLayers
    <3> QED BY Zenon, <1>0, <2>1, <3>1, SavepointShape
  <2>6. Traces(layers', head', r, o, start[c], changes[c], saved[c]) /\ Own(layers', r, o) = Own(layers, r, o)
    <3>1. \A l \in Refs(r) : NoLayer \notin Chain(layers, l)
      BY <1>0, <1>5, <2>1, RefsExist
    <3>2. Beyond(layers, head, layers', head')
      BY Zenon, <1>6 DEF Beyond
    <3> HIDE DEF r, o
    <3> QED BY <1>0, <1>4, <2>1, <2>3, <3>1, <3>2, TraceCarried
  <2>7. /\ Len(q.savepoints) = n + 1 /\ q.savepoints[n + 1] = e /\ \A i \in 1..n : q.savepoints[i] = r.savepoints[i]
        /\ Len(saved'[c]) = n + 1 /\ saved'[c][n + 1] = changes[c] /\ \A i \in 1..n : saved'[c][i] = saved[c][i]
    BY <2>2, <2>4, <2>5
  <2>8. Viewed(q) = Viewed(r) /\ Target(e) = Viewed(r) /\ e.snapshot = r.pending
        /\ e.readSnapshot = r.readSnapshot /\ e.readLayer = r.readLayer
    BY <2>5 DEF Viewed, Target
  <2>9. \A i \in 1..(n + 1) : i \in 1..n \/ i = n + 1
    <3>1. n \in Nat
      BY Zenon, <2>4
    <3> HIDE DEF n
    <3> QED BY <3>1
  <2>9a. 1..n \subseteq 1..(n + 1) /\ n + 1 \in 1..(n + 1)
    BY <2>4
  <2>10. (q.readSnapshot = NoLayer) => (r.pending = NoLayer /\ r.readSnapshot = NoLayer /\ q.readLayer = r.readLayer)
    BY <2>5
  <2> HIDE DEF q, e, r, n
  <2>11. Refs(q) = Refs(r)
    <3>1. {Target(q.savepoints[i]) : i \in 1..(n + 1)} = {Target(r.savepoints[i]) : i \in 1..n} \cup {Viewed(r)}
      BY Zenon, <2>7, <2>8, <2>9, <2>9a
    <3> QED BY ZenonT(30), <2>7, <2>8, <3>1 DEF Refs, n
  <2>12. Own(layers', q, o) = Own(layers, r, o)
    BY Zenon, <2>6, <2>11 DEF Own
  <2>13. ASSUME NEW i \in 1..(n + 1)
         PROVE  /\ Follows(layers', o, Target(q.savepoints[i]), saved'[c][i])
                /\ (q.savepoints[i].snapshot = NoLayer /\ q.savepoints[i].readSnapshot = NoLayer)
                      => q.savepoints[i].readLayer = o
    <3>1. CASE i \in 1..n
      BY Zenon, <2>6, <2>7, <3>1 DEF Traces, n
    <3>2. CASE i = n + 1
      BY Zenon, <2>6, <2>7, <2>8, <3>2 DEF Traces
    <3> QED BY Zenon, <2>9, <3>1, <3>2
  <2>14. Traces(layers', head', q, o, start'[c], changes'[c], saved'[c])
    BY Zenon, <1>1, <2>5, <2>6, <2>7, <2>8, <2>10, <2>13 DEF Traces
  <2> QED BY Zenon, <2>2, <2>12, <2>14 DEF r
<1>8. Tracked(org)'
  <2>1. \A c \in Live' :
        /\ Traces(layers', head', conn'[c], org[c], start'[c], changes'[c], saved'[c])
        /\ Own(layers', conn'[c], org[c]) \cap Chain(layers', head') = {}
        /\ \A b \in Live' : b # c => Own(layers', conn'[c], org[c]) \cap Own(layers', conn'[b], org[b]) = {}
    BY Zenon, <1>2, <1>3, <1>6, <1>7 DEF Tracked
  <2> QED BY <2>1, Zenon DEF Tracked
<1>9. Resting'
  <2>1. \A c \in Conns \ Live : conn'[c] = conn[c]
    BY Zenon, <1>2 DEF CreateSavepoint
  <2> QED BY Zenon, <1>2, <1>6, <2>1 DEF Lands, Resting
<1>10. Landed'
  <2>1. layers'[head'].rows = layers[head].rows
    BY <1>0, <1>1, SavepointLayers
  <2> QED BY Zenon, <1>1, <2>1 DEF Lands, Landed
<1> QED BY Zenon, <1>0, <1>3, <1>8, <1>9, <1>10 DEF Lands


\* A layer that follows another goes on doing so while its chain does not change.
LEMMA FollowsKept ==
    ASSUME NEW ls, Sound(ls), NEW lt, Sound(lt), NEW p, Grown(ls, lt, p),
           NEW l \in 1..Len(ls), NEW o, NEW w, Follows(ls, o, l, w), p \notin Chain(ls, l)
    PROVE  Follows(lt, o, l, w)
<1>0. Len(ls) \in Nat /\ Tree(ls) /\ Logged(ls) /\ Len(lt) \in Nat /\ Tree(lt) /\ Logged(lt)
  BY SoundFacts
<1>1. l \in Chain(ls, l) /\ o \in Chain(ls, l) /\ o \in 1..Len(ls) /\ l \in 0..Len(ls)
  BY <1>0, ChainBelow DEF Follows
<1>2. Chain(lt, l) = Chain(ls, l)
  BY <1>0, <1>1, ChainKept
<1>3. lt[l].rows = ls[l].rows /\ lt[o].rows = ls[o].rows
  BY <1>1 DEF Grown
<1>4. WritesAbove(lt, l, o) = WritesAbove(ls, l, o)
  BY <1>0, <1>1, WritesKept
<1> QED BY <1>1, <1>2, <1>3, <1>4 DEF Follows

\* A pending layer is in no chain but its own: not in the head's, not in that of any layer
\* another connection refers to, or a savepoint.
LEMMA PendingApart ==
    ASSUME Safe, NEW c \in Conns, NEW l, l = conn[c].pending, l # NoLayer
    PROVE  /\ l \in 1..Len(layers) /\ ~layers[l].frozen /\ l \notin Chain(layers, head)
           /\ \A m \in 1..Len(layers) : m # l => l \notin Chain(layers, m)
           /\ \A b \in Conns : b # c => \A x \in Refs(conn[b]) : l \notin Chain(layers, x)
           /\ \A i \in 1..Len(conn[c].savepoints) : l \notin Chain(layers, Target(conn[c].savepoints[i]))
           /\ l \notin Chain(layers, conn[c].readLayer)
<1>0. Sound(layers) /\ Len(layers) \in Nat /\ head \in 1..Len(layers) /\ layers[head].frozen /\ Tree(layers)
  BY SafeFacts, SoundFacts
<1>1. l \in 1..Len(layers) /\ ~layers[l].frozen
  BY SafeFacts DEF Safe, Private, NoLayer
<1>2. ASSUME NEW m \in 1..Len(layers), m # l PROVE l \notin Chain(layers, m)
  BY Zenon, <1>0, <1>1, <1>2, OpenHasNoChildren, LeafAlone
<1>3. ASSUME NEW b \in Conns, NEW i \in 1..Len(conn[b].savepoints)
      PROVE  Target(conn[b].savepoints[i]) \in 1..Len(layers) /\ Target(conn[b].savepoints[i]) # l
  <2>1. conn[b] \in ConnShape(Len(layers)) /\ Fixed(layers, conn[b])
    BY SafeFacts
  <2>2. Target(conn[b].savepoints[i]) \in 1..Len(layers)
    BY Zenon, <1>0, <2>1, RefsExist
  <2>3. layers[Target(conn[b].savepoints[i])].frozen
    BY <2>1 DEF Fixed, Target
  <2> QED BY <1>1, <2>2, <2>3
<1>4. ASSUME NEW b \in Conns PROVE conn[b].readLayer \in 1..Len(layers) /\ conn[b].readLayer # l
  BY <1>1, SafeFacts DEF Fixed
<1>5. ASSUME NEW b \in Conns, b # c, NEW x \in Refs(conn[b]) PROVE x \in 1..Len(layers) /\ x # l
  <2>1. conn[b].pending # l /\ conn[b].pending \in 0..Len(layers)
    BY <1>5, SafeFacts DEF Safe, Private
  <2>2. Viewed(conn[b]) \in 1..Len(layers) /\ Viewed(conn[b]) # l
    BY <1>0, <1>4, <2>1 DEF Viewed, NoLayer
  <2> QED BY <1>3, <2>2 DEF Refs
<1> QED BY Zenon, <1>0, <1>1, <1>2, <1>3, <1>4, <1>5

\* What changes for the transaction that writes: its view takes the log, and at most the new
\* layer is added to the layers it made.
LEMMA MutationTrace ==
    ASSUME Safe, NEW c \in Conns, NEW log \in Seq(Change), NEW l \in 1..Len(layers'), Mutated(c, log, l),
           NEW o, Traces(layers, head, conn[c], o, start[c], changes[c], saved[c])
    PROVE  /\ Follows(layers', o, l, changes[c] \o log)
           /\ Chain(layers', l) \subseteq Chain(layers, Viewed(conn[c])) \cup {l}
           /\ l \notin Chain(layers, head)
           /\ \A m \in 1..Len(layers) : m # l => l \notin Chain(layers, m)
           /\ (l \in Chain(layers, Viewed(conn[c])) \/ l = Len(layers) + 1)
<1> DEFINE v == Viewed(conn[c])
           r == conn[c].readLayer
           w == changes[c]
<1>0. /\ Sound(layers) /\ Len(layers) \in Nat /\ head \in 1..Len(layers) /\ Tree(layers) /\ Logged(layers)
      /\ Sound(layers') /\ Len(layers') \in Nat /\ Tree(layers') /\ Logged(layers') /\ w \in Seq(Change)
  BY Zenon, SafeFacts, SoundFacts DEF Mutated, Safe, Shapes
<1>1. Grown(layers, layers', l)
  BY <1>0 DEF Mutated, Grown
<1>2. /\ Follows(layers, o, v, w) /\ o \in Chain(layers, head) /\ o \in 1..Len(layers) /\ layers[o].rows \in Table
      /\ v \in 1..Len(layers) /\ r \in 1..Len(layers)
  <2>1. Follows(layers, o, v, w) /\ o \in Chain(layers, head)
    BY DEF Traces
  <2>2. o \in 1..Len(layers) /\ v \in 1..Len(layers) /\ r \in 1..Len(layers)
    BY <1>0, <2>1, ChainBelow, RefsExist, SafeFacts
  <2> QED BY Zenon, <1>0, <2>1, <2>2, SoundFacts
<1>3. \A x \in 0..Len(layers) : Chain(layers', x) = Chain(layers, x)
  BY <1>0, <1>1, ChainKept
<1>4. Apply(Apply(layers[o].rows, w), log) = Apply(layers[o].rows, w \o log)
  BY <1>0, <1>2, ApplyBoth
<1>5. Chain(layers', l) = {l} \cup Chain(layers', layers'[l].parent)
  BY <1>0, ChainWalk
<1>6. l # o => WritesAbove(layers', l, o) = WritesAbove(layers', layers'[l].parent, o) \o layers'[l].writes
  BY Zenon, <1>0, WritesWalk
<1>7. CASE conn[c].pending = NoLayer
  <2>1. /\ l = Len(layers) + 1 /\ layers'[l].parent = r /\ layers'[l].writes = log /\ v = r
        /\ layers'[l].rows = Apply(layers[r].rows, log)
    BY <1>0, <1>7 DEF Mutated, Viewed, NoLayer
  <2>2. \A m \in 1..Len(layers) : l \notin Chain(layers, m)
    BY <1>0, <2>1, ChainBelow
  <2>3. l # o
    BY <1>0, <1>2, <2>1
  <2>4. Follows(layers', o, r, w)
    <3>1. l \notin Chain(layers, r)
      BY Zenon, <1>2, <2>2
    <3> HIDE DEF v, r, w
    <3> QED BY Zenon, <1>0, <1>1, <1>2, <2>1, <3>1, FollowsKept
  <2>5. layers'[o].rows = layers[o].rows /\ layers[r].rows = Apply(layers[o].rows, w)
    BY Zenon, <1>1, <1>2, <2>1, <2>3 DEF Grown, Follows
  <2>6. Follows(layers', o, l, w \o log)
    <3>1. o \in Chain(layers', l) /\ WritesAbove(layers', l, o) = w \o log
      BY Zenon, <1>5, <1>6, <2>1, <2>3, <2>4 DEF Follows
    <3>2. layers'[l].rows = Apply(layers'[o].rows, w \o log)
      BY <1>4, <2>1, <2>5
    <3> QED BY Zenon, <3>1, <3>2 DEF Follows
  <2>7. Chain(layers', l) \subseteq Chain(layers, v) \cup {l}
    <3>1. r \in 0..Len(layers)
      BY <1>0, <1>2
    <3>2. Chain(layers', r) = Chain(layers, v)
      BY Zenon, <3>1, <1>3, <2>1
    <3> QED BY <1>5, <2>1, <3>2
  <2> QED BY Zenon, <1>0, <2>1, <2>2, <2>6, <2>7
<1>8. CASE conn[c].pending # NoLayer
  <2>1. /\ conn[c].pending = l /\ l \in 1..Len(layers) /\ v = l
        /\ layers'[l].parent = layers[l].parent /\ layers'[l].writes = layers[l].writes \o log
        /\ layers'[l].rows = Apply(layers[l].rows, log)
    BY Zenon, <1>0, <1>8 DEF Mutated, Viewed
  <2>2. l \notin Chain(layers, head) /\ \A m \in 1..Len(layers) : m # l => l \notin Chain(layers, m)
    BY Zenon, <1>8, <2>1, PendingApart
  <2>3. l # o
    BY <1>2, <2>2
  <2> DEFINE p == layers[l].parent
  <2>4. p \in 1..Len(layers) /\ p # l /\ p \in 0..Len(layers)
    <3>1. p \in 0..(l - 1)
      BY Zenon, <1>0, <2>1 DEF Tree
    <3>2. o \in Chain(layers, p)
      <4>1. Chain(layers, l) = {l} \cup Chain(layers, p)
        BY Zenon, <1>0, <2>1, ChainWalk
      <4> QED BY Zenon, <1>2, <2>1, <2>3, <4>1 DEF Follows
    <3>3. p # NoLayer
      BY <1>0, <3>2, ChainWalk
    <3> QED BY <1>0, <2>1, <3>1, <3>3 DEF NoLayer
  <2>5. /\ WritesAbove(layers, l, o) = WritesAbove(layers, p, o) \o layers[l].writes
        /\ WritesAbove(layers, p, o) \in Seq(Change) /\ layers[l].writes \in Seq(Change)
    BY ZenonT(30), <1>0, <2>1, <2>3, <2>4, WritesWalk DEF Logged
  <2>6. WritesAbove(layers', p, o) = WritesAbove(layers, p, o)
    <3>1. l \notin Chain(layers, p)
      BY <2>2, <2>4
    <3> HIDE DEF p
    <3> QED BY <1>0, <1>1, <2>4, <3>1, WritesKept
  <2>7. WritesAbove(layers', l, o) = w \o log
    <3>1. WritesAbove(layers', l, o) = WritesAbove(layers, p, o) \o (layers[l].writes \o log)
      BY Zenon, <1>6, <2>1, <2>3, <2>6
    <3>2. w = WritesAbove(layers, p, o) \o layers[l].writes
      BY ZenonT(30), <1>2, <2>1, <2>5 DEF Follows
    <3>3. \A x, y \in Seq(Change) : x \o (y \o log) = (x \o y) \o log
      OBVIOUS
    <3> QED BY Zenon, <2>5, <3>1, <3>2, <3>3
  <2>8. layers'[l].rows = Apply(layers'[o].rows, w \o log)
    <3>1. layers'[o].rows = layers[o].rows /\ layers[l].rows = Apply(layers[o].rows, w)
      BY Zenon, <1>1, <1>2, <2>1, <2>3 DEF Grown, Follows
    <3> QED BY <1>4, <2>1, <3>1
  <2>9. Chain(layers', l) = Chain(layers, l) /\ o \in Chain(layers, l) /\ l \in Chain(layers, l)
    <3>1. l \in 0..Len(layers)
      BY <1>0, <2>1
    <3> QED BY Zenon, <1>0, <1>2, <1>3, <2>1, <3>1, ChainBelow DEF Follows
  <2> QED BY Zenon, <2>1, <2>2, <2>7, <2>8, <2>9 DEF Follows
<1> QED BY Zenon, <1>7, <1>8

\* A row operation: the writer's log and view take the change, the others do not see it.
LEMMA MutationLands == ASSUME Lands, NEW c \in Conns, NEW log \in Seq(Change), PerformMutation(c, log) PROVE Lands'
<1>0. /\ Safe /\ Safe' /\ Sound(layers) /\ Len(layers) \in Nat /\ head \in 1..Len(layers)
      /\ Tree(layers) /\ conn \in [Conns -> ConnShape(Len(layers))]
  BY Zenon, MutationSafe, SafeFacts, SoundFacts DEF Lands, Safe, Shapes
<1>1. /\ head' = head /\ promised' = promised /\ replica' = replica /\ start' = start /\ saved' = saved
      /\ changes' = [changes EXCEPT ![c] = @ \o log] /\ phase = "body" /\ c \in registered
  BY DEF PerformMutation
<1>2. Live' = Live /\ Live = registered
  BY <1>1 DEF PerformMutation, engine, Live
<1>3. PICK org \in [Conns -> Nat] : Tracked(org)
  BY DEF Lands
<1>4. PICK l \in 1..Len(layers') : Mutated(c, log, l)
  BY <1>0, MutationLayers
<1>5. c \in Live /\ Live \subseteq Conns /\ Sound(layers') /\ Len(layers') \in Nat /\ Tree(layers')
  BY <1>0, <1>1, <1>2, <1>4, LiveFacts, SoundFacts DEF Mutated
<1>6. Traces(layers, head, conn[c], org[c], start[c], changes[c], saved[c])
  BY <1>3, <1>5 DEF Tracked
<1>7. /\ Follows(layers', org[c], l, changes[c] \o log)
      /\ Chain(layers', l) \subseteq Chain(layers, Viewed(conn[c])) \cup {l}
      /\ l \notin Chain(layers, head)
      /\ \A m \in 1..Len(layers) : m # l => l \notin Chain(layers, m)
      /\ (l \in Chain(layers, Viewed(conn[c])) \/ l = Len(layers) + 1)
  BY Zenon, <1>0, <1>4, <1>6, MutationTrace
<1>8. Grown(layers, layers', l)
  BY <1>4 DEF Mutated, Grown
<1>9. /\ \A x \in 0..Len(layers) : Chain(layers', x) = Chain(layers, x)
      /\ Chain(layers', head') = Chain(layers, head)
  <2>1. \A x \in 0..Len(layers) : Chain(layers', x) = Chain(layers, x)
    BY Zenon, <1>0, <1>5, <1>8, ChainKept
  <2> QED BY <1>0, <1>1, <2>1
<1>10. /\ \A b \in Conns : b # c => conn'[b] = conn[b] /\ changes'[b] = changes[b]
       /\ conn'[c] = [conn[c] EXCEPT !.pending = l] /\ changes'[c] = changes[c] \o log
  BY Zenon, <1>0, <1>1, <1>4 DEF Mutated, Safe, Shapes
<1>11. ASSUME NEW b \in Live, b # c
       PROVE  /\ Traces(layers', head', conn'[b], org[b], start'[b], changes'[b], saved'[b])
              /\ Own(layers', conn'[b], org[b]) = Own(layers, conn[b], org[b])
              /\ l \notin Own(layers, conn[b], org[b])
  <2>1. /\ conn'[b] = conn[b] /\ changes'[b] = changes[b] /\ b \in Conns /\ conn[b] \in ConnShape(Len(layers))
        /\ Traces(layers, head, conn[b], org[b], start[b], changes[b], saved[b])
    BY <1>0, <1>3, <1>5, <1>10, <1>11 DEF Tracked
  <2>2. \A x \in Refs(conn[b]) : x \in 1..Len(layers) /\ l \notin Chain(layers, x)
    <3>1. Refs(conn[b]) \subseteq 1..Len(layers)
      BY <1>0, <2>1, RefsExist
    <3>2. CASE conn[c].pending = NoLayer
      <4>1. l = Len(layers) + 1
        BY <1>4, <3>2 DEF Mutated, NoLayer
      <4>2. \A x \in 1..Len(layers) : x # l
        BY <4>1, <1>0
      <4> QED BY Zenon, <1>7, <3>1, <4>2
    <3>3. CASE conn[c].pending # NoLayer
      <4>1. conn[c].pending = l
        BY <1>4, <3>3 DEF Mutated
      <4> QED BY Zenon, <1>0, <1>11, <2>1, <3>1, <3>3, <4>1, PendingApart
    <3> QED BY Zenon, <3>2, <3>3
  <2>3. Beyond(layers, head, layers', head')
    BY ZenonT(30), <1>9 DEF Beyond
  <2>4. /\ Traces(layers', head', conn[b], org[b], start[b], changes[b], saved[b])
        /\ Own(layers', conn[b], org[b]) = Own(layers, conn[b], org[b])
    BY <1>0, <1>5, <1>8, <2>1, <2>2, <2>3, TraceCarried
  <2>5. l \notin Own(layers, conn[b], org[b])
    BY <2>2, Zenon DEF Own
  <2> QED BY <1>1, <2>1, <2>4, <2>5
<1> DEFINE r == conn[c]
           q == conn'[c]
           o == org[c]
<1>12. /\ r \in ConnShape(Len(layers)) /\ q.pending = l /\ q.readLayer = r.readLayer /\ q.explicit = r.explicit
       /\ q.savepoints = r.savepoints /\ q.readSnapshot = r.readSnapshot /\ l # NoLayer
  BY <1>0, <1>5, <1>10 DEF ConnShape, NoLayer
<1>13. Viewed(q) = l
  BY <1>12 DEF Viewed
<1>14. ASSUME NEW i \in 1..Len(r.savepoints)
       PROVE  /\ Target(r.savepoints[i]) \in 1..Len(layers) /\ l \notin Chain(layers, Target(r.savepoints[i]))
  <2>1. Target(r.savepoints[i]) \in 1..Len(layers)
    BY Zenon, <1>0, <1>12, RefsExist
  <2>2. CASE conn[c].pending = NoLayer
    <3>1. l = Len(layers) + 1
      BY <1>4, <2>2 DEF Mutated, NoLayer
    <3>2. Target(r.savepoints[i]) # l
      BY <3>1, <1>0, <2>1
    <3> QED BY Zenon, <1>7, <2>1, <3>2
  <2>3. CASE conn[c].pending # NoLayer
    <3>1. conn[c].pending = l
      BY <1>4, <2>3 DEF Mutated
    <3> QED BY Zenon, <1>0, <2>1, <2>3, <3>1, PendingApart
  <2> QED BY Zenon, <2>2, <2>3
<1>15. l # o /\ layers'[o].rows = layers[o].rows
  <2>1. o \in Chain(layers, head)
    BY <1>6 DEF Traces
  <2>2. o \in 1..Len(layers)
    BY <1>0, <2>1, ChainBelow
  <2> QED BY Zenon, <1>7, <1>8, <2>1, <2>2 DEF Grown
<1> HIDE DEF r, q, o
<1>16. Traces(layers', head', q, o, start'[c], changes'[c], saved'[c])
  <2>1. /\ o \in Chain(layers', head') /\ layers'[o].rows = start'[c] /\ q.explicit
        /\ Len(saved'[c]) = Len(q.savepoints)
    BY Zenon, <1>1, <1>6, <1>9, <1>12, <1>15 DEF Traces, r, o
  <2>2. Follows(layers', o, Viewed(q), changes'[c])
    BY <1>7, <1>10, <1>13 DEF o
  <2>3. ASSUME NEW i \in 1..Len(r.savepoints)
        PROVE  /\ Follows(layers', o, Target(r.savepoints[i]), saved[c][i])
               /\ (r.savepoints[i].snapshot = NoLayer /\ r.savepoints[i].readSnapshot = NoLayer)
                     => r.savepoints[i].readLayer = o
    <3>1. /\ Follows(layers, o, Target(r.savepoints[i]), saved[c][i])
          /\ (r.savepoints[i].snapshot = NoLayer /\ r.savepoints[i].readSnapshot = NoLayer)
                => r.savepoints[i].readLayer = o
      BY <1>6 DEF Traces, r, o
    <3> QED BY ZenonT(30), <1>0, <1>5, <1>8, <1>14, <3>1, FollowsKept
  <2>4. q.pending # NoLayer
    BY <1>12
  <2> QED BY Zenon, <1>1, <1>12, <2>1, <2>2, <2>3, <2>4 DEF Traces
<1>17. Own(layers', q, o) \subseteq Own(layers, r, o) \cup {l}
  <2>1. ASSUME NEW x \in Own(layers', q, o), x # l PROVE x \in Own(layers, r, o)
    <3>1. PICK m \in Refs(q) : x \in Chain(layers', m) /\ x \notin Chain(layers', o)
      BY DEF Own
    <3>2. o \in 0..Len(layers)
      <4>1. o \in Chain(layers, head)
        BY <1>6 DEF Traces, o
      <4> QED BY <1>0, <4>1, ChainBelow
    <3>3. x \notin Chain(layers, o)
      BY <1>9, <3>1, <3>2
    <3>4. CASE m = l
      <4>1. x \in Chain(layers, Viewed(r)) /\ Viewed(r) \in Refs(r)
        BY Zenon, <1>7, <2>1, <3>1, <3>4 DEF Refs, r
      <4> QED BY <3>3, <4>1, Zenon DEF Own
    <3>5. CASE m # l
      <4>1. PICK i \in 1..Len(q.savepoints) : m = Target(q.savepoints[i])
        BY Zenon, <1>13, <3>5 DEF Refs
      <4>2. m = Target(r.savepoints[i]) /\ i \in 1..Len(r.savepoints)
        BY <1>12, <4>1
      <4>3. m \in 0..Len(layers) /\ m \in Refs(r)
        BY <1>0, <1>14, <4>2 DEF Refs
      <4>4. x \in Chain(layers, m)
        BY <1>9, <3>1, <4>3
      <4> QED BY <3>3, <4>3, <4>4, Zenon DEF Own
    <3> QED BY <3>4, <3>5
  <2> QED BY <2>1
<1>18. Tracked(org)'
  <2>1. /\ Own(layers, r, o) \cap Chain(layers, head) = {}
        /\ \A b \in Live : b # c => Own(layers, r, o) \cap Own(layers, conn[b], org[b]) = {}
    BY Zenon, <1>3, <1>5 DEF Tracked, r, o
  <2>2. Own(layers', q, o) \cap Chain(layers', head') = {}
    BY Zenon, <1>7, <1>9, <1>17, <2>1
  <2>3. ASSUME NEW b \in Live, b # c PROVE Own(layers', q, o) \cap Own(layers', conn'[b], org[b]) = {}
    BY Zenon, <1>11, <1>17, <2>1, <2>3
  <2>4. ASSUME NEW a \in Live
        PROVE  /\ Traces(layers', head', conn'[a], org[a], start'[a], changes'[a], saved'[a])
               /\ Own(layers', conn'[a], org[a]) \cap Chain(layers', head') = {}
               /\ \A b \in Live : b # a => Own(layers', conn'[a], org[a]) \cap Own(layers', conn'[b], org[b]) = {}
    <3>1. CASE a = c
      BY ZenonT(30), <1>16, <2>2, <2>3, <3>1 DEF q, o
    <3>2. CASE a # c
      <4>1. /\ Own(layers, conn[a], org[a]) \cap Chain(layers, head) = {}
            /\ \A b \in Live : b # a => Own(layers, conn[a], org[a]) \cap Own(layers, conn[b], org[b]) = {}
        BY Zenon, <1>3 DEF Tracked
      <4>2. ASSUME NEW b \in Live, b # a PROVE Own(layers', conn'[a], org[a]) \cap Own(layers', conn'[b], org[b]) = {}
        <5>1. CASE b = c
          BY Zenon, <2>3, <3>2, <5>1 DEF q, o
        <5>2. CASE b # c
          BY Zenon, <1>11, <3>2, <4>1, <4>2, <5>2
        <5> QED BY <5>1, <5>2
      <4> QED BY Zenon, <1>9, <1>11, <3>2, <4>1, <4>2
    <3> QED BY ZenonT(30), <3>1, <3>2
  <2> QED BY <1>2, <2>4, Zenon DEF Tracked
<1>19. Resting'
  <2>1. \A b \in Conns \ Live : conn'[b] = conn[b]
    BY <1>5, <1>10
  <2> QED BY Zenon, <1>2, <1>9, <2>1 DEF Lands, Resting
<1>20. Landed'
  <2>1. layers'[head'].rows = layers[head].rows
    <3>1. head # l
      BY Zenon, <1>0, <1>7, ChainBelow
    <3> QED BY Zenon, <1>0, <1>1, <1>8, <3>1 DEF Grown
  <2> QED BY <1>1, <2>1 DEF Lands, Landed
<1> QED BY Zenon, <1>0, <1>3, <1>18, <1>19, <1>20 DEF Lands

-----------------------------------------------------------------------------
\* Commits.

\* The transaction of c began at o, and made no layer that is committed.
Began(c, o) ==
    /\ Traces(layers, head, conn[c], o, start[c], changes[c], saved[c])
    /\ Own(layers, conn[c], o) \cap Chain(layers, head) = {}

\* Of the committed layers, what a transaction sees are its origin and the layers below.
LEMMA SeenCommitted ==
    ASSUME Safe, NEW c \in Conns, NEW o, Began(c, o)
    PROVE  LET v == Viewed(conn[c]) IN
           /\ o \in 1..Len(layers) /\ v \in 1..Len(layers) /\ o \in Chain(layers, head) /\ layers[o].rows \in Table
           /\ Follows(layers, o, v, changes[c]) /\ changes[c] \in Seq(Change)
           /\ \A m \in Chain(layers, v) \cap Chain(layers, head) : m \in Chain(layers, o) /\ m <= o
           /\ head \in Chain(layers, v) => head = o
           /\ Chain(layers, v) \subseteq Chain(layers, head) \cup Own(layers, conn[c], o)
<1> DEFINE v == Viewed(conn[c])
<1>0. Sound(layers) /\ Len(layers) \in Nat /\ head \in 1..Len(layers) /\ Tree(layers) /\ changes[c] \in Seq(Change)
  BY SafeFacts, SoundFacts DEF Safe, Shapes
<1>1. o \in Chain(layers, head) /\ Follows(layers, o, v, changes[c])
  BY ZenonT(30) DEF Began, Traces
<1>2. o \in 1..Len(layers) /\ v \in 1..Len(layers) /\ o \in 1..head
  BY <1>0, <1>1, ChainBelow, RefsExist, SafeFacts
<1>3. v \in Refs(conn[c])
  BY DEF Refs
<1> HIDE DEF v
<1>4. Chain(layers, v) \subseteq Chain(layers, o) \cup Own(layers, conn[c], o)
  BY <1>3, Zenon DEF Own
<1>5. ASSUME NEW m \in Chain(layers, v) \cap Chain(layers, head) PROVE m \in Chain(layers, o) /\ m <= o
  <2>1. m \in Chain(layers, o)
    BY <1>4 DEF Began
  <2>2. m \in 1..o
    BY Zenon, <1>0, <1>2, <2>1, ChainBelow
  <2> QED BY <2>1, <2>2, <1>2
<1>6. head \in Chain(layers, v) => head = o
  <2>1. head \in Chain(layers, head)
    BY <1>0, ChainBelow
  <2>2. head \in Chain(layers, v) => head <= o
    BY Zenon, <1>5, <2>1
  <2> QED BY <1>0, <1>2, <2>2
<1>7. Chain(layers, v) \subseteq Chain(layers, head) \cup Own(layers, conn[c], o)
  BY Zenon, <1>0, <1>1, <1>4, ChainClosed
<1> QED BY Zenon, <1>0, <1>1, <1>2, <1>5, <1>6, <1>7, SoundFacts DEF v

\* A layer that follows the head becomes the head: the rows and the events are its log's.
LEMMA PublishedWhole ==
    ASSUME NEW ls, Sound(ls), head \in 1..Len(ls), NEW l \in 1..Len(ls), NEW w, Follows(ls, head, l, w)
    PROVE  LET out == Publish(ls, l) IN
           /\ out.head = l /\ out.events = w /\ out.ls[out.head].rows = Apply(ls[head].rows, w)
           /\ Chain(out.ls, out.head) = Chain(ls, l)
<1>0. Len(ls) \in Nat /\ Tree(ls) /\ Logged(ls)
  BY Zenon, SoundFacts
<1>1. Publish(ls, l) = [ls |-> Freeze(ls, l), head |-> l, events |-> w]
  BY DEF Publish, Follows
<1>2. /\ Sound(Freeze(ls, l)) /\ Len(Freeze(ls, l)) = Len(ls) /\ Freeze(ls, l)[l].rows = ls[l].rows
      /\ \A n \in 1..Len(ls) : n # l => Freeze(ls, l)[n] = ls[n]
      /\ Freeze(ls, l)[l].parent = ls[l].parent
  BY FreezeLayer
<1>3. Chain(Freeze(ls, l), l) = Chain(ls, l)
  <2> DEFINE lt == Freeze(ls, l)
  <2>1. Sound(lt) /\ Len(lt) = Len(ls) /\ Len(lt) \in Nat /\ Tree(lt) /\ l \in 0..Len(ls)
    BY <1>0, <1>2, SoundFacts
  <2>2. Grown(ls, lt, l)
    BY <1>0, <1>2 DEF Grown
  <2> HIDE DEF lt
  <2>3. Chain(lt, l) = Chain(ls, l)
    BY Zenon, <1>0, <2>1, <2>2, ChainKept
  <2> QED BY <2>3 DEF lt
<1> QED BY <1>1, <1>2, <1>3 DEF Follows

\* Layer n, the last of lt, is an empty one around layer v.
Wraps(ls, lt, n, v) ==
    /\ n = Len(ls) + 1 /\ Len(lt) = n /\ v \in 1..Len(ls) /\ \A m \in 1..Len(ls) : lt[m] = ls[m]
    /\ lt[n].parent = v /\ lt[n].writes = <<>> /\ lt[n].rows = ls[v].rows

\* An empty layer around one that follows o follows o.
LEMMA WrapFollows ==
    ASSUME NEW ls, Sound(ls), NEW lt, Sound(lt), NEW n, NEW v, Wraps(ls, lt, n, v),
           NEW o, NEW w, Follows(ls, o, v, w)
    PROVE  Follows(lt, o, n, w) /\ Chain(lt, n) = {n} \cup Chain(ls, v)
<1> USE DEF Wraps
<1>0. Len(ls) \in Nat /\ Tree(ls) /\ Logged(ls) /\ Len(lt) \in Nat /\ Tree(lt) /\ Logged(lt)
  BY SoundFacts
<1>1. n \in 1..Len(lt) /\ v \in 0..Len(ls) /\ \A m \in 1..Len(ls) : m # n
  BY <1>0
<1>2. Grown(ls, lt, n)
  BY <1>0, <1>1 DEF Grown
<1>3. Chain(lt, n) = {n} \cup Chain(lt, v) /\ Chain(lt, v) = Chain(ls, v) /\ Chain(ls, v) \subseteq 1..Len(ls)
  BY <1>0, <1>1, <1>2, ChainWalk, ChainKept, ChainBelow
<1>4. o \in 1..Len(ls) /\ o \in Chain(ls, v) /\ n # o
  BY Zenon, <1>1, <1>3 DEF Follows
<1>5. Follows(lt, o, v, w)
  BY Zenon, <1>1, <1>2, <1>3, FollowsKept
<1>6. WritesAbove(lt, n, o) = w \o <<>> /\ w \in Seq(Change)
  <2>1. WritesAbove(lt, n, o) = WritesAbove(lt, v, o) \o <<>>
    <3>1. WritesAbove(lt, n, o) = WritesAbove(lt, lt[n].parent, o) \o lt[n].writes
      BY Zenon, <1>0, <1>1, <1>4, WritesWalk
    <3> QED BY <3>1
  <2>2. WritesAbove(ls, v, o) \in Seq(Change)
    BY Zenon, <1>0, <1>1, WritesWalk
  <2> QED BY Zenon, <1>5, <2>1, <2>2 DEF Follows
<1>7. WritesAbove(lt, n, o) = w
  BY <1>6
<1>8. lt[n].rows = Apply(lt[o].rows, w)
  <2>1. lt[v].rows = ls[v].rows /\ lt[v].rows = Apply(lt[o].rows, w)
    BY Zenon, <1>5 DEF Follows
  <2> QED BY Zenon, <2>1
<1> QED BY Zenon, <1>3, <1>4, <1>7, <1>8 DEF Follows

\* A rebase finds the origin as the fork point, and puts the transaction's log over the head.
LEMMA PublishedRebased ==
    ASSUME Safe, NEW c \in Conns, NEW o, Began(c, o), NEW l, l = conn[c].pending, l # NoLayer,
           head \notin Chain(layers, l)
    PROVE  LET out == Publish(layers, l) IN
           /\ out.head = Len(layers) + 1 /\ out.events = changes[c]
           /\ out.ls[out.head].rows = Apply(layers[head].rows, changes[c])
           /\ out.ls[out.head].parent = head /\ Len(out.ls) = Len(layers) + 1
<1> DEFINE p == layers[l].parent
           common == Chain(layers, p) \cap Chain(layers, head)
           w == changes[c]
<1>0. Sound(layers) /\ Len(layers) \in Nat /\ head \in 1..Len(layers) /\ Tree(layers) /\ Logged(layers)
      /\ layers[head].frozen /\ layers[head].rows \in Table
  BY Zenon, SafeFacts, SoundFacts
<1>1. Viewed(conn[c]) = l /\ l \in 1..Len(layers) /\ l \notin Chain(layers, head)
  BY Zenon, PendingApart DEF Viewed
<1>2. /\ o \in 1..Len(layers) /\ o \in Chain(layers, head) /\ Follows(layers, o, l, w) /\ w \in Seq(Change)
      /\ \A m \in Chain(layers, l) \cap Chain(layers, head) : m <= o
  BY Zenon, <1>1, SeenCommitted
<1>3. Chain(layers, l) = {l} \cup Chain(layers, p)
  BY Zenon, <1>0, <1>1, ChainWalk
<1>4. o \in common /\ \A m \in common : m <= o /\ m \in Nat
  <2>1. o # l
    BY Zenon, <1>1, <1>2
  <2>2. o \in common
    BY Zenon, <1>2, <1>3, <2>1 DEF Follows
  <2>3. \A m \in common : m <= o /\ m \in 1..head
    BY Zenon, <1>0, <1>2, <1>3, ChainBelow
  <2> QED BY <2>2, <2>3
<1>5. Newest(common) = o
  <2> HIDE DEF common
  <2>1. \E m \in common : \A n \in common : n <= m
    BY <1>4
  <2>2. Newest(common) \in common /\ \A n \in common : n <= Newest(common)
    BY <2>1, Zenon DEF Newest
  <2> DEFINE z == Newest(common)
  <2>3. z <= o /\ o <= z /\ z \in Nat /\ o \in Nat
    BY Zenon, <1>4, <2>2
  <2> HIDE DEF z
  <2>4. z = o
    BY <2>3
  <2> QED BY Zenon, <2>4 DEF z
<1>6. WritesAbove(layers, l, o) = w
  BY Zenon, <1>2 DEF Follows
<1>7. Publish(layers, l) = [ls |-> Append(layers, Rebased(layers, l, o)), head |-> Len(layers) + 1, events |-> w]
  BY Zenon, <1>5, <1>6 DEF Publish
<1>8. /\ Rebased(layers, l, o).rows = Apply(layers[head].rows, w)
      /\ Rebased(layers, l, o).parent = head
      /\ Rebased(layers, l, o) \in LayerShape
  <2>1. Recorded(layers[head].rows, w) \in Seq(Change) /\ Apply(layers[head].rows, w) \in Table
    BY Zenon, <1>0, <1>2, RecordedType, ApplyType
  <2>2. Rebased(layers, l, o) = [parent |-> head, writes |-> Recorded(layers[head].rows, w),
                                 rows |-> Apply(layers[head].rows, w), frozen |-> TRUE, linked |-> FALSE]
    <3> DEFINE y == NewLayer(layers, head)
               x == Rebased(layers, l, o)
    <3>1. y = [parent |-> head, writes |-> <<>>, rows |-> layers[head].rows, frozen |-> FALSE, linked |-> TRUE]
      BY DEF NewLayer
    <3>2. x = [y EXCEPT !.rows = Apply(y.rows, w), !.writes = Recorded(layers[head].rows, w),
                        !.frozen = TRUE, !.linked = FALSE]
      BY <1>6 DEF Rebased
    <3>3. x = [parent |-> head, writes |-> Recorded(layers[head].rows, w),
               rows |-> Apply(layers[head].rows, w), frozen |-> TRUE, linked |-> FALSE]
      <4> HIDE DEF y, w, x
      <4> QED BY ZenonT(30), <3>1, <3>2
    <3> QED BY <3>3
  <2> QED BY <1>0, <2>1, <2>2 DEF LayerShape
<1>9. /\ Len(Append(layers, Rebased(layers, l, o))) = Len(layers) + 1
      /\ Append(layers, Rebased(layers, l, o))[Len(layers) + 1] = Rebased(layers, l, o)
  BY Zenon, <1>0, <1>8, AddLayer
<1> QED BY <1>7, <1>8, <1>9

\* A commit: the table and the listener get what the transaction changed (nothing, when it is
\* stranded), and the committed chain grows by layers of the transaction or a new one.
LEMMA CommitOutcome ==
    ASSUME Safe, Landed, NEW c \in Conns, NEW o, Began(c, o), Commit(c)
    PROVE  /\ Landed'
           /\ Chain(layers, head) \subseteq Chain(layers', head')
           /\ Chain(layers', head') \subseteq Chain(layers, head) \cup Own(layers, conn[c], o) \cup {Len(layers) + 1}
<1> DEFINE r == conn[c]
           v == Viewed(r)
           w == changes[c]
           P == ToPublish(r)
           out == CommitTransaction(r)
           wraps == r.pending = NoLayer /\ r.readLayer # head /\ head \in Chain(layers, r.readLayer)
<1>0. /\ Sound(layers) /\ Len(layers) \in Nat /\ head \in 1..Len(layers) /\ Tree(layers) /\ Logged(layers)
      /\ layers[head].frozen /\ promised \in Table /\ Shapes /\ Private /\ r.readLayer \in 1..Len(layers)
      /\ layers[head].rows = promised /\ replica = promised
  BY Zenon, SafeFacts, SoundFacts DEF Safe, Shapes, Landed
<1>1. /\ layers' = out.ls /\ head' = out.head /\ replica' = Apply(promised, out.events)
      /\ promised' = IF Stranded(c) THEN promised ELSE Apply(promised, w)
  BY Zenon, <1>0 DEF Commit
<1>2. /\ o \in 1..Len(layers) /\ v \in 1..Len(layers) /\ o \in Chain(layers, head)
      /\ Follows(layers, o, v, w) /\ w \in Seq(Change)
      /\ (head \in Chain(layers, v) => head = o)
      /\ Chain(layers, v) \subseteq Chain(layers, head) \cup Own(layers, r, o)
  BY Zenon, SeenCommitted
<1>3. Apply(promised, <<>>) = promised
  BY <1>0, ApplyNothing
<1>4. /\ P.l \in 0..Len(P.ls) /\ Sound(P.ls)
      /\ (wraps => /\ P.l = Len(layers) + 1 /\ Len(P.ls) = Len(layers) + 1
                   /\ P.ls[P.l].parent = r.readLayer /\ P.ls[P.l].writes = <<>>
                   /\ P.ls[P.l].rows = layers[r.readLayer].rows)
      /\ (\A n \in 1..Len(layers) : P.ls[n] = layers[n])
      /\ (~wraps => P.l = r.pending /\ P.ls = layers)
  BY Zenon, <1>0, ToPublishFacts
<1>5. out = IF P.l = NoLayer THEN [ls |-> layers, head |-> head, events |-> <<>>] ELSE Publish(P.ls, P.l)
  BY DEF CommitTransaction
<1>6. Stranded(c) <=> r.pending = NoLayer /\ r.readSnapshot # NoLayer /\ head \notin Chain(layers, r.readLayer)
  BY Zenon DEF Stranded
<1>7. v = IF r.pending # NoLayer THEN r.pending ELSE r.readLayer
  BY Zenon DEF Viewed
<1>8. (r.pending = NoLayer /\ r.readSnapshot = NoLayer) => r.readLayer = o
  BY DEF Began, Traces
<1> HIDE DEF r, v, w, P, out
<1>9. CASE ~wraps /\ r.pending = NoLayer
  <2>1. out = [ls |-> layers, head |-> head, events |-> <<>>]
    BY Zenon, <1>4, <1>5, <1>9
  <2>2. layers' = layers /\ head' = head /\ replica' = promised
    BY Zenon, <1>1, <1>3, <2>1
  <2>3. promised' = promised
    <3>1. CASE Stranded(c)
      BY Zenon, <1>1, <3>1
    <3>2. CASE ~Stranded(c)
      <4>1. v = r.readLayer
        BY <1>7, <1>9
      <4>2. v = o
        <5>1. CASE r.readSnapshot = NoLayer
          BY Zenon, <1>8, <1>9, <4>1, <5>1
        <5>2. CASE r.readSnapshot # NoLayer
          BY Zenon, <1>2, <1>6, <1>9, <3>2, <4>1, <5>2
        <5> QED BY Zenon, <5>1, <5>2
      <4>3. WritesAbove(layers, o, o) = <<>>
        <5>1. o \in 0..Len(layers)
          BY <1>0, <1>2
        <5> QED BY Zenon, <1>0, <5>1, WritesWalk
      <4>4. w = <<>>
        BY Zenon, <1>2, <4>2, <4>3 DEF Follows
      <4> QED BY Zenon, <1>1, <1>3, <3>2, <4>4
    <3> QED BY <3>1, <3>2
  <2> QED BY Zenon, <1>0, <2>2, <2>3 DEF Landed
<1>10. CASE wraps
  <2> DEFINE n == Len(layers) + 1
  <2>1. v = r.readLayer /\ head = o /\ ~Stranded(c)
    BY Zenon, <1>2, <1>6, <1>7, <1>10
  <2>2. n # NoLayer /\ P.l = n /\ n \in 1..Len(P.ls) /\ head \in 1..Len(P.ls) /\ P.ls[head] = layers[head]
    BY <1>0, <1>4, <1>10 DEF NoLayer
  <2>3. Follows(P.ls, head, n, w) /\ Chain(P.ls, n) = {n} \cup Chain(layers, v)
    <3>1. /\ n = Len(layers) + 1 /\ Len(P.ls) = n /\ P.ls[n].parent = v /\ P.ls[n].writes = <<>>
          /\ P.ls[n].rows = layers[v].rows
      BY Zenon, <1>4, <1>10, <2>1
    <3>2. Follows(layers, head, v, w)
      BY Zenon, <1>2, <2>1
    <3> DEFINE lt == P.ls
    <3>3. Sound(lt) /\ \A m \in 1..Len(layers) : lt[m] = layers[m]
      BY Zenon, <1>4
    <3>4. /\ n = Len(layers) + 1 /\ Len(lt) = n /\ lt[n].parent = v /\ lt[n].writes = <<>>
          /\ lt[n].rows = layers[v].rows
      BY Zenon, <3>1
    <3> HIDE DEF n, lt
    <3>5. Follows(lt, head, n, w) /\ Chain(lt, n) = {n} \cup Chain(layers, v)
      <4>1. Wraps(layers, lt, n, v)
        BY Zenon, <1>2, <3>3, <3>4 DEF Wraps
      <4> QED BY <1>0, <3>2, <3>3, <4>1, WrapFollows
    <3> QED BY Zenon, <3>5 DEF lt
  <2> HIDE DEF n
  <2>4. out = Publish(P.ls, n)
    BY Zenon, <1>5, <2>2
  <2>5. /\ out.head = n /\ out.events = w /\ out.ls[out.head].rows = Apply(layers[head].rows, w)
        /\ Chain(out.ls, out.head) = Chain(P.ls, n)
    BY <1>4, <2>2, <2>3, <2>4, PublishedWhole
  <2>6. Landed'
    BY ZenonT(30), <1>0, <1>1, <2>1, <2>5 DEF Landed
  <2>7. Chain(layers', head') = {n} \cup Chain(layers, v) /\ Chain(layers, head) \subseteq Chain(layers, v)
    <3>1. Chain(layers', head') = {n} \cup Chain(layers, v)
      BY Zenon, <1>1, <2>1, <2>3, <2>5
    <3>2. head \in Chain(layers, v)
      BY Zenon, <1>2, <2>1 DEF Follows
    <3> QED BY Zenon, <1>0, <1>2, <3>1, <3>2, ChainClosed
  <2> QED BY Zenon, <1>2, <2>6, <2>7 DEF n, r
<1>11. CASE r.pending # NoLayer
  <2> DEFINE l == r.pending
  <2>1. v = l /\ ~wraps /\ ~Stranded(c) /\ l \in 1..Len(layers) /\ l # NoLayer /\ l = conn[c].pending
    BY ZenonT(30), <1>2, <1>6, <1>7, <1>11 DEF r
  <2>2. out = Publish(layers, l)
    BY Zenon, <1>4, <1>5, <1>11, <2>1
  <2> HIDE DEF l
  <2>3. CASE head \in Chain(layers, l)
    <3>1. head = o /\ Follows(layers, head, l, w)
      BY ZenonT(30), <1>2, <2>1, <2>3
    <3>2. /\ out.head = l /\ out.events = w /\ out.ls[out.head].rows = Apply(layers[head].rows, w)
          /\ Chain(out.ls, out.head) = Chain(layers, l)
      BY <1>0, <2>1, <2>2, <3>1, PublishedWhole
    <3>3. Landed'
      BY Zenon, <1>0, <1>1, <2>1, <3>2 DEF Landed
    <3>4. Chain(layers', head') = Chain(layers, v) /\ Chain(layers, head) \subseteq Chain(layers, v)
      BY Zenon, <1>0, <1>1, <2>1, <2>3, <3>2, ChainClosed
    <3> QED BY Zenon, <1>2, <3>3, <3>4 DEF r
  <2>4. CASE head \notin Chain(layers, l)
    <3>1. /\ out.head = Len(layers) + 1 /\ out.events = w
          /\ out.ls[out.head].rows = Apply(layers[head].rows, w)
          /\ out.ls[out.head].parent = head /\ Len(out.ls) = Len(layers) + 1
      BY Zenon, <2>1, <2>2, <2>4, PublishedRebased DEF w
    <3>2. Landed'
      BY ZenonT(30), <1>0, <1>1, <2>1, <3>1 DEF Landed
    <3>3. Sound(layers') /\ Advanced(layers, layers', l) /\ Len(layers') = Len(layers) + 1 /\ head' = Len(layers) + 1
      BY Zenon, <1>0, <1>1, <2>1, <3>1, CommitFacts DEF out, r
    <3>4. Len(layers') \in Nat /\ Tree(layers') /\ Grown(layers, layers', l) /\ head' \in 1..Len(layers')
          /\ head \in 0..Len(layers)
      BY <1>0, <3>3, SoundFacts DEF Advanced, Grown
    <3>5. Chain(layers', head') = {head'} \cup Chain(layers', head)
      BY Zenon, <1>1, <3>1, <3>4, ChainWalk
    <3>6. Chain(layers', head) = Chain(layers, head)
      BY <1>0, <3>4, ChainKept
    <3> QED BY Zenon, <3>2, <3>3, <3>5, <3>6
  <2> QED BY <2>3, <2>4
<1> QED BY Zenon, <1>9, <1>10, <1>11 DEF r

\* The transactions of the other connections go on as they were over a commit.
LEMMA CommitOthers ==
    ASSUME Safe, Landed, NEW org, Tracked(org), NEW c \in Live, Commit(c)
    PROVE  /\ Landed' /\ Sound(layers') /\ head' \in 1..Len(layers') /\ layers'[head'].frozen
           /\ Chain(layers, head) \subseteq Chain(layers', head')
           /\ \A b \in Live : b # c =>
                /\ Traces(layers', head', conn[b], org[b], start[b], changes[b], saved[b])
                /\ Own(layers', conn[b], org[b]) = Own(layers, conn[b], org[b])
                /\ Own(layers, conn[b], org[b]) \cap Chain(layers', head') = {}
<1>p. PICK p : p = conn[c].pending
  BY Zenon
<1>0. /\ Sound(layers) /\ Len(layers) \in Nat /\ head \in 1..Len(layers) /\ Tree(layers) /\ Shapes /\ Private
      /\ c \in Conns /\ Live \subseteq Conns
  BY SafeFacts, SoundFacts, LiveFacts DEF Safe
<1>1. Began(c, org[c])
  BY ZenonT(30) DEF Tracked, Began
<1>2. /\ Landed' /\ Chain(layers, head) \subseteq Chain(layers', head')
      /\ Chain(layers', head') \subseteq Chain(layers, head) \cup Own(layers, conn[c], org[c]) \cup {Len(layers) + 1}
  BY Zenon, <1>0, <1>1, CommitOutcome
<1>3. Sound(layers') /\ Advanced(layers, layers', p) /\ head' \in 1..Len(layers') /\ layers'[head'].frozen
  BY Zenon, <1>p, <1>0, CommitFacts DEF Commit
<1>4. Grown(layers, layers', p)
  BY <1>3 DEF Advanced, Grown
<1>5. ASSUME NEW b \in Live, b # c
      PROVE  /\ Traces(layers', head', conn[b], org[b], start[b], changes[b], saved[b])
             /\ Own(layers', conn[b], org[b]) = Own(layers, conn[b], org[b])
             /\ Own(layers, conn[b], org[b]) \cap Chain(layers', head') = {}
  <2>1. /\ conn[b] \in ConnShape(Len(layers)) /\ Refs(conn[b]) \subseteq 1..Len(layers) /\ b \in Conns
        /\ Traces(layers, head, conn[b], org[b], start[b], changes[b], saved[b])
        /\ Own(layers, conn[b], org[b]) \cap Chain(layers, head) = {}
        /\ Own(layers, conn[b], org[b]) \cap Own(layers, conn[c], org[c]) = {}
    BY ZenonT(30), <1>0, <1>5, SafeFacts, RefsExist DEF Tracked
  <2>2. \A x \in Refs(conn[b]) : Chain(layers, x) \subseteq 1..Len(layers) /\ NoLayer \notin Chain(layers, x)
    BY <1>0, <2>1, ChainBelow DEF NoLayer
  <2>3. \A x \in Refs(conn[b]) : p \notin Chain(layers, x)
    <3>1. CASE p = NoLayer
      BY <2>2, <3>1
    <3>2. CASE p # NoLayer
      BY Zenon, <1>p, <1>0, <1>5, <2>1, <3>2, PendingApart
    <3> QED BY <3>1, <3>2
  <2>4. Len(layers) + 1 \notin Own(layers, conn[b], org[b])
    <3>0. Len(layers) + 1 \notin 1..Len(layers)
      BY <1>0
    <3>1. \A x \in Refs(conn[b]) : Len(layers) + 1 \notin Chain(layers, x)
      BY Zenon, <2>2, <3>0
    <3> QED BY <3>1, Zenon DEF Own
  <2>5. /\ Traces(layers', head', conn[b], org[b], start[b], changes[b], saved[b])
        /\ Own(layers', conn[b], org[b]) = Own(layers, conn[b], org[b])
    <3>1. Sound(layers) /\ Sound(layers') /\ head \in 1..Len(layers) /\ conn[b] \in ConnShape(Len(layers))
      BY Zenon, <1>0, <1>3, <2>1
    <3>2. Beyond(layers, head, layers', head')
      BY ZenonT(30), <1>2 DEF Beyond
    <3>3. Traces(layers, head, conn[b], org[b], start[b], changes[b], saved[b])
      BY <2>1
    <3> QED BY <1>4, <2>3, <3>1, <3>2, <3>3, TraceCarried
  <2> QED BY ZenonT(30), <1>2, <2>1, <2>4, <2>5
<1> QED BY Zenon, <1>2, <1>3, <1>5

\* A connection's part of the coordinated commit.
LEMMA CommitConnectionLands == ASSUME Lands, NEW c \in Conns, CommitConnection(c) PROVE Lands'
<1>0. Safe /\ Safe' /\ Landed
  BY Zenon, CommitConnectionSafe DEF Lands
<1>1. /\ Commit(c) /\ start' = start /\ changes' = changes /\ saved' = saved /\ c \in Live
      /\ conn' = [conn EXCEPT ![c] = Connection(head')]
      /\ Live' = Live \ {c} /\ Live \subseteq Conns
  BY <1>0, LiveFacts DEF CommitConnection, Live
<1>2. PICK org \in [Conns -> Nat] : Tracked(org)
  BY DEF Lands
<1>3. /\ Landed' /\ Sound(layers') /\ head' \in 1..Len(layers')
      /\ Chain(layers, head) \subseteq Chain(layers', head')
      /\ \A b \in Live : b # c =>
                /\ Traces(layers', head', conn[b], org[b], start[b], changes[b], saved[b])
                /\ Own(layers', conn[b], org[b]) = Own(layers, conn[b], org[b])
                /\ Own(layers, conn[b], org[b]) \cap Chain(layers', head') = {}
  BY Zenon, <1>0, <1>1, <1>2, CommitOthers
<1>4. conn'[c] = Connection(head') /\ \A b \in Conns : b # c => conn'[b] = conn[b]
  BY Zenon, <1>0, <1>1 DEF Safe, Shapes
<1>5. head' \in Chain(layers', head')
  BY Zenon, <1>3, SoundFacts, ChainBelow
<1>6. Resting'
  <2>1. ASSUME NEW b \in Conns \ Live'
        PROVE  /\ conn'[b].pending = NoLayer /\ conn'[b].readSnapshot = NoLayer
               /\ conn'[b].readLayer \in Chain(layers', head')
    <3>1. CASE b = c
      BY <1>4, <1>5, <3>1 DEF Connection
    <3>2. CASE b # c
      BY Zenon, <1>1, <1>3, <1>4, <2>1, <3>2 DEF Lands, Resting
    <3> QED BY Zenon, <3>1, <3>2
  <2> QED BY <2>1, Zenon DEF Resting
<1>7. Tracked(org)'
  <2>1. \A b \in Live : b # c => conn'[b] = conn[b]
    BY <1>1, <1>4
  <2>2. ASSUME NEW b \in Live'
        PROVE  /\ Traces(layers', head', conn'[b], org[b], start'[b], changes'[b], saved'[b])
               /\ Own(layers', conn'[b], org[b]) \cap Chain(layers', head') = {}
               /\ \A a \in Live' : a # b => Own(layers', conn'[b], org[b]) \cap Own(layers', conn'[a], org[a]) = {}
    <3>1. b \in Live /\ b # c /\ \A a \in Live : a # b => Own(layers, conn[b], org[b]) \cap Own(layers, conn[a], org[a]) = {}
      BY ZenonT(30), <1>1, <1>2 DEF Tracked
    <3> QED BY ZenonT(30), <1>1, <1>3, <2>1, <3>1
  <2> QED BY <2>2, Zenon DEF Tracked
<1> QED BY Zenon, <1>0, <1>2, <1>3, <1>6, <1>7 DEF Lands

\* A commit in the middle of a transaction: the connection begins again at the new head.
LEMMA CommitEarlyLands == ASSUME Lands, NEW c \in Conns, CommitEarly(c) PROVE Lands'
<1>0. Safe /\ Safe' /\ Landed /\ depth \in Nat
  BY Zenon, CommitEarlySafe, SafeFacts DEF Lands
<1>1. /\ Commit(c) /\ c \in Live /\ Live' = Live /\ Live \subseteq Conns
      /\ conn' = [conn EXCEPT ![c] = Begun(Connection(head'))]
      /\ start' = [start EXCEPT ![c] = layers'[head'].rows]
      /\ changes' = [changes EXCEPT ![c] = <<>>]
      /\ saved' = [saved EXCEPT ![c] = [i \in 1..depth |-> <<>>]]
  <2>1. phase = "body" /\ phase' = phase /\ registered' = registered /\ todo' = todo
    BY Zenon DEF CommitEarly, engine
  <2> QED BY Zenon, <1>0, <2>1, LiveFacts DEF CommitEarly, Live
<1>2. PICK org \in [Conns -> Nat] : Tracked(org)
  BY DEF Lands
<1>3. /\ Landed' /\ Sound(layers') /\ head' \in 1..Len(layers') /\ layers'[head'].frozen
      /\ Chain(layers, head) \subseteq Chain(layers', head')
      /\ \A b \in Live : b # c =>
                /\ Traces(layers', head', conn[b], org[b], start[b], changes[b], saved[b])
                /\ Own(layers', conn[b], org[b]) = Own(layers, conn[b], org[b])
                /\ Own(layers, conn[b], org[b]) \cap Chain(layers', head') = {}
  BY Zenon, <1>0, <1>1, <1>2, CommitOthers
<1>4. /\ \A b \in Conns : b # c => conn'[b] = conn[b] /\ start'[b] = start[b] /\ changes'[b] = changes[b] /\ saved'[b] = saved[b]
      /\ conn'[c] = Begun(Connection(head')) /\ start'[c] = layers'[head'].rows /\ changes'[c] = <<>>
      /\ saved'[c] = [i \in 1..depth |-> <<>>]
  BY <1>0, <1>1 DEF Safe, Shapes
<1>5. PICK h : h = head'
  OBVIOUS
<1>6. Traces(layers', h, conn'[c], h, start'[c], changes'[c], saved'[c]) /\ Own(layers', conn'[c], h) = {}
  <2>1. /\ Traces(layers', h, Begun(Connection(h)), h, layers'[h].rows, <<>>, [i \in 1..depth |-> <<>>])
        /\ Own(layers', Begun(Connection(h)), h) = {}
    BY <1>0, <1>3, <1>5, BegunTrace
  <2>2. conn'[c] = Begun(Connection(h)) /\ start'[c] = layers'[h].rows /\ changes'[c] = <<>>
        /\ saved'[c] = [i \in 1..depth |-> <<>>]
    BY Zenon, <1>4, <1>5
  <2> QED BY Zenon, <2>1, <2>2
<1>7. PICK org2 \in [Conns -> Nat] : org2 = [org EXCEPT ![c] = h]
  <2>1. h \in Nat
    BY <1>3, <1>5
  <2>2. [org EXCEPT ![c] = h] \in [Conns -> Nat]
    BY <2>1
  <2> QED BY Zenon, <2>2
<1>8. org2[c] = h /\ \A b \in Live : b # c => org2[b] = org[b] /\ conn'[b] = conn[b]
          /\ start'[b] = start[b] /\ changes'[b] = changes[b] /\ saved'[b] = saved[b]
  BY <1>1, <1>4, <1>7
<1>9. Tracked(org2)'
  <2>1. ASSUME NEW b \in Live
        PROVE  /\ Traces(layers', head', conn'[b], org2[b], start'[b], changes'[b], saved'[b])
               /\ Own(layers', conn'[b], org2[b]) \cap Chain(layers', head') = {}
               /\ \A a \in Live : a # b => Own(layers', conn'[b], org2[b]) \cap Own(layers', conn'[a], org2[a]) = {}
    <3>1. CASE b = c
      BY <1>5, <1>6, <1>8, <3>1
    <3>2. CASE b # c
      <4>1. \A a \in Live : a # b => Own(layers, conn[b], org[b]) \cap Own(layers, conn[a], org[a]) = {}
        BY ZenonT(30), <1>2 DEF Tracked
      <4>2. /\ Traces(layers', head', conn'[b], org2[b], start'[b], changes'[b], saved'[b])
            /\ Own(layers', conn'[b], org2[b]) = Own(layers, conn[b], org[b])
            /\ Own(layers', conn'[b], org2[b]) \cap Chain(layers', head') = {}
        BY Zenon, <1>3, <1>8, <3>2
      <4>3. ASSUME NEW a \in Live, a # b PROVE Own(layers', conn'[b], org2[b]) \cap Own(layers', conn'[a], org2[a]) = {}
        <5>1. CASE a = c
          BY Zenon, <1>6, <1>8, <5>1
        <5>2. CASE a # c
          BY ZenonT(30), <1>3, <1>8, <4>1, <4>2, <4>3, <5>2
        <5> QED BY Zenon, <5>1, <5>2
      <4> QED BY ZenonT(30), <4>2, <4>3
    <3> QED BY ZenonT(30), <3>1, <3>2
  <2> QED BY <1>1, <2>1, Zenon DEF Tracked
<1>10. Resting'
  <2>1. \A b \in Conns \ Live : conn'[b] = conn[b]
    BY <1>1, <1>4
  <2> QED BY Zenon, <1>1, <1>3, <2>1 DEF Lands, Resting
<1> QED BY ZenonT(30), <1>0, <1>3, <1>7, <1>9, <1>10 DEF Lands

\* A step that changes nothing.
LEMMA StutterLands == ASSUME Lands, UNCHANGED vars PROVE Lands'
<1>0. Safe /\ Safe'
  BY StepSafe DEF Lands
<1>1. /\ layers' = layers /\ head' = head /\ conn' = conn /\ promised' = promised /\ replica' = replica
      /\ start' = start /\ changes' = changes /\ saved' = saved
  BY DEF vars, ghosts
<1>2. Live' = Live
  BY DEF vars, engine, Live
<1>3. PICK org \in [Conns -> Nat] : Tracked(org)
  BY DEF Lands
<1>4. Tracked(org)'
  <2>1. \A c \in Live' : /\ Traces(layers, head, conn'[c], org[c], start'[c], changes'[c], saved'[c])
                         /\ Refs(conn'[c]) \subseteq Refs(conn[c])
    BY Zenon, <1>1, <1>2, <1>3 DEF Tracked
  <2>2. Live' \subseteq Live
    BY Zenon, <1>2
  <2> QED BY ZenonT(30), <1>1, <1>3, <2>1, <2>2, TracedOn
<1>5. Resting' /\ Landed'
  BY Zenon, <1>1, <1>2 DEF Lands, Resting, Landed
<1> QED BY Zenon, <1>0, <1>3, <1>4, <1>5 DEF Lands

\* Every step keeps the transactions traced and the table as promised.
LEMMA StepLands == Lands /\ [Next]_vars => Lands'
<1> SUFFICES ASSUME Lands, [Next]_vars PROVE Lands'
  OBVIOUS
<1>1. CASE UNCHANGED vars
  BY <1>1, StutterLands
<1>2. CASE Begin
  BY <1>2, BeginLands
<1>3. CASE CreateSavepoint
  BY <1>3, CreateSavepointLands
<1>4. ASSUME NEW d \in 0..driver.maxDepth, ReleaseSavepoint(d) \/ RollbackToSavepoint(d) PROVE Lands'
  <2>1. d \in Nat
    BY SafeFacts DEF Lands
  <2> QED BY ZenonT(30), <1>4, <2>1, ReleaseLands, RollbackToLands
<1>5. CASE StartCommit \/ CommitDone
  BY Zenon, <1>5, EngineLands
<1>6. CASE Rollback
  BY <1>6, RollbackLands
<1>7. ASSUME NEW c \in Conns, Connect(c) PROVE Lands'
  BY <1>7, ConnectLands
<1>8. ASSUME NEW c \in Conns, Reuse(c) PROVE Lands'
  BY Zenon, <1>8, ReuseLands
<1>9. ASSUME NEW c \in Conns, CommitConnection(c) PROVE Lands'
  BY <1>9, CommitConnectionLands
<1>10. ASSUME NEW c \in Conns, CommitEarly(c) PROVE Lands'
  BY <1>10, CommitEarlyLands
<1>11. ASSUME NEW c \in Conns,
              \/ PerformNothing(c)
              \/ \E k \in Keys : PerformDelete(c, k)
              \/ \E k \in Keys, v \in Values : PerformUpsert(c, k, v)
              \/ \E k, k2 \in Keys, v \in Values : PerformMove(c, k, k2, v)
       PROVE  Lands'
  BY <1>11, Operations, MutationLands
<1> QED BY Zenon, <1>1, <1>2, <1>3, <1>4, <1>5, <1>6, <1>7, <1>8, <1>9, <1>10, <1>11 DEF Next

\* The strengthened invariant holds.
LEMMA LandsHolds == Spec => []Lands
<1>1. Init => Lands
  BY InitLands
<1>2. Lands /\ [Next]_vars => Lands'
  BY StepLands
<1> QED BY <1>1, <1>2, PTL DEF Spec

\* commitTransaction: every commit lands, whatever siblings commit in between: the committed
\* table is the transactions' changes applied one commit after the other, stranded ones left out.
THEOREM CommitsLand == Spec => []EveryCommitLands
<1>1. Lands => EveryCommitLands
  BY Zenon DEF Lands, Landed, EveryCommitLands
<1> QED BY <1>1, LandsHolds, PTL

\* collectPendingChanges: a listener that applies the events of every commit has the
\* committed table, after wrapped, wholesale and rebased commits alike.
THEOREM EventsTellTheTable == Spec => []ReplicaFollows
<1>1. Lands => ReplicaFollows
  BY Zenon DEF Lands, Landed, ReplicaFollows
<1> QED BY <1>1, LandsHolds, PTL

\* A connection in a transaction reads the rows it began with and its own changes that are
\* not rolled back, through any savepoints, and nothing a sibling commits meanwhile.
THEOREM ReadsOwnWrites == Spec => []OwnWritesVisible
<1>1. Lands => OwnWritesVisible
  <2> SUFFICES ASSUME Lands, phase = "body", NEW c \in registered PROVE View(c) = Apply(start[c], changes[c])
    BY DEF OwnWritesVisible
  <2>1. PICK org \in [Conns -> Nat] : Tracked(org)
    BY DEF Lands
  <2>2. c \in Live
    BY Zenon DEF Live
  <2>3. Traces(layers, head, conn[c], org[c], start[c], changes[c], saved[c])
    BY Zenon, <2>1, <2>2 DEF Tracked
  <2>4. View(c) = layers[Viewed(conn[c])].rows
    BY DEF View, ViewLayer, Viewed
  <2> QED BY Zenon, <2>3, <2>4 DEF Traces, Follows
<1> QED BY <1>1, LandsHolds, PTL
=============================================================================
