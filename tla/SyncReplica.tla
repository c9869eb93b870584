----------------------------- MODULE SyncReplica -----------------------------
(***************************************************************************)
(* Replication of one row between devices and a relay (quereus-sync,       *)
(* quereus-sync-client, sync-coordinator).  A device holds the row in its  *)
(* own database and, in a separate store, a record of each of the row's    *)
(* facts: one per cell and one for its delete.  A local commit is captured *)
(* into records some time after it commits; a batch of facts from the      *)
(* server is resolved against the records, written to the row, and only    *)
(* then filed; the user's commits fall anywhere in between.  The server    *)
(* holds records only.  It files what is pushed to it at positions of its  *)
(* own clock, and a device pulls by position.                              *)
(*                                                                         *)
(* The row has a key cell "k" and one other cell "v"; the fact in slot     *)
(* "row" is the row's delete.  Modelled with the default configuration: no *)
(* conflictResolver, allowResurrection false, unrecordedRows refuse,       *)
(* bootstrapOnEmpty true.                                                  *)
(***************************************************************************)
EXTENDS Integers, FiniteSets, Sequences

CONSTANTS Devices,    \* site ids, positive numbers
          Values,     \* what a user writes to "v"
          None,       \* no record, no apply
          Absent,     \* no row
          Null,       \* a row whose "v" has not arrived
          BatchSize,  \* facts after which a reply or a push is cut
          Scopes      \* bounds on what one behaviour may do, see Scope

Server == 0
Sites == {Server} \cup Devices

(* Local commits, dropped connections, crashes, failed applies and prunes  *)
(* still to come, the devices these faults befall, what each device takes  *)
(* part in, how the replicas start, and the sites whose clocks run ahead.  *)
Scope == [writes : Nat, drops : Nat, crashes : Nat, failures : Nat, prunes : Nat,
          faulty : SUBSET Devices, part : [Devices -> SUBSET {"commit", "connect", "pull"}],
          start : {"empty", "shared", "deleted"}, ahead : SUBSET Sites]

ASSUME DevicesAssumption == Devices \subseteq Nat \ {Server}
ASSUME BatchAssumption == BatchSize \in Nat \ {0}
ASSUME ScopesAssumption == Scopes \subseteq Scope

VARIABLES
    replica,  \* each site's records, clock, persisted clock and delta floor
    device,   \* each device's row, commit chain, apply, watermarks and session
    net,      \* messages on the way
    left,     \* what of the scope is left
    lapses    \* the known ways in which two replicas may end up apart

vars == <<replica, device, net, left, lapses>>

Columns == {"k", "v"}
Slots == Columns \cup {"row"}

-----------------------------------------------------------------------------
(* Hybrid logical clocks.  Wall time and counter are one number: only its  *)
(* order is ever used, and a wall clock that is ahead is a larger start.   *)

HLC(t, site, op) == [t |-> t, site |-> site, op |-> op]
Zero == HLC(0, 0, 0)

Before(a, b) ==
    \/ a.t < b.t
    \/ a.t = b.t /\ a.site < b.site
    \/ a.t = b.t /\ a.site = b.site /\ a.op < b.op

Later(a, b) == IF Before(a, b) THEN b ELSE a

Latest(hlcs) == CHOOSE h \in hlcs \cup {Zero} : \A g \in hlcs : ~Before(h, g)

Tick(clock) == clock + 1

(* receive() also steps the counter, which no stamp shows: stamps come     *)
(* from ticks, and the next one is past both clocks either way.            *)
Receive(clock, hlc) == IF hlc.t > clock THEN hlc.t ELSE clock

-----------------------------------------------------------------------------
(* Records and facts.  A record is a fact with the position it is filed at.*)

Rec(hlc, pos, val, prior) == [hlc |-> hlc, pos |-> pos, val |-> val, prior |-> prior]

Fact(slot, record) ==
    [slot |-> slot, hlc |-> record.hlc, val |-> record.val, prior |-> record.prior]

NoRecords == [s \in Slots |-> None]

HasCells(records) == \E c \in Columns : records[c] # None
WithoutCells(records) == [s \in Slots |-> IF s \in Columns THEN None ELSE records[s]]

(* The row the cells describe.                                             *)
RowOf(records) ==
    CASE ~HasCells(records) -> Absent
      [] records["v"] # None -> records["v"].val
      [] OTHER -> Null

(* What of records is past a position, in whole transactions of one filing *)
(* tick, up to the one that fills the batch.                               *)
Group(record) == <<record.hlc.t, record.hlc.site, record.pos.t>>

FirstBatch(records, slots) ==
    {s \in slots :
        Cardinality({q \in slots : /\ Group(records[q]) # Group(records[s])
                                   /\ Before(records[q].pos, records[s].pos)}) < BatchSize}

ChangesSince(records, since, peer) ==
    FirstBatch(records, {s \in Slots : /\ records[s] # None
                                       /\ Before(since, records[s].pos)
                                       /\ records[s].hlc.site # peer})

ChangesToPush(records, since, site) ==
    FirstBatch(records, {s \in Slots : /\ records[s] # None
                                       /\ records[s].hlc.site = site
                                       /\ Before(since, records[s].pos)
                                       /\ Before(since, records[s].hlc)})

FactsAt(records, slots) == {Fact(s, records[s]) : s \in slots}

-----------------------------------------------------------------------------
(* Recording a local commit: one tick, every record and the clock in one   *)
(* batch.  A delete takes the row's cells with it; an insert leaves an old *)
(* delete where it is.  The first edit of a row with no records at all     *)
(* records every cell.                                                     *)

CapturedRecords(records, site, t, commit) ==
    LET own(op, val, prior) == Rec(HLC(t, site, op), HLC(t, site, op), val, prior)
        whole == [records EXCEPT !["k"] = own(0, Null, FALSE),
                                 !["v"] = own(1, commit.val, records["v"] # None)]
    IN  CASE commit.kind = "delete" -> [WithoutCells(records) EXCEPT !["row"] = own(0, Null, FALSE)]
          [] commit.kind = "insert" -> whole
          [] OTHER -> IF HasCells(records)
                      THEN [records EXCEPT !["v"] = own(0, commit.val, records["v"] # None)]
                      ELSE whole

(* Mutant: the tick the positions come from is not saved with them.        *)
CapturedUnsaved(r, site, commit) ==
    [r EXCEPT !.clock = Tick(@),
              !.records = CapturedRecords(@, site, Tick(r.clock), commit)]

Captured(r, site, commit) ==
    [r EXCEPT !.clock = Tick(@), !.saved = Tick(r.clock),
              !.records = CapturedRecords(@, site, Tick(r.clock), commit)]

-----------------------------------------------------------------------------
(* Applying facts from another replica.                                    *)

(* Mutant: every delete and cell the batch holds wins.                     *)
ResolvedByArrival(r, site, facts) ==
    LET deletes == {f \in facts : f.slot = "row"}
    IN  IF deletes # {} THEN deletes ELSE {f \in facts : r.records["row"] = None}

(* The facts of a batch that win against the stored records.  A delete     *)
(* yields only to a later delete; a cell to a later version, to any delete *)
(* stored or in the batch, and, where deletes have been forgotten, to the  *)
(* suspicion that the row was one of them.                                 *)
Resolved(r, site, facts) ==
    LET newer(f) == /\ f.hlc.site # site
                    /\ r.records[f.slot] = None \/ Before(r.records[f.slot].hlc, f.hlc)
        deletes == {f \in facts : f.slot = "row" /\ newer(f)}
        cells == {f \in facts : f.slot \in Columns /\ newer(f) /\ r.records["row"] = None}
        forgotten(f) == f.prior /\ r.floor # Zero /\ ~HasCells(r.records)
        founded == \E f \in cells : ~f.prior
    IN  IF deletes # {} THEN deletes ELSE {f \in cells : founded \/ ~forgotten(f)}

(* The facts a local commit made during the apply has superseded.          *)
Superseded(facts, marks) == {f \in facts : "row" \in marks \/ f.slot \in marks}

(* The row after the data write.                                           *)
WrittenRow(row, facts) ==
    CASE \E f \in facts : f.slot = "row" -> Absent
      [] \E f \in facts : f.slot = "v" -> (CHOOSE f \in facts : f.slot = "v").val
      [] facts # {} /\ row = Absent -> Null
      [] OTHER -> row

(* Mutant: each fact is filed at the time it was written.                  *)
FiledAtOrigin(r, site, facts, watermark) ==
    LET clock == Tick(Receive(r.clock, watermark))
        filed(f) == Rec(f.hlc, f.hlc, f.val, f.prior /\ r.records[f.slot] # None)
    IN  [r EXCEPT !.clock = clock, !.saved = clock,
                  !.records = [s \in Slots |-> IF \E f \in facts : f.slot = s
                                               THEN filed(CHOOSE f \in facts : f.slot = s)
                                               ELSE @[s]]]

(* Filing: one local tick for the batch, positions in origin order, the    *)
(* records replaced as they stand now, the clock saved in the same batch.  *)
Filed(r, site, facts, watermark) ==
    LET merged == Receive(r.clock, watermark)
        clock == IF facts = {} THEN merged ELSE Tick(merged)
        position(f) == HLC(clock, site, Cardinality({g \in facts : Before(g.hlc, f.hlc)}))
        filed(f) == Rec(f.hlc, position(f), f.val, f.prior /\ r.records[f.slot] # None)
    IN  [r EXCEPT !.clock = clock, !.saved = clock,
                  !.records = [s \in Slots |-> IF \E f \in facts : f.slot = s
                                               THEN filed(CHOOSE f \in facts : f.slot = s)
                                               ELSE @[s]]]

(* The clean-up after a filed delete, in a batch of its own.               *)
Swept(r, facts) ==
    IF \E f \in facts : f.slot = "row"
    THEN [r EXCEPT !.records = WithoutCells(@)]
    ELSE r

HLCs(facts) == {f.hlc : f \in facts}

-----------------------------------------------------------------------------
(* The start: every replica empty; or the row inserted at one device and   *)
(* delivered to all; or deleted there since, with the delete still unsent. *)

Lead == 4

Fresh(site) ==
    LET clock == IF site \in left.ahead THEN Lead ELSE 0
    IN  [records |-> NoRecords, clock |-> clock, saved |-> clock, floor |-> Zero]

Offline == [row |-> Absent, chain |-> <<>>, apply |-> None, received |-> Zero,
            sent |-> Zero, session |-> "down", buried |-> FALSE, repair |-> "none"]

Founder == CHOOSE d \in Devices : \A e \in Devices : d <= e
Founding == CHOOSE x \in Values : TRUE

InitEmpty ==
    /\ replica = [s \in Sites |-> Fresh(s)]
    /\ device = [d \in Devices |-> Offline]

InitShared ==
    LET origin == Captured(Fresh(Founder), Founder, [kind |-> "insert", val |-> Founding])
        deleted == Captured(origin, Founder, [kind |-> "delete", val |-> Absent])
        facts == FactsAt(origin.records, Columns)
        last == Latest(HLCs(facts))
        relay == Filed(Fresh(Server), Server, facts, last)
        founder == IF left.start = "deleted" THEN deleted ELSE origin
    IN  /\ replica = [s \in Sites |-> CASE s = Founder -> founder
                                        [] s = Server -> relay
                                        [] OTHER -> Filed(Fresh(s), s, facts, last)]
        /\ device = [d \in Devices |->
              IF d = Founder THEN [Offline EXCEPT !.row = RowOf(founder.records), !.sent = last,
                                                  !.buried = left.start = "deleted"]
              ELSE [Offline EXCEPT !.row = Founding, !.received = relay.records["v"].pos]]

Init ==
    /\ left \in Scopes
    /\ IF left.start = "empty" THEN InitEmpty ELSE InitShared
    /\ net = {}
    /\ lapses = {}

-----------------------------------------------------------------------------
(* The device's own database.  A commit joins the commit chain, and an     *)
(* apply whose tracker is open notes what it touched: an update its cell,  *)
(* an insert or a delete the whole row.                                    *)

(* Mutant: an insert or a delete is not noted.                             *)
NotedCells(apply, mark) ==
    IF apply = None \/ apply.stage = "filed" \/ mark = "row" THEN apply
    ELSE [apply EXCEPT !.marks = @ \cup {mark}]

Noted(apply, mark) ==
    IF apply = None \/ apply.stage = "filed" THEN apply
    ELSE [apply EXCEPT !.marks = @ \cup {mark}]

Committed(d, kind, row, mark) ==
    /\ left.writes > 0
    /\ "commit" \in left.part[d]
    /\ left' = [left EXCEPT !.writes = @ - 1]
    /\ device' = [device EXCEPT ![d].row = row,
                                ![d].chain = Append(@, [kind |-> kind, val |-> row]),
                                ![d].apply = Noted(@, mark),
                                ![d].buried = @ \/ row = Absent]
    /\ UNCHANGED <<replica, net>>

(* Whether a device about to insert the row has seen it deleted.           *)
KnowsDelete(d) ==
    \/ device[d].buried
    \/ replica[d].records["row"] # None
    \/ device[d].apply # None /\ \E f \in device[d].apply.facts : f.slot = "row"

Insert(d, x) ==
    /\ device[d].row = Absent
    /\ Committed(d, "insert", x, "row")
    /\ lapses' = IF KnowsDelete(d) THEN lapses \cup {"reinserted"} ELSE lapses

Update(d, x) ==
    /\ device[d].row \notin {Absent, x}
    /\ Committed(d, "update", x, "v")
    /\ UNCHANGED lapses

Delete(d) ==
    /\ device[d].row # Absent
    /\ Committed(d, "delete", Absent, "row")
    /\ UNCHANGED lapses

Passed(apply) ==
    IF apply = None THEN None
    ELSE [apply EXCEPT !.behind = IF @ = 0 THEN 0 ELSE @ - 1]

Capture(d) ==
    /\ device[d].chain # <<>>
    /\ replica' = [replica EXCEPT ![d] = Captured(@, d, Head(device[d].chain))]
    /\ device' = [device EXCEPT ![d].chain = Tail(@), ![d].apply = Passed(@)]
    /\ UNCHANGED <<net, left, lapses>>

-----------------------------------------------------------------------------
(* Pushing: on connecting, batch after batch until nothing is unsent, and  *)
(* whenever there is something to push from then on.                       *)

Connected(d) == device[d].session \notin {"down", "stopped"}

Unsent(d) == ChangesToPush(replica[d].records, device[d].sent, d)

Message(kind, d, facts, upto) ==
    [kind |-> kind, dev |-> d, facts |-> facts, upto |-> upto, live |-> TRUE]

(* Nothing received from this server, and no facts of anybody's.           *)
IsReplicaEmpty(d) == device[d].received = Zero /\ replica[d].records = NoRecords

Connect(d) ==
    /\ device[d].session = "down"
    /\ "connect" \in left.part[d]
    /\ ~IsReplicaEmpty(d)
    /\ device' = [device EXCEPT ![d].session = IF Unsent(d) = {} THEN "asked" ELSE "pushing",
                                ![d].repair = IF @ = "due" THEN "underway" ELSE @]
    /\ UNCHANGED <<replica, net, left, lapses>>

(* A push, or its answer, that is still on the way is not repeated.        *)
Awaited(push) ==
    \E m \in net : /\ m.dev = push.dev
                   /\ m.kind \in {"push", "ack"}
                   /\ m.live
                   /\ m.upto = push.upto

PushLocalChanges(d) ==
    LET facts == FactsAt(replica[d].records, Unsent(d))
        push == Message("push", d, facts, Latest(HLCs(facts)))
    IN  /\ Connected(d)
        /\ facts # {}
        /\ ~Awaited(push)
        /\ net' = net \cup {push}
        /\ UNCHANGED <<replica, device, left, lapses>>

(* The server's whole applyChanges: no local commits race it.              *)
Relayed(facts) ==
    LET merged == [replica[Server] EXCEPT !.clock = Receive(@, Latest(HLCs(facts)))]
    IN  Filed(merged, Server, Resolved(merged, Server, facts), Latest(HLCs(facts)))

Broadcast(m) ==
    IF Resolved(replica[Server], Server, m.facts) = {} THEN {}
    ELSE {Message("broadcast", d, m.facts, Zero) : d \in {e \in Devices \ {m.dev} : Connected(e)}}

ApplyAtServer(m) ==
    /\ m.kind = "push"
    /\ replica' = [replica EXCEPT ![Server] =
                      Swept(Relayed(m.facts), Resolved(replica[Server], Server, m.facts))]
    /\ net' = (net \ {m}) \cup Broadcast(m)
                \cup (IF m.live THEN {Message("ack", m.dev, {}, m.upto)} ELSE {})
    /\ UNCHANGED <<device, left, lapses>>

RejectedByServer(m) ==
    /\ m.kind = "push"
    /\ m.dev \in left.faulty
    /\ left.failures > 0
    /\ left' = [left EXCEPT !.failures = @ - 1]
    /\ net' = net \ {m}
    /\ device' = IF m.live /\ device[m.dev].session = "pushing"
                 THEN [device EXCEPT ![m.dev].session = "asked"]
                 ELSE device
    /\ UNCHANGED <<replica, lapses>>

HandleApplyResult(m) ==
    LET sent == Later(device[m.dev].sent, m.upto)
        drained == ChangesToPush(replica[m.dev].records, sent, m.dev) = {}
    IN  /\ m.kind = "ack"
        /\ net' = net \ {m}
        /\ device' = [device EXCEPT
              ![m.dev].sent = sent,
              ![m.dev].session = IF @ = "pushing" /\ drained THEN "asked" ELSE @]
        /\ UNCHANGED <<replica, left, lapses>>

-----------------------------------------------------------------------------
(* Pulling.  The first pull follows the push.  The server answers with     *)
(* what it has filed since the device's watermark, or refuses a watermark  *)
(* below its delta floor, and the device then takes a snapshot.            *)

Refuses(d) ==
    /\ device[d].received # Zero
    /\ Before(device[d].received, replica[Server].floor)

(* A device that has only ever pushed has no watermark to refuse.          *)
Unrefused(d) ==
    /\ device[d].received = Zero
    /\ replica[Server].floor # Zero
    /\ HasCells(replica[d].records)

GetChangesSince(d) ==
    LET records == replica[Server].records
        slots == ChangesSince(records, device[d].received, d)
    IN  /\ device[d].session = "asked"
        /\ "pull" \in left.part[d]
        /\ ~Refuses(d)
        /\ net' = net \cup {Message("reply", d, FactsAt(records, slots),
                                    Latest({records[s].pos : s \in slots}))}
        /\ device' = [device EXCEPT ![d].session = "waiting"]
        /\ lapses' = IF Unrefused(d) THEN lapses \cup {"unrefused"} ELSE lapses
        /\ UNCHANGED <<replica, left>>

UnrecordedRow(d) == device[d].row # Absent /\ ~HasCells(replica[d].records)

SnapshotRequired(d) ==
    /\ device[d].session = "asked"
    /\ Refuses(d)
    /\ device[d].chain = <<>>
    /\ device' = [device EXCEPT ![d].session = IF UnrecordedRow(d) THEN "stopped" ELSE "refused"]
    /\ UNCHANGED <<replica, net, left, lapses>>

(* The server's records as a snapshot carries them, under a tick of its    *)
(* clock.                                                                  *)
Snapshot ==
    [hlc |-> HLC(Tick(replica[Server].clock), Server, 0),
     records |-> [s \in Slots |-> IF replica[Server].records[s] = None THEN None
                                 ELSE [replica[Server].records[s] EXCEPT !.prior = FALSE]]]

(* The records are replaced, at the server's positions.                    *)
ApplySnapshotStream(d) ==
    LET clock == Receive(replica[d].clock, Snapshot.hlc)
    IN  replica' = [replica EXCEPT
              ![Server].clock = Snapshot.hlc.t, ![Server].saved = Snapshot.hlc.t,
              ![d] = [records |-> Snapshot.records, clock |-> clock, saved |-> clock,
                      floor |-> Later(@.floor, replica[Server].floor)]]

(* And so is the row; the head of the snapshot is the new watermark.       *)
ApplySnapshot(d, repair) ==
    LET row == RowOf(Snapshot.records)
    IN  /\ device[d].chain = <<>>
        /\ device[d].apply = None
        /\ ApplySnapshotStream(d)
        /\ device' = [device EXCEPT ![d].row = row, ![d].received = Snapshot.hlc,
                                    ![d].session = "asked", ![d].repair = repair,
                                    ![d].buried = @ \/ (device[d].row # Absent /\ row = Absent)]

TakeSnapshot(d) ==
    /\ device[d].session = "refused"
    /\ Unsent(d) = {}
    /\ ApplySnapshot(d, device[d].repair)
    /\ UNCHANGED <<net, left, lapses>>

(* Connecting with an empty replica: a snapshot first, unless it would     *)
(* delete a row that has no records.                                       *)
MaybeBootstrap(d) ==
    /\ device[d].session = "down"
    /\ "connect" \in left.part[d]
    /\ IsReplicaEmpty(d)
    /\ device[d].chain = <<>>
    /\ IF UnrecordedRow(d)
       THEN device' = [device EXCEPT ![d].session = "stopped"] /\ UNCHANGED replica
       ELSE ApplySnapshot(d, IF device[d].repair = "due" THEN "underway" ELSE device[d].repair)
    /\ UNCHANGED <<net, left, lapses>>

-----------------------------------------------------------------------------
(* Applying at a device: one batch at a time.                              *)

(* What an interrupted apply left undone comes again past the watermark.   *)
(* Not so a delete a local insert had once beaten, and passed.             *)
Repaired(d) == device[d].repair = "underway" /\ "reinserted" \notin lapses

CaughtUp(m) ==
    /\ m.kind = "reply"
    /\ m.facts = {}
    /\ net' = net \ {m}
    /\ device' = [device EXCEPT ![m.dev].session = "idle",
                                ![m.dev].repair = IF Repaired(m.dev) THEN "none" ELSE @]
    /\ UNCHANGED <<replica, left, lapses>>

(* The tracker opens and the clock takes in the batch before any await.    *)
BeginApply(m) ==
    /\ m.kind \in {"reply", "broadcast"}
    /\ m.facts # {}
    /\ "pull" \in left.part[m.dev]
    /\ device[m.dev].apply = None
    /\ net' = net \ {m}
    /\ replica' = [replica EXCEPT ![m.dev].clock = Receive(@, Latest(HLCs(m.facts)))]
    /\ device' = [device EXCEPT ![m.dev].apply =
          [stage |-> "begun", facts |-> m.facts, watermark |-> Latest(HLCs(m.facts)),
           upto |-> m.upto, here |-> TRUE, marks |-> {}, behind |-> Len(device[m.dev].chain)]]
    /\ UNCHANGED <<left, lapses>>

(* Once the commits queued when the stage began have been captured.        *)
At(d, stage) ==
    /\ device[d].apply # None
    /\ device[d].apply.stage = stage
    /\ device[d].apply.behind = 0

ResolveBatch(d) ==
    /\ At(d, "begun")
    /\ device' = [device EXCEPT ![d].apply.stage = "resolved",
                                ![d].apply.facts = Resolved(replica[d], d, @)]
    /\ UNCHANGED <<replica, net, left, lapses>>

ApplyToStore(d) ==
    LET apply == device[d].apply
        row == WrittenRow(device[d].row, apply.facts \ Superseded(apply.facts, apply.marks))
    IN  /\ At(d, "resolved")
        /\ device' = [device EXCEPT ![d].row = row,
                                    ![d].apply.stage = "written",
                                    ![d].apply.behind = Len(device[d].chain),
                                    ![d].buried = @ \/ (device[d].row # Absent /\ row = Absent)]
        /\ UNCHANGED <<replica, net, left, lapses>>

(* A data write that fails: no record is written and the watermark stays.  *)
ApplyFails(d) ==
    /\ At(d, "resolved")
    /\ d \in left.faulty
    /\ left.failures > 0
    /\ left' = [left EXCEPT !.failures = @ - 1]
    /\ device' = [device EXCEPT ![d].apply = None, ![d].repair = "due"]
    /\ UNCHANGED <<replica, net, lapses>>

FileAtNextTick(d) ==
    LET apply == device[d].apply
        kept == apply.facts \ Superseded(apply.facts, apply.marks)
    IN  /\ At(d, "written")
        /\ replica' = [replica EXCEPT ![d] = Filed(@, d, kept, apply.watermark)]
        /\ device' = [device EXCEPT ![d].apply.stage = "filed", ![d].apply.facts = kept]
        /\ UNCHANGED <<net, left, lapses>>

(* The clean-up, then the watermark, and the next request.                 *)
FinishApply(d) ==
    LET apply == device[d].apply
        advanced == Before(device[d].received, apply.upto)
    IN  /\ At(d, "filed")
        /\ replica' = [replica EXCEPT ![d] = Swept(@, apply.facts)]
        /\ device' = [device EXCEPT
              ![d].apply = None,
              ![d].received = Later(@, apply.upto),
              ![d].session = IF advanced /\ apply.here THEN "asked" ELSE @]
        /\ lapses' = IF replica'[d] # replica[d] /\ device[d].row # Absent
                     THEN lapses \cup {"swept"} ELSE lapses
        /\ UNCHANGED <<net, left>>

-----------------------------------------------------------------------------
(* Faults.                                                                 *)

(* A closed socket loses what was on the way to the device; a push may     *)
(* still be handled, but its answer goes nowhere.                          *)
NetWithout(ds) ==
    {m \in net : m.dev \notin ds}
        \cup {[m EXCEPT !.live = FALSE] : m \in {n \in net : n.dev \in ds /\ n.kind = "push"}}

Disconnected(dev) ==
    [dev EXCEPT !.session = IF @ = "stopped" THEN @ ELSE "down",
                !.apply = IF @ = None THEN None ELSE [@ EXCEPT !.here = FALSE]]

Disconnect(d) ==
    /\ Connected(d)
    /\ d \in left.faulty
    /\ left.drops > 0
    /\ left' = [left EXCEPT !.drops = @ - 1]
    /\ device' = [device EXCEPT ![d] = Disconnected(@)]
    /\ net' = NetWithout({d})
    /\ UNCHANGED <<replica, lapses>>

LosePush(m) ==
    /\ ~m.live
    /\ net' = net \ {m}
    /\ UNCHANGED <<replica, device, left, lapses>>

Spent == left.crashes > 0 /\ left' = [left EXCEPT !.crashes = @ - 1]

(* A delete is filed and its clean-up is still to come.                    *)
Unswept(d) ==
    /\ device[d].apply # None
    /\ device[d].apply.stage = "filed"
    /\ \E f \in device[d].apply.facts : f.slot = "row"

(* Rows, records and watermarks are on disk; the commit chain, the apply   *)
(* and the clock beyond what was saved are not.                            *)
Crash(d) ==
    /\ d \in left.faulty
    /\ Spent
    /\ replica' = [replica EXCEPT ![d].clock = replica[d].saved]
    /\ device' = [device EXCEPT ![d].chain = <<>>, ![d].apply = None, ![d].session = "down",
                                ![d].repair = IF device[d].apply = None THEN @ ELSE "due"]
    /\ net' = NetWithout({d})
    /\ lapses' = lapses \cup (IF device[d].chain # <<>> THEN {"unrecorded"} ELSE {})
                         \cup (IF Unswept(d) THEN {"unswept"} ELSE {})

(* The server stops between filing a delete and cleaning up after it.      *)
CrashAtServer(m) ==
    /\ m.kind = "push"
    /\ \E f \in Resolved(replica[Server], Server, m.facts) : f.slot = "row"
    /\ Spent
    /\ replica' = [replica EXCEPT ![Server] = Relayed(m.facts)]
    /\ device' = [d \in Devices |-> Disconnected(device[d])]
    /\ net' = NetWithout(Devices) \ {[m EXCEPT !.live = FALSE]}
    /\ lapses' = lapses \cup {"unswept"}

Undelivered(s, hlc) == s \in Devices /\ hlc.site = s /\ Before(device[s].sent, hlc)

PruneTombstones(s) ==
    LET tombstone == replica[s].records["row"]
    IN  /\ tombstone # None
        /\ ~Undelivered(s, tombstone.hlc)
        /\ left.prunes > 0
        /\ left' = [left EXCEPT !.prunes = @ - 1]
        /\ replica' = [replica EXCEPT ![s].records["row"] = None,
                                      ![s].floor = Later(@, tombstone.pos)]
        /\ UNCHANGED <<device, net, lapses>>

Next ==
    \/ \E d \in Devices :
          \/ \E x \in Values : Insert(d, x) \/ Update(d, x)
          \/ Delete(d)
          \/ Capture(d)
          \/ Connect(d)
          \/ PushLocalChanges(d)
          \/ GetChangesSince(d)
          \/ SnapshotRequired(d)
          \/ TakeSnapshot(d)
          \/ MaybeBootstrap(d)
          \/ ResolveBatch(d)
          \/ ApplyToStore(d)
          \/ ApplyFails(d)
          \/ FileAtNextTick(d)
          \/ FinishApply(d)
          \/ Disconnect(d)
          \/ Crash(d)
    \/ \E m \in net :
          \/ ApplyAtServer(m)
          \/ RejectedByServer(m)
          \/ HandleApplyResult(m)
          \/ CaughtUp(m)
          \/ BeginApply(m)
          \/ LosePush(m)
          \/ CrashAtServer(m)
    \/ \E s \in Sites : PruneTombstones(s)

Spec == Init /\ [][Next]_vars

-----------------------------------------------------------------------------
Records == [Slots -> [hlc : [t : Nat, site : Nat, op : Nat], pos : [t : Nat, site : Nat, op : Nat],
                      val : Values \cup {Null}, prior : BOOLEAN] \cup {None}]

(* The variables keep their shapes, and no clock falls behind what its     *)
(* site has filed.                                                         *)
TypeOK ==
    /\ \A s \in Sites :
          /\ replica[s].records \in Records
          /\ replica[s].saved <= replica[s].clock
          /\ \A q \in Slots : replica[s].records[q] # None /\ replica[s].records[q].pos.site = s
                => replica[s].records[q].pos.t <= replica[s].saved
    /\ \A d \in Devices :
          /\ device[d].row \in Values \cup {Null, Absent}
          /\ device[d].session \in {"down", "pushing", "asked", "waiting", "idle", "refused", "stopped"}
          /\ device[d].apply # None => device[d].apply.behind <= Len(device[d].chain)
    /\ lapses \subseteq {"reinserted", "unrecorded", "swept", "unswept", "unrefused"}

(* A row and its records never disagree: whenever no commit waits to be    *)
(* captured and no batch is being applied, the row a device shows is the   *)
(* one its records describe (docs/sync-transactions.md, Local writes       *)
(* during an apply).  An apply cut short between data and records leaves   *)
(* the two apart, until the device has connected again and caught up.      *)
RowMatchesRecords ==
    \A d \in Devices :
        /\ device[d].chain = <<>> /\ device[d].apply = None /\ device[d].repair = "none"
        /\ lapses \cap {"unrecorded", "swept", "unswept"} = {}
        => device[d].row = RowOf(replica[d].records)

(* Whether a replica has taken in a record: it holds that version of the   *)
(* fact or a later one, or a delete, or has forgotten a delete.            *)
Reflects(s, slot, record) ==
    LET own == replica[s].records
    IN  \/ own[slot] # None /\ ~Before(own[slot].hlc, record.hlc)
        \/ own["row"] # None /\ slot \in Columns
        \/ replica[s].floor # Zero

(* What the server has filed for a device up to its received watermark,    *)
(* and what a device has written up to its sent watermark.                 *)
PulledBy(d) ==
    {q \in Slots : LET r == replica[Server].records[q]
                   IN  r # None /\ r.hlc.site # d /\ ~Before(device[d].received, r.pos)}

PushedBy(d) ==
    {q \in Slots : LET r == replica[d].records[q]
                   IN  r # None /\ r.hlc.site = d /\ ~Before(device[d].sent, r.hlc)}

(* Watermarks skip nothing.  All the server has filed up to a device's     *)
(* received watermark and all a device has written up to its sent          *)
(* watermark has been taken in at the other end, whatever was cut,         *)
(* reordered, lost, repeated or broadcast in between.  (A device with a    *)
(* commit still to capture may have that commit to show instead.)          *)
WatermarksSkipNothing ==
    lapses \cap {"reinserted", "unrecorded", "swept"} = {} =>
        \A d \in Devices :
            /\ device[d].chain = <<>> =>
                  \A q \in PulledBy(d) : Reflects(d, q, replica[Server].records[q])
            /\ \A q \in PushedBy(d) : Reflects(Server, q, replica[d].records[q])

CaughtUpAt(d) ==
    /\ device[d].session = "idle"
    /\ \A m \in net : m.dev # d
    /\ device[d].chain = <<>>
    /\ device[d].apply = None
    /\ device[d].repair = "none"
    /\ Unsent(d) = {}

(* Replicas converge.  A device that is connected, has caught up and has   *)
(* nothing left to send or to apply shows the row that the server's        *)
(* records describe, and so the row every other such device shows.         *)
Converged ==
    lapses = {} =>
        \A d \in Devices : CaughtUpAt(d) => device[d].row = RowOf(replica[Server].records)
=============================================================================
