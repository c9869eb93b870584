------------------------ MODULE IsolationLayerProofs ------------------------
(***************************************************************************)
(* The isolation layer: TypeOK, ReadsOwnWrites, AllOrNothing and           *)
(* CommittedUnique for any number of Databases, tables, keys and           *)
(* savepoints.                                                             *)
(*                                                                         *)
(* First the records of one table under savepoints, what one write does to *)
(* an overlay compared with what SQL says of it (Faithful) and to the      *)
(* uniqueness of the rows, and the invariant Shapes, which gives TypeOK.   *)
(* Then three invariants on top of Shapes.  Own: every overlay, and every  *)
(* state of it that a savepoint can bring back, is what SQL says the       *)
(* transaction wrote.  Whole: what the flush has moved so far.  Distinct:  *)
(* the rows are unique now, and stay so after the flush and after a        *)
(* rollback to any savepoint.                                              *)
(***************************************************************************)
EXTENDS IsolationLayer, TLAPS

-----------------------------------------------------------------------------
\* The shape of the state.

Overlays == [Keys -> Entries]
TableStates ==
    [created : BOOLEAN, overlay : Overlays, poison : BOOLEAN,
     stack : Seq(Overlays), pre : SUBSET Nat, registered : BOOLEAN]

\* One table's record at savepoint depth n, at most max.
Formed(r, n, max) ==
    /\ r \in TableStates
    /\ r.pre \subseteq 0..max
    /\ Len(r.stack) = IF r.created THEN n ELSE 0
    /\ r.created => r.registered
    /\ ~r.created => r.overlay = Blank /\ ~r.poison

Lapses == {"slipped", "crowded", "leftover", "overlapped", "torn"}

\* The type of the state.
Shapes ==
    /\ driver \in Drivers
    /\ under \in [Tables -> [Keys -> Rows]] /\ promised \in [Tables -> [Keys -> Rows]]
    /\ pending \in [Tables -> Overlays]
    /\ dropper \in [Tables -> Dbs \cup {Nobody}]
    /\ tab \in [Dbs -> [Tables -> TableStates]]
    /\ \A d \in Dbs, t \in Tables : Formed(tab[d][t], depth[d], driver.maxDepth)
    /\ depth \in [Dbs -> 0..driver.maxDepth]
    /\ phase \in [Dbs -> {"body", "apply", "commit"}]
    /\ todo \in [Dbs -> SUBSET Tables] /\ applied \in [Dbs -> SUBSET Tables]
    /\ work \in [Dbs -> 0..driver.maxWork] /\ commits \in 0..driver.maxCommits
    /\ mine \in [Dbs -> [Tables -> Overlays]]
    /\ saved \in [Dbs -> Seq([Tables -> Overlays])]
    /\ \A d \in Dbs : Len(saved[d]) = depth[d]
    /\ lapses \subseteq Lapses

-----------------------------------------------------------------------------
(* Records of one table. *)

\* An overlay without entries is an overlay.
LEMMA BlankType == Blank \in Overlays
BY DEF Blank, Overlays, Entries, Rows

\* The record of a table without an overlay.
LEMMA NoOverlayFields ==
    /\ NoOverlay \in TableStates
    /\ NoOverlay.created = FALSE /\ NoOverlay.overlay = Blank /\ NoOverlay.poison = FALSE
    /\ NoOverlay.stack = <<>> /\ NoOverlay.pre = {} /\ NoOverlay.registered = FALSE
<1>1. <<>> \in Seq(Overlays) /\ {} \in SUBSET Nat
  OBVIOUS
<1> QED
  BY <1>1, BlankType DEF NoOverlay, TableStates

\* Such a record suits any depth.
LEMMA BareFormed ==
    ASSUME NEW n, NEW max \in Nat, NEW b \in BOOLEAN, NEW p \in SUBSET (0..max)
    PROVE  LET q == [NoOverlay EXCEPT !.registered = b, !.pre = p]
           IN  /\ Formed(q, n, max)
               /\ ~q.created /\ q.overlay = Blank /\ q.pre = p /\ q.registered = b /\ q.stack = <<>>
<1> DEFINE q == [NoOverlay EXCEPT !.registered = b, !.pre = p]
<1>0. p \in SUBSET Nat
  OBVIOUS
<1>1. /\ q \in TableStates
      /\ q.created = FALSE /\ q.overlay = Blank /\ q.poison = FALSE
      /\ q.stack = <<>> /\ q.pre = p /\ q.registered = b
  BY Zenon, <1>0, NoOverlayFields DEF TableStates
<1> HIDE DEF q
<1>2. Len(<<>>) = 0
  OBVIOUS
<1>3. Formed(q, n, max)
  BY <1>1, <1>2 DEF Formed
<1> QED
  BY <1>1, <1>3 DEF q

\* A savepoint makes the record one level deeper (onConnectionSavepoint).
LEMMA OnSavepointFormed ==
    ASSUME NEW r, NEW n \in Nat, NEW max \in Nat, n <= max, Formed(r, n, max)
    PROVE  Formed(OnSavepoint(r, n), n + 1, max)
<1>0. r \in TableStates
  BY DEF Formed
<1>1. CASE r.created
  <2>1. OnSavepoint(r, n) = [r EXCEPT !.stack = Append(@, r.overlay)]
    BY <1>1 DEF OnSavepoint
  <2>2. Len(r.stack) = n /\ r.stack \in Seq(Overlays) /\ r.overlay \in Overlays
    BY <1>0, <1>1 DEF Formed, TableStates
  <2>3. Append(r.stack, r.overlay) \in Seq(Overlays) /\ Len(Append(r.stack, r.overlay)) = n + 1
    BY <2>2
  <2> QED
    BY Zenon, <1>0, <1>1, <2>1, <2>3 DEF Formed, TableStates
<1>2. CASE ~r.created /\ r.registered
  <2>1. OnSavepoint(r, n) = [r EXCEPT !.pre = @ \cup {n}]
    BY <1>2 DEF OnSavepoint
  <2> QED
    BY <1>0, <1>2, <2>1 DEF Formed, TableStates
<1>3. CASE ~r.created /\ ~r.registered
  <2>1. OnSavepoint(r, n) = r
    BY <1>3 DEF OnSavepoint
  <2> QED
    BY <1>3, <2>1 DEF Formed
<1> QED
  BY <1>1, <1>2, <1>3

\* RELEASE of depth i leaves i levels (onConnectionReleaseSavepoint).
LEMMA OnReleaseFormed ==
    ASSUME NEW r, NEW n \in Nat, NEW max \in Nat, NEW i \in 0..(n - 1), Formed(r, n, max)
    PROVE  Formed(OnRelease(r, i), i, max)
<1>0. r \in TableStates
  BY DEF Formed
<1>1. CASE r.created
  <2>1. OnRelease(r, i) = [r EXCEPT !.pre = @ \ {i}, !.stack = SubSeq(@, 1, i)]
    BY <1>1 DEF OnRelease
  <2>2. Len(r.stack) = n /\ r.stack \in Seq(Overlays)
    BY <1>0, <1>1 DEF Formed, TableStates
  <2>3. SubSeq(r.stack, 1, i) \in Seq(Overlays) /\ Len(SubSeq(r.stack, 1, i)) = i
    BY <2>2
  <2> QED
    BY Zenon, <1>0, <1>1, <2>1, <2>3 DEF Formed, TableStates
<1>2. CASE ~r.created
  <2>1. OnRelease(r, i) = [r EXCEPT !.pre = @ \ {i}]
    BY Zenon, <1>0, <1>2 DEF OnRelease, TableStates
  <2> QED
    BY <1>0, <1>2, <2>1 DEF Formed, TableStates
<1> QED
  BY <1>1, <1>2

\* A rollback to depth i leaves i + 1 levels (onConnectionRollbackToSavepoint).
LEMMA OnRollbackToFormed ==
    ASSUME NEW r, NEW n \in Nat, NEW max \in Nat, NEW i \in 0..(n - 1), Formed(r, n, max)
    PROVE  Formed(OnRollbackTo(r, i), i + 1, max)
<1>0. r \in TableStates
  BY DEF Formed
<1>1. CASE i \in r.pre
  <2>1. OnRollbackTo(r, i) = [NoOverlay EXCEPT !.registered = TRUE, !.pre = {j \in r.pre : j <= i}]
    BY <1>1 DEF OnRollbackTo
  <2>2. {j \in r.pre : j <= i} \in SUBSET (0..max)
    BY DEF Formed
  <2>3. TRUE \in BOOLEAN
    OBVIOUS
  <2> HIDE DEF Formed
  <2>4. Formed([NoOverlay EXCEPT !.registered = TRUE, !.pre = {j \in r.pre : j <= i}], i + 1, max)
    BY Zenon, <2>2, <2>3, BareFormed
  <2> QED
    BY <2>1, <2>4
<1>2. CASE i \notin r.pre /\ r.created
  <2>1. OnRollbackTo(r, i) = [r EXCEPT !.overlay = r.stack[i + 1], !.stack = SubSeq(@, 1, i + 1)]
    BY <1>2 DEF OnRollbackTo
  <2>2. Len(r.stack) = n /\ r.stack \in Seq(Overlays)
    BY <1>0, <1>2 DEF Formed, TableStates
  <2>3. SubSeq(r.stack, 1, i + 1) \in Seq(Overlays) /\ Len(SubSeq(r.stack, 1, i + 1)) = i + 1
    BY <2>2
  <2>4. r.stack[i + 1] \in Overlays
    BY <2>2
  <2> QED
    BY Zenon, <1>0, <1>2, <2>1, <2>3, <2>4 DEF Formed, TableStates
<1>3. CASE i \notin r.pre /\ ~r.created
  <2>1. OnRollbackTo(r, i) = r
    BY <1>3 DEF OnRollbackTo
  <2> QED
    BY <1>3, <2>1 DEF Formed
<1> QED
  BY <1>1, <1>2, <1>3

\* The first write at depth n makes the connection and the overlay (ensureOverlay).
LEMMA EnsureFormed ==
    ASSUME NEW r, NEW n \in Nat, NEW max \in Nat, n <= max + 1, Formed(r, n, max)
    PROVE  /\ Formed(EnsureOverlay(EnsureConnection(r, n), n), n, max)
           /\ EnsureOverlay(EnsureConnection(r, n), n).created
           /\ EnsureOverlay(EnsureConnection(r, n), n).overlay = r.overlay
<1> DEFINE c == EnsureConnection(r, n)
<1>0. r \in TableStates
  BY DEF Formed
<1>1. Formed(c, n, max) /\ c.registered /\ c.overlay = r.overlay
  <2>1. CASE r.registered
    BY <2>1 DEF EnsureConnection
  <2>2. CASE ~r.registered
    <3>1. c = [r EXCEPT !.registered = TRUE, !.pre = 0..(n - 1)]
      BY <2>2 DEF EnsureConnection
    <3> HIDE DEF c
    <3>2. 0..(n - 1) \subseteq 0..max /\ 0..(n - 1) \in SUBSET Nat
      OBVIOUS
    <3> QED
      BY Zenon, <1>0, <3>1, <3>2 DEF Formed, TableStates
  <2> QED
    BY <2>1, <2>2
<1> HIDE DEF c
<1>2. CASE c.created
  BY <1>1, <1>2 DEF EnsureOverlay, c
<1>3. CASE ~c.created
  <2>1. EnsureOverlay(c, n) = [c EXCEPT !.created = TRUE, !.stack = [i \in 1..n |-> Blank]]
    BY <1>3 DEF EnsureOverlay
  <2>2. [i \in 1..n |-> Blank] \in Seq(Overlays) /\ Len([i \in 1..n |-> Blank]) = n
    BY BlankType
  <2>3. c \in TableStates
    BY <1>1 DEF Formed
  <2> HIDE DEF EnsureOverlay
  <2> QED
    BY Zenon, <1>1, <2>1, <2>2, <2>3 DEF Formed, TableStates, c
<1> QED
  BY <1>2, <1>3

\* Forgetting the overlay leaves a record that suits any depth (clearConnectionOverlay).
LEMMA ClearedFormed ==
    ASSUME NEW r, NEW n \in Nat, NEW k \in Nat, NEW max \in Nat, Formed(r, n, max)
    PROVE  /\ Formed(Cleared(r), k, max)
           /\ ~Cleared(r).created /\ Cleared(r).overlay = Blank /\ Cleared(r).pre = {}
           /\ Cleared(r).registered = r.registered /\ Cleared(r).stack = <<>>
<1> DEFINE q == Cleared(r)
<1>1. r.registered \in BOOLEAN
  BY DEF Formed, TableStates
<1>2. /\ q \in TableStates
      /\ q.created = FALSE /\ q.overlay = Blank /\ q.poison = FALSE
      /\ q.stack = <<>> /\ q.pre = {} /\ q.registered = r.registered
  BY <1>1, NoOverlayFields DEF TableStates, Cleared
<1> HIDE DEF q
<1>3. Len(<<>>) = 0
  OBVIOUS
<1>4. Formed(q, k, max)
  BY <1>2, <1>3 DEF Formed
<1> QED
  BY <1>2, <1>4 DEF q
-----------------------------------------------------------------------------
(* Overlays over rows. *)

\* A merged row, key by key (mergeStreams).
LEMMA OverAt ==
    ASSUME NEW u \in [Keys -> Rows], NEW e \in Overlays, NEW k \in Keys
    PROVE  /\ e[k] = Tombstone => Over(u, e)[k] = Absent
           /\ e[k] = Absent => Over(u, e)[k] = u[k]
           /\ e[k] \in Values => Over(u, e)[k] = e[k]
           /\ e[k] = Tombstone \/ e[k] = Absent \/ e[k] \in Values
           /\ Absent \notin Values /\ Tombstone \notin Values /\ Absent # Tombstone
<1>1. e[k] \in Entries
  BY DEF Overlays
<1>2. Absent \notin Values /\ Tombstone \notin Values /\ Absent # Tombstone
  BY ConstantsAssumption DEF Absent, Tombstone
<1>3. e[k] = Tombstone \/ e[k] = Absent \/ e[k] \in Values
  BY <1>1 DEF Entries, Rows
<1>4. Over(u, e)[k] = CASE e[k] = Tombstone -> Absent [] e[k] = Absent -> u[k] [] OTHER -> e[k]
  BY DEF Over
<1> HIDE DEF Absent, Tombstone
<1>5. e[k] = Tombstone => Over(u, e)[k] = Absent
  BY <1>2, <1>4
<1>6. e[k] = Absent => Over(u, e)[k] = u[k]
  BY <1>2, <1>4
<1>7. e[k] \in Values => Over(u, e)[k] = e[k]
  BY <1>2, <1>4
<1> QED
  BY <1>2, <1>3, <1>5, <1>6, <1>7

\* Merged rows are rows.
LEMMA OverType ==
    ASSUME NEW u \in [Keys -> Rows], NEW e \in Overlays
    PROVE  Over(u, e) \in [Keys -> Rows]
<1>1. \A k \in Keys : Over(u, e)[k] \in Rows
  BY OverAt DEF Rows
<1>2. DOMAIN Over(u, e) = Keys /\ Over(u, e) = [k \in Keys |-> Over(u, e)[k]]
  BY DEF Over
<1> QED
  BY <1>1, <1>2

\* Entries of entries are entries, and the later ones win.
LEMMA StackAt ==
    ASSUME NEW a \in Overlays, NEW b \in Overlays
    PROVE  /\ Stack(a, b) \in Overlays
           /\ \A k \in Keys : Stack(a, b)[k] = IF b[k] = Absent THEN a[k] ELSE b[k]
BY DEF Stack, Overlays

\* Merging twice is merging the stacked entries once.
LEMMA OverStack ==
    ASSUME NEW u \in [Keys -> Rows], NEW a \in Overlays, NEW b \in Overlays
    PROVE  Over(u, Stack(a, b)) = Over(Over(u, a), b)
<1>0. Stack(a, b) \in Overlays /\ Over(u, a) \in [Keys -> Rows]
  BY StackAt, OverType
<1>1. Over(u, Stack(a, b)) \in [Keys -> Rows] /\ Over(Over(u, a), b) \in [Keys -> Rows]
  BY <1>0, OverType
<1>2. ASSUME NEW k \in Keys
      PROVE  Over(u, Stack(a, b))[k] = Over(Over(u, a), b)[k]
  <2>1. Stack(a, b)[k] = IF b[k] = Absent THEN a[k] ELSE b[k]
    BY StackAt
  <2>2. CASE b[k] = Absent
    <3>1. Over(Over(u, a), b)[k] = Over(u, a)[k]
      BY <1>0, <2>2, OverAt
    <3>2. Stack(a, b)[k] = a[k]
      BY <2>1, <2>2
    <3>3. a[k] = Tombstone \/ a[k] = Absent \/ a[k] \in Values
      BY OverAt
    <3>4. Over(u, Stack(a, b))[k] = Over(u, a)[k]
      BY <1>0, <3>2, <3>3, OverAt
    <3> QED
      BY <3>1, <3>4
  <2>3. CASE b[k] # Absent
    <3>1. Stack(a, b)[k] = b[k]
      BY <2>1, <2>3
    <3>2. b[k] = Tombstone \/ b[k] \in Values
      BY <2>3, OverAt
    <3> QED
      BY <1>0, <3>1, <3>2, OverAt
  <2> QED
    BY <2>2, <2>3
<1> HIDE DEF Over, Stack
<1> QED
  BY <1>1, <1>2

\* No entries change nothing.
LEMMA Blanks ==
    /\ \A u \in [Keys -> Rows] : Over(u, Blank) = u
    /\ \A a \in Overlays : Stack(a, Blank) = a /\ Stack(Blank, a) = a
<1>1. ASSUME NEW u \in [Keys -> Rows] PROVE Over(u, Blank) = u
  <2>1. \A k \in Keys : Blank[k] = Absent
    BY DEF Blank
  <2>2. \A k \in Keys : Over(u, Blank)[k] = u[k]
    BY <2>1, BlankType, OverAt
  <2>3. Over(u, Blank) \in [Keys -> Rows]
    BY BlankType, OverType
  <2> QED
    BY <2>2, <2>3
<1>2. ASSUME NEW a \in Overlays PROVE Stack(a, Blank) = a /\ Stack(Blank, a) = a
  <2>1. \A k \in Keys : Blank[k] = Absent
    BY DEF Blank
  <2>2. \A k \in Keys : Stack(a, Blank)[k] = a[k] /\ Stack(Blank, a)[k] = a[k]
    BY <2>1, BlankType, StackAt
  <2>3. Stack(a, Blank) \in Overlays /\ Stack(Blank, a) \in Overlays
    BY BlankType, StackAt
  <2> QED
    BY <2>2, <2>3 DEF Overlays
<1> QED
  BY <1>1, <1>2

\* Entries laid over rows that hold them already change nothing.
LEMMA OverTwice ==
    ASSUME NEW u \in [Keys -> Rows], NEW e \in Overlays
    PROVE  Over(Over(u, e), e) = Over(u, e)
<1>1. \A k \in Keys : Stack(e, e)[k] = e[k]
  BY StackAt
<1>2. Stack(e, e) = e
  BY <1>1, StackAt DEF Overlays
<1> QED
  BY <1>2, OverStack
-----------------------------------------------------------------------------
(* What a write does to an overlay. *)

Outcomes == [outcome : {"ok", "skip", "constraint"}, overlay : Overlays]

\* A result has the fields it was made of.
LEMMA ResultFields ==
    ASSUME NEW a, NEW o
    PROVE  Result(a, o).outcome = a /\ Result(a, o).overlay = o
BY DEF Result

\* The rows, but for those under the keys `self', that hold the value v.
Rivals(rows, self, v) == {c \in Keys \ self : rows[c] = v}

\* SQL refuses a row that leaves the keys `self' for key k with value v.
Refuses(rows, self, k, v, pk, uc) ==
    \/ k \notin self /\ rows[k] # Absent /\ pk # "replace"
    \/ Rivals(rows, self \cup {k}, v) # {} /\ uc # "replace"

\* The entries w put value v under key k and remove the keys `gone'.
Puts(w, k, v, gone) ==
    \A c \in Keys : w[c] = IF c = k THEN v ELSE IF c \in gone THEN Tombstone ELSE Absent

\* Overlay p is overlay o with the keys `gone' removed, and then with value v under key k.
Removes(p, o, gone) == \A x \in Keys : p[x] = IF x \in gone THEN Tombstone ELSE o[x]
Replaces(p, o, k, v, gone) ==
    p[k] = v /\ \A x \in Keys \ {k} : p[x] = IF x \in gone THEN Tombstone ELSE o[x]

\* The search of overlay and underlying table finds rivals in the merged view, and one if
\* there is any (findMergedUniqueConflict).
LEMMA ConflictsAreRivals ==
    ASSUME NEW o \in Overlays, NEW u \in [Keys -> Rows], NEW v \in Values, NEW self \in SUBSET Keys
    PROVE  /\ FindMergedUniqueConflict(o, u, v, self) \subseteq Rivals(Over(u, o), self, v)
           /\ FindMergedUniqueConflict(o, u, v, self) = {} <=> Rivals(Over(u, o), self, v) = {}
<1> DEFINE rivals == {c \in Keys \ self : Over(u, o)[c] = v}
           inOverlay == {k \in Keys \ self : o[k] = v}
           below == {k \in Keys \ self : o[k] = Absent /\ u[k] = v}
<1>1. rivals = inOverlay \cup below
  <2>1. ASSUME NEW c \in Keys \ self
        PROVE  Over(u, o)[c] = v <=> (o[c] = v \/ (o[c] = Absent /\ u[c] = v))
    BY OverAt
  <2> QED
    BY <2>1
<1>2. FindMergedUniqueConflict(o, u, v, self) = IF inOverlay # {} THEN inOverlay ELSE below
  BY DEF FindMergedUniqueConflict
<1> QED
  BY <1>1, <1>2 DEF Rivals

\* The UNIQUE check lets the row through, evicts one rival or refuses
\* (checkMergedUniqueConstraints).
LEMMA CheckCases ==
    ASSUME NEW o \in Overlays, NEW u \in [Keys -> Rows], NEW v \in Values, NEW self \in SUBSET Keys,
           NEW uc \in Actions, NEW c \in CheckMergedUniqueConstraints(o, u, v, self, uc)
    PROVE  \/ Rivals(Over(u, o), self, v) = {} /\ c = Result("ok", o)
           \/ /\ uc = "replace"
              /\ \E k \in Rivals(Over(u, o), self, v) : c = Result("ok", [o EXCEPT ![k] = Tombstone])
           \/ Rivals(Over(u, o), self, v) # {} /\ uc # "replace" /\ c = Result(Refusal(uc), o)
<1> DEFINE rivals == Rivals(Over(u, o), self, v)
           found == FindMergedUniqueConflict(o, u, v, self)
<1>1. found \subseteq rivals /\ (found = {} <=> rivals = {})
  BY ConflictsAreRivals
<1> HIDE DEF found, rivals
<1>2. CASE found = {}
  <2>1. CheckMergedUniqueConstraints(o, u, v, self, uc) = {Result("ok", o)}
    BY <1>2 DEF CheckMergedUniqueConstraints, found
  <2> QED
    BY <1>1, <1>2, <2>1 DEF rivals
<1>3. CASE found # {} /\ uc = "replace"
  <2>1. CheckMergedUniqueConstraints(o, u, v, self, uc) = {Result("ok", [o EXCEPT ![k] = Tombstone]) : k \in found}
    BY <1>3 DEF CheckMergedUniqueConstraints, found
  <2>2. PICK k \in found : c = Result("ok", [o EXCEPT ![k] = Tombstone])
    BY Zenon, <2>1
  <2>3. k \in rivals
    BY <1>1
  <2> QED
    BY Zenon, <1>3, <2>2, <2>3 DEF rivals
<1>4. CASE found # {} /\ uc # "replace"
  <2>1. CheckMergedUniqueConstraints(o, u, v, self, uc) = {Result(Refusal(uc), o)}
    BY <1>4 DEF CheckMergedUniqueConstraints, found
  <2> QED
    BY <1>1, <1>4, <2>1 DEF rivals
<1> QED
  BY <1>2, <1>3, <1>4

\* What a refusal is reported as.
LEMMA RefusalCases ==
    ASSUME NEW action \in Actions
    PROVE  Refusal(action) \in {"skip", "constraint"} /\ Refusal(action) # "ok"
BY DEF Refusal, Actions

\* A result r of a write to overlay o, against the entries w that SQL says it makes.
Faithful(r, o, w) ==
    /\ r.outcome = "constraint" => w = Blank
    /\ r.outcome # "constraint" => r.overlay = Stack(o, w)

\* Value v is in two of the rows.
Doubled(rows, v) == \E j, k \in Keys : j # k /\ rows[j] = v /\ rows[k] = v

\* Values are neither of the two marks.
LEMMA Marks == Absent \notin Values /\ Tombstone \notin Values /\ Absent # Tombstone
BY ConstantsAssumption DEF Absent, Tombstone

\* Every check leaves an overlay.
LEMMA CheckType ==
    ASSUME NEW o \in Overlays, NEW u \in [Keys -> Rows], NEW v \in Values, NEW self \in SUBSET Keys,
           NEW uc \in Actions, NEW c \in CheckMergedUniqueConstraints(o, u, v, self, uc)
    PROVE  c \in Outcomes
<1> DEFINE rivals == Rivals(Over(u, o), self, v)
<1>1. Refusal(uc) \in {"ok", "skip", "constraint"}
  BY RefusalCases
<1>2. \A k \in rivals : [o EXCEPT ![k] = Tombstone] \in Overlays
  BY DEF Overlays, Entries, Rivals
<1>3. \/ c = Result("ok", o)
      \/ \E k \in rivals : c = Result("ok", [o EXCEPT ![k] = Tombstone])
      \/ c = Result(Refusal(uc), o)
  BY Zenon, CheckCases
<1>4. CASE c = Result("ok", o)
  BY <1>4 DEF Outcomes, Result
<1>5. ASSUME NEW k \in rivals, c = Result("ok", [o EXCEPT ![k] = Tombstone])
      PROVE  c \in Outcomes
  BY Zenon, <1>2, <1>5 DEF Outcomes, Result
<1>6. CASE c = Result(Refusal(uc), o)
  BY <1>1, <1>6 DEF Outcomes, Result
<1> QED
  BY Zenon, <1>3, <1>4, <1>5, <1>6

\* A check that lets the row through has evicted every rival, unless there were two.
LEMMA CheckEvicts ==
    ASSUME NEW o \in Overlays, NEW u \in [Keys -> Rows], NEW v \in Values, NEW self \in SUBSET Keys,
           NEW uc \in Actions, NEW c \in CheckMergedUniqueConstraints(o, u, v, self, uc),
           ~(uc = "replace" /\ Doubled(Over(u, o), v)), c.outcome = "ok"
    PROVE  /\ Rivals(Over(u, o), self, v) # {} => uc = "replace"
           /\ Removes(c.overlay, o, Rivals(Over(u, o), self, v))
<1> DEFINE rivals == Rivals(Over(u, o), self, v)
<1>1. ASSUME rivals = {}, c = Result("ok", o)
      PROVE  Removes(c.overlay, o, rivals)
  BY <1>1, ResultFields DEF Removes
<1>2. ASSUME uc = "replace", NEW k \in rivals, c = Result("ok", [o EXCEPT ![k] = Tombstone])
      PROVE  Removes(c.overlay, o, rivals)
  <2>1. \A x \in rivals : x = k
    BY <1>2 DEF Doubled, Rivals
  <2>2. c.overlay = [o EXCEPT ![k] = Tombstone]
    BY <1>2, ResultFields
  <2> HIDE DEF rivals
  <2>3. DOMAIN o = Keys
    BY DEF Overlays
  <2> QED
    BY Zenon, <1>2, <2>1, <2>2, <2>3 DEF Removes
<1>3. c # Result(Refusal(uc), o)
  BY RefusalCases, ResultFields
<1>4. \/ rivals = {} /\ c = Result("ok", o)
      \/ uc = "replace" /\ \E k \in rivals : c = Result("ok", [o EXCEPT ![k] = Tombstone])
      \/ rivals # {} /\ uc # "replace" /\ c = Result(Refusal(uc), o)
  BY Zenon, CheckCases
<1> HIDE DEF rivals
<1>5. (rivals # {} => uc = "replace") /\ Removes(c.overlay, o, rivals)
  BY Zenon, <1>1, <1>2, <1>3, <1>4
<1> QED
  BY <1>5 DEF rivals

\* A check that does not let the row through has met a rival, and leaves the overlay.
LEMMA CheckRefuses ==
    ASSUME NEW o \in Overlays, NEW u \in [Keys -> Rows], NEW v \in Values, NEW self \in SUBSET Keys,
           NEW uc \in Actions, NEW c \in CheckMergedUniqueConstraints(o, u, v, self, uc),
           c.outcome # "ok"
    PROVE  /\ Rivals(Over(u, o), self, v) # {} /\ uc # "replace"
           /\ c.overlay = o
<1> DEFINE rivals == Rivals(Over(u, o), self, v)
<1>1. \/ rivals = {} /\ c = Result("ok", o)
      \/ uc = "replace" /\ \E k \in rivals : c = Result("ok", [o EXCEPT ![k] = Tombstone])
      \/ rivals # {} /\ uc # "replace" /\ c = Result(Refusal(uc), o)
  BY CheckCases
<1> HIDE DEF rivals
<1>2. c # Result("ok", o) /\ \A k : c # Result("ok", [o EXCEPT ![k] = Tombstone])
  BY ResultFields
<1>3. rivals # {} /\ uc # "replace" /\ c = Result(Refusal(uc), o)
  BY Zenon, <1>1, <1>2
<1> QED
  BY <1>3, ResultFields DEF rivals

\* The entries SQL makes of a row that leaves the keys `self' for key k.
LEMMA SqlCases ==
    ASSUME NEW rows \in [Keys -> Rows], NEW self \in SUBSET Keys, NEW k \in Keys, NEW v \in Values,
           NEW pk, NEW uc
    PROVE  /\ SqlWrites(rows, self, k, v, pk, uc) \in Overlays
           /\ Refuses(rows, self, k, v, pk, uc) => SqlWrites(rows, self, k, v, pk, uc) = Blank
           /\ ~Refuses(rows, self, k, v, pk, uc) =>
                Puts(SqlWrites(rows, self, k, v, pk, uc), k, v, self \cup Rivals(rows, self \cup {k}, v))
<1> DEFINE rivals == Rivals(rows, self \cup {k}, v)
           refused == Refuses(rows, self, k, v, pk, uc)
           w == SqlWrites(rows, self, k, v, pk, uc)
           f == [c \in Keys |-> CASE c = k -> v
                                  [] c # k /\ c \in self \cup rivals -> Tombstone
                                  [] OTHER -> Absent]
<1>1. w = IF refused THEN Blank ELSE f
  BY DEF SqlWrites, Refuses, Rivals
<1>2. \A c \in Keys : f[c] = IF c = k THEN v ELSE IF c \in self \cup rivals THEN Tombstone ELSE Absent
  <2> HIDE DEF rivals
  <2> TAKE c \in Keys
  <2>1. CASE c = k
    BY <2>1
  <2>2. CASE c # k /\ c \in self \cup rivals
    BY <2>2
  <2>3. CASE c # k /\ c \notin self \cup rivals
    BY <2>3
  <2> QED
    BY <2>1, <2>2, <2>3
<1>3. f = [c \in Keys |-> f[c]]
  OBVIOUS
<1> HIDE DEF f, w, refused, rivals
<1>4. \A c \in Keys : f[c] \in Entries
  BY <1>2 DEF Entries, Rows
<1>5. f \in Overlays
  BY <1>3, <1>4 DEF Overlays
<1>6. w \in Overlays
  BY <1>1, <1>5, BlankType
<1>7. ~refused => Puts(w, k, v, self \cup rivals)
  BY <1>1, <1>2 DEF Puts
<1>8. refused => w = Blank
  BY <1>1
<1> QED
  BY <1>6, <1>7, <1>8 DEF w, refused, rivals

\* A refused write that SQL refuses too leaves the overlay as SQL says.
LEMMA RefusedFaithful ==
    ASSUME NEW o \in Overlays, NEW r, r.overlay = o
    PROVE  Faithful(r, o, Blank)
BY Blanks DEF Faithful

\* Two ways to say what a write that went through left.
LEMMA EntriesAgree ==
    ASSUME NEW o \in Overlays, NEW p \in Overlays, NEW w \in Overlays, NEW k \in Keys, NEW v \in Values,
           NEW gone, Replaces(p, o, k, v, gone), Puts(w, k, v, gone)
    PROVE  p = Stack(o, w)
<1>1. ASSUME NEW x \in Keys PROVE p[x] = Stack(o, w)[x]
  BY StackAt, Marks DEF Puts, Replaces
<1>2. Stack(o, w) \in Overlays
  BY StackAt
<1> QED
  BY <1>1, <1>2 DEF Overlays

\* One result of a check, with the row written where the check let it through.
LEMMA WrittenCases ==
    ASSUME NEW checks, NEW k, NEW v, NEW r \in Written(checks, k, v)
    PROVE  \E c \in checks : \/ c.outcome = "ok" /\ r = Result("ok", [c.overlay EXCEPT ![k] = v])
                             \/ c.outcome # "ok" /\ r = c
BY DEF Written\* A row that leaves the keys `self' for a free key k and fails the UNIQUE check leaves the

\* overlay as SQL says ...
LEMMA CheckFailsFaithful ==
    ASSUME NEW o \in Overlays, NEW u \in [Keys -> Rows], NEW self \in SUBSET Keys, NEW k \in Keys,
           NEW v \in Values, NEW pk, NEW uc \in Actions,
           NEW c \in CheckMergedUniqueConstraints(o, u, v, self \cup {k}, uc),
           ~(uc = "replace" /\ Doubled(Over(u, o), v)),
           ~(k \notin self /\ Over(u, o)[k] # Absent /\ pk # "replace"),
           c.outcome # "ok"
    PROVE  Faithful(c, o, SqlWrites(Over(u, o), self, k, v, pk, uc))
<1> DEFINE rows == Over(u, o)
           w == SqlWrites(rows, self, k, v, pk, uc)
           rivals == Rivals(rows, self \cup {k}, v)
<1>0. rows \in [Keys -> Rows] /\ self \cup {k} \in SUBSET Keys
  BY OverType
<1>1. rivals # {} /\ uc # "replace" /\ c.overlay = o
  BY Zenon, <1>0, CheckRefuses
<1>2. Refuses(rows, self, k, v, pk, uc)
  BY Zenon, <1>1 DEF Refuses
<1>3. w = Blank
  BY Zenon, <1>0, <1>2, SqlCases
<1> QED
  BY <1>1, <1>3, RefusedFaithful

\* ... and so does one that passes it and is written.
LEMMA CheckPassesFaithful ==
    ASSUME NEW o \in Overlays, NEW u \in [Keys -> Rows], NEW self \in SUBSET Keys, NEW k \in Keys,
           NEW v \in Values, NEW pk, NEW uc \in Actions,
           NEW c \in CheckMergedUniqueConstraints(o, u, v, self \cup {k}, uc),
           ~(uc = "replace" /\ Doubled(Over(u, o), v)),
           ~(k \notin self /\ Over(u, o)[k] # Absent /\ pk # "replace"),
           c.outcome = "ok", NEW p \in Overlays, Replaces(p, c.overlay, k, v, self)
    PROVE  p = Stack(o, SqlWrites(Over(u, o), self, k, v, pk, uc))
<1> DEFINE rows == Over(u, o)
           w == SqlWrites(rows, self, k, v, pk, uc)
           rivals == Rivals(rows, self \cup {k}, v)
<1>0. rows \in [Keys -> Rows] /\ self \cup {k} \in SUBSET Keys
  BY OverType
<1>1. (rivals # {} => uc = "replace") /\ Removes(c.overlay, o, rivals)
  BY <1>0, CheckEvicts
<1>2. ~Refuses(rows, self, k, v, pk, uc)
  BY Zenon, <1>1 DEF Refuses
<1>3. w \in Overlays /\ Puts(w, k, v, self \cup rivals)
  BY Zenon, <1>0, <1>2, SqlCases
<1> HIDE DEF rivals, w
<1>4. Replaces(p, o, k, v, self \cup rivals)
  BY <1>1 DEF Replaces, Removes
<1>5. p = Stack(o, w)
  BY <1>3, <1>4, EntriesAgree
<1> QED
  BY <1>5 DEF w

\* An INSERT does to the overlay what SQL says (update, case "insert").
LEMMA InsertFaithful ==
    ASSUME NEW o \in Overlays, NEW u \in [Keys -> Rows], NEW k \in Keys, NEW v \in Values,
           NEW pk \in Actions, NEW uc \in Actions, NEW r \in InsertRow(o, u, k, v, pk, uc)
    PROVE  /\ r \in Outcomes
           /\ ~(uc = "replace" /\ Doubled(Over(u, o), v)) =>
                Faithful(r, o, SqlWrites(Over(u, o), {}, k, v, pk, uc))
<1> DEFINE none == {}
           rows == Over(u, o)
           w == SqlWrites(rows, none, k, v, pk, uc)
           taken == rows[k] # Absent
           busy == (o[k] \in Values /\ pk # "replace") \/ CheckMergedPKConflict(o, u, k, pk)
<1>0. rows \in [Keys -> Rows] /\ none \in SUBSET Keys /\ none \cup {k} = {k} /\ {k} \in SUBSET Keys
  BY OverType
<1>1. busy <=> (taken /\ pk # "replace")
  BY OverAt DEF CheckMergedPKConflict
<1>2. k \notin none /\ \A x : x \notin none
  OBVIOUS
<1> HIDE DEF none
<1>3. CASE busy
  <2>1. r = Result(Refusal(pk), o)
    BY <1>3 DEF InsertRow
  <2>2. r \in Outcomes
    BY <2>1, RefusalCases DEF Outcomes, Result
  <2>3. Refuses(rows, none, k, v, pk, uc)
    BY <1>1, <1>2, <1>3 DEF Refuses
  <2>4. w = Blank
    BY Zenon, <1>0, <2>3, SqlCases
  <2>5. Faithful(r, o, w)
    BY <2>1, <2>4, RefusedFaithful, ResultFields
  <2> QED
    BY <2>2, <2>5 DEF none
<1>4. CASE ~busy
  <2>1. r \in Written(CheckMergedUniqueConstraints(o, u, v, {k}, uc), k, v)
    BY Zenon, <1>4 DEF InsertRow
  <2>2. PICK c \in CheckMergedUniqueConstraints(o, u, v, {k}, uc) :
             \/ c.outcome = "ok" /\ r = Result("ok", [c.overlay EXCEPT ![k] = v])
             \/ c.outcome # "ok" /\ r = c
    BY <2>1, WrittenCases
  <2>3. c \in Outcomes /\ c \in CheckMergedUniqueConstraints(o, u, v, none \cup {k}, uc)
    BY Zenon, <1>0, CheckType
  <2>4. ~(k \notin none /\ rows[k] # Absent /\ pk # "replace")
    BY Zenon, <1>1, <1>4
  <2>5. CASE c.outcome # "ok"
    <3>1. ~(uc = "replace" /\ Doubled(rows, v)) => Faithful(r, o, w)
      BY <1>0, <2>2, <2>3, <2>4, <2>5, CheckFailsFaithful
    <3> QED
      BY Zenon, <2>2, <2>3, <2>5, <3>1 DEF none
  <2>6. CASE c.outcome = "ok"
    <3> DEFINE p == [c.overlay EXCEPT ![k] = v]
    <3>1. r = Result("ok", p) /\ c.overlay \in Overlays
      BY <2>2, <2>3, <2>6 DEF Outcomes
    <3>2. p \in Overlays /\ p[k] = v /\ \A x \in Keys \ {k} : p[x] = c.overlay[x]
      BY <3>1 DEF Overlays, Entries, Rows
    <3> HIDE DEF p
    <3>3. r \in Outcomes
      BY <3>1, <3>2 DEF Outcomes, Result
    <3>4. Replaces(p, c.overlay, k, v, none)
      BY Zenon, <1>2, <3>2 DEF Replaces
    <3>5. ~(uc = "replace" /\ Doubled(rows, v)) => p = Stack(o, w)
      BY <1>0, <2>3, <2>4, <2>6, <3>2, <3>4, CheckPassesFaithful
    <3>6. ~(uc = "replace" /\ Doubled(rows, v)) => Faithful(r, o, w)
      BY <3>1, <3>5, ResultFields DEF Faithful
    <3> QED
      BY <3>3, <3>6 DEF none
  <2> QED
    BY <2>5, <2>6
<1> QED
  BY <1>3, <1>4

\* An UPDATE that keeps the key does too (update, the branches that write in place).
LEMMA InPlaceFaithful ==
    ASSUME NEW o \in Overlays, NEW u \in [Keys -> Rows], NEW k \in Keys, NEW v \in Values,
           NEW pk, NEW uc \in Actions, NEW r \in UpdateInPlace(o, u, k, v, uc)
    PROVE  /\ r \in Outcomes
           /\ ~(uc = "replace" /\ Doubled(Over(u, o), v)) =>
                Faithful(r, o, SqlWrites(Over(u, o), {k}, k, v, pk, uc))
<1> DEFINE self == {k}
           rows == Over(u, o)
           w == SqlWrites(rows, self, k, v, pk, uc)
<1>0. rows \in [Keys -> Rows] /\ self \in SUBSET Keys /\ self \cup {k} = self /\ k \in self
  BY OverType
<1> HIDE DEF self
<1>1. ~(k \notin self /\ rows[k] # Absent /\ pk # "replace")
  BY <1>0
<1>2. CASE o[k] = v
  <2>1. r = Result("ok", [o EXCEPT ![k] = v])
    BY <1>2 DEF UpdateInPlace, Written, Result
  <2>2. [o EXCEPT ![k] = v] = o
    BY <1>2 DEF Overlays
  <2>3. r \in Outcomes
    BY Zenon, <2>1, <2>2 DEF Outcomes, Result
  <2>4. ASSUME ~(uc = "replace" /\ Doubled(rows, v)) PROVE o = Stack(o, w)
    <3> DEFINE rivals == Rivals(rows, self \cup {k}, v)
    <3>1. rows[k] = v
      BY <1>2, OverAt
    <3>2. rivals # {} => Doubled(rows, v)
      BY <1>0, <3>1 DEF Rivals, Doubled
    <3>3. CASE rivals # {}
      <4>1. Refuses(rows, self, k, v, pk, uc)
        BY Zenon, <2>4, <3>2, <3>3 DEF Refuses
      <4>2. w = Blank
        BY Zenon, <1>0, <4>1, SqlCases
      <4> QED
        BY <4>2, Blanks
    <3>4. CASE rivals = {}
      <4>1. ~Refuses(rows, self, k, v, pk, uc)
        BY Zenon, <1>1, <3>4 DEF Refuses
      <4>2. w \in Overlays /\ Puts(w, k, v, self \cup rivals)
        BY <1>0, <4>1, SqlCases
      <4> HIDE DEF rivals, w
      <4>3. Replaces(o, o, k, v, self \cup rivals)
        BY Zenon, <1>2, <3>4 DEF Replaces, self
      <4> QED
        BY <4>2, <4>3, EntriesAgree
    <3> QED
      BY <3>3, <3>4
  <2>5. ~(uc = "replace" /\ Doubled(rows, v)) => Faithful(r, o, w)
    BY <2>1, <2>2, <2>4, ResultFields DEF Faithful
  <2> QED
    BY <2>3, <2>5 DEF self
<1>3. CASE o[k] # v
  <2>1. r \in Written(CheckMergedUniqueConstraints(o, u, v, self, uc), k, v)
    BY Zenon, <1>3 DEF UpdateInPlace, self
  <2>2. PICK c \in CheckMergedUniqueConstraints(o, u, v, self, uc) :
             \/ c.outcome = "ok" /\ r = Result("ok", [c.overlay EXCEPT ![k] = v])
             \/ c.outcome # "ok" /\ r = c
    BY <2>1, WrittenCases
  <2>3. c \in Outcomes /\ c \in CheckMergedUniqueConstraints(o, u, v, self \cup {k}, uc)
    BY Zenon, <1>0, CheckType
  <2>4. CASE c.outcome # "ok"
    <3>1. ~(uc = "replace" /\ Doubled(rows, v)) => Faithful(r, o, w)
      BY Zenon, <1>0, <1>1, <2>2, <2>3, <2>4, CheckFailsFaithful
    <3> QED
      BY Zenon, <2>2, <2>3, <2>4, <3>1 DEF self
  <2>5. CASE c.outcome = "ok"
    <3> DEFINE p == [c.overlay EXCEPT ![k] = v]
    <3>1. r = Result("ok", p) /\ c.overlay \in Overlays
      BY Zenon, <2>2, <2>3, <2>5 DEF Outcomes
    <3>2. p \in Overlays /\ p[k] = v /\ \A x \in Keys \ {k} : p[x] = c.overlay[x]
      BY <3>1 DEF Overlays, Entries, Rows
    <3> HIDE DEF p
    <3>3. r \in Outcomes
      BY Zenon, <3>1, <3>2 DEF Outcomes, Result
    <3>4. Replaces(p, c.overlay, k, v, self)
      BY Zenon, <3>2 DEF Replaces, self
    <3>5. ~(uc = "replace" /\ Doubled(rows, v)) => p = Stack(o, w)
      BY <1>0, <1>1, <2>3, <2>5, <3>2, <3>4, CheckPassesFaithful
    <3>6. ~(uc = "replace" /\ Doubled(rows, v)) => Faithful(r, o, w)
      BY <3>1, <3>5, ResultFields DEF Faithful
    <3> QED
      BY <3>3, <3>6 DEF self
  <2> QED
    BY <2>4, <2>5
<1> QED
  BY <1>2, <1>3

\* A slot is a tombstone, whatever else the check did.
LEMMA Vacated ==
    ASSUME NEW q \in Overlays, NEW j \in Keys
    PROVE  /\ [q EXCEPT ![j] = Tombstone] \in Overlays
           /\ \A x \in Keys : [q EXCEPT ![j] = Tombstone][x] = IF x = j THEN Tombstone ELSE q[x]
BY DEF Overlays, Entries

\* An UPDATE that moves the row does too, unless it slips (update, writeRelocatedRow).
LEMMA RelocateFaithful ==
    ASSUME NEW o \in Overlays, NEW u \in [Keys -> Rows], NEW j \in Keys, NEW k \in Keys, j # k,
           NEW v \in Values, NEW pk \in Actions, NEW uc \in Actions,
           NEW r \in Relocate(o, u, j, k, v, pk, uc)
    PROVE  /\ r \in Outcomes
           /\ ~(uc = "replace" /\ Doubled(Over(u, o), v)) /\ ~(pk = "ignore" /\ o[k] \in Values) =>
                Faithful(r, o, SqlWrites(Over(u, o), {j}, k, v, pk, uc))
<1> DEFINE self == {j}
           rows == Over(u, o)
           w == SqlWrites(rows, self, k, v, pk, uc)
<1>0. rows \in [Keys -> Rows] /\ self \in SUBSET Keys /\ self \cup {k} = {j, k} /\ k \notin self
      /\ self \cup {k} \in SUBSET Keys
  BY OverType
<1> HIDE DEF self
<1>1. CASE CheckMergedPKConflict(o, u, k, pk)
  <2>1. r = Result(Refusal(pk), o)
    BY <1>1 DEF Relocate
  <2>2. r \in Outcomes
    BY Zenon, <2>1, RefusalCases DEF Outcomes, Result
  <2>3. rows[k] # Absent /\ pk # "replace"
    BY <1>1, OverAt DEF CheckMergedPKConflict
  <2>4. Refuses(rows, self, k, v, pk, uc)
    BY <1>0, <2>3 DEF Refuses
  <2>5. w = Blank
    BY Zenon, <1>0, <2>4, SqlCases
  <2>6. Faithful(r, o, w)
    BY Zenon, <2>1, <2>5, RefusedFaithful, ResultFields
  <2> QED
    BY Zenon, <2>2, <2>6 DEF self
<1>2. CASE ~CheckMergedPKConflict(o, u, k, pk)
  <2>1. PICK c \in CheckMergedUniqueConstraints(o, u, v, {j, k}, uc) :
             r = IF c.outcome = "ok" THEN WriteRelocatedRow([c.overlay EXCEPT ![j] = Tombstone], k, v, pk) ELSE c
    BY Zenon, <1>2 DEF Relocate
  <2>2. c \in CheckMergedUniqueConstraints(o, u, v, self \cup {k}, uc) /\ c \in Outcomes
    BY Zenon, <1>0, <2>1, CheckType
  <2>3. CASE c.outcome # "ok"
    <3>0. Refuses(rows, self, k, v, pk, uc)
      BY <1>0, <2>2, <2>3, CheckRefuses DEF Refuses
    <3>1. c.overlay = o
      BY <1>0, <2>2, <2>3, CheckRefuses
    <3>2. w = Blank
      BY Zenon, <1>0, <3>0, SqlCases
    <3>3. Faithful(r, o, w)
      BY Zenon, <2>1, <2>3, <3>1, <3>2, RefusedFaithful
    <3> QED
      BY <2>1, <2>2, <2>3, <3>3 DEF self
  <2>4. CASE c.outcome = "ok"
    <3> DEFINE q == [c.overlay EXCEPT ![j] = Tombstone]
    <3>1. c.overlay \in Overlays /\ r = WriteRelocatedRow(q, k, v, pk)
      BY <2>1, <2>2, <2>4 DEF Outcomes
    <3>2. q \in Overlays /\ \A x \in Keys : q[x] = IF x = j THEN Tombstone ELSE c.overlay[x]
      BY SMTT(30), <3>1, Vacated
    <3> HIDE DEF q
    <3>3. CASE q[k] \in Values /\ pk # "replace"
      <4>1. r = Result(Refusal(pk), q)
        BY <3>1, <3>3 DEF WriteRelocatedRow
      <4>2. r \in Outcomes
        BY <3>2, <4>1, RefusalCases DEF Outcomes, Result
      <4>3. ASSUME ~(uc = "replace" /\ Doubled(rows, v)), ~(pk = "ignore" /\ o[k] \in Values)
            PROVE  Faithful(r, o, w)
        <5>1. Removes(c.overlay, o, Rivals(rows, self \cup {k}, v))
          BY <1>0, <2>2, <2>4, <4>3, CheckEvicts
        <5>2. c.overlay[k] = o[k]
          BY Zenon, <5>1 DEF Removes, Rivals
        <5>3. o[k] \in Values
          BY Zenon, <3>2, <3>3, <5>2
        <5>4. rows[k] # Absent
          BY <5>3, OverAt
        <5>5. Refuses(rows, self, k, v, pk, uc)
          BY <1>0, <3>3, <5>4 DEF Refuses
        <5>6. w = Blank
          BY Zenon, <1>0, <5>5, SqlCases
        <5>7. pk = "abort"
          BY <3>3, <4>3, <5>3 DEF Actions
        <5>8. r.outcome = "constraint"
          BY Zenon, <4>1, <5>7, ResultFields DEF Refusal
        <5> QED
          BY <5>6, <5>8 DEF Faithful
      <4> QED
        BY <4>2, <4>3 DEF self
    <3>4. CASE ~(q[k] \in Values /\ pk # "replace")
      <4> DEFINE p == [q EXCEPT ![k] = v]
      <4>1. r = Result("ok", p)
        BY <3>1, <3>4 DEF WriteRelocatedRow
      <4>2. p \in Overlays /\ p[k] = v /\ \A x \in Keys \ {k} : p[x] = q[x]
        BY Zenon, <3>2 DEF Overlays, Entries, Rows
      <4> HIDE DEF p
      <4>3. r \in Outcomes
        BY Zenon, <4>1, <4>2 DEF Outcomes, Result
      <4>4. ASSUME ~(uc = "replace" /\ Doubled(rows, v)), ~(pk = "ignore" /\ o[k] \in Values)
            PROVE  Faithful(r, o, w)
        <5>1. Removes(c.overlay, o, Rivals(rows, self \cup {k}, v))
          BY <1>0, <2>2, <2>4, <4>4, CheckEvicts
        <5>2. q[k] = o[k]
          BY Zenon, <3>2, <5>1 DEF Removes, Rivals
        <5>3. ~(k \notin self /\ rows[k] # Absent /\ pk # "replace")
          BY Zenon, <1>2, <3>4, <5>2, OverAt DEF CheckMergedPKConflict
        <5>4. Replaces(p, c.overlay, k, v, self)
          BY Zenon, <3>2, <4>2 DEF Replaces, self
        <5>5. p = Stack(o, w)
          BY <1>0, <2>2, <2>4, <4>2, <4>4, <5>3, <5>4, CheckPassesFaithful
        <5> QED
          BY <4>1, <5>5, ResultFields DEF Faithful
      <4> QED
        BY <4>3, <4>4 DEF self
    <3> QED
      BY <3>3, <3>4
  <2> QED
    BY <2>3, <2>4
<1> QED
  BY <1>1, <1>2

\* A DELETE does too.
LEMMA DeleteFaithful ==
    ASSUME NEW o \in Overlays, NEW k \in Keys, NEW r \in DeleteRow(o, k)
    PROVE  /\ r \in Outcomes /\ [Blank EXCEPT ![k] = Tombstone] \in Overlays
           /\ Faithful(r, o, [Blank EXCEPT ![k] = Tombstone])
<1> DEFINE p == [o EXCEPT ![k] = Tombstone]
           w == [Blank EXCEPT ![k] = Tombstone]
<1>1. r = Result("ok", p)
  BY DEF DeleteRow
<1>2. p \in Overlays /\ \A x \in Keys : p[x] = IF x = k THEN Tombstone ELSE o[x]
  BY Vacated
<1>3. w \in Overlays /\ \A x \in Keys : w[x] = IF x = k THEN Tombstone ELSE Blank[x]
  BY Vacated, BlankType
<1>4. \A x \in Keys : Blank[x] = Absent
  BY DEF Blank
<1> HIDE DEF p, w
<1>5. r \in Outcomes
  BY Zenon, <1>1, <1>2 DEF Outcomes, Result
<1>6. \A x \in Keys : p[x] = Stack(o, w)[x]
  BY <1>2, <1>3, <1>4, StackAt, Marks
<1>7. p = Stack(o, w)
  BY <1>2, <1>3, <1>6, StackAt DEF Overlays
<1>8. Faithful(r, o, w)
  BY <1>1, <1>7, ResultFields DEF Faithful
<1> QED
  BY <1>3, <1>5, <1>8 DEF w
-----------------------------------------------------------------------------
(* What a write does to the UNIQUE constraint. *)

\* Rows stay unique when some are removed.
LEMMA FewerUnique ==
    ASSUME NEW a \in [Keys -> Rows], NEW b \in [Keys -> Rows], Unique(a),
           \A x \in Keys : b[x] = a[x] \/ b[x] = Absent
    PROVE  Unique(b)
BY DEF Unique

\* Unique rows hold no value twice.
LEMMA UniqueNotDoubled ==
    ASSUME NEW rows \in [Keys -> Rows], Unique(rows), NEW v \in Values
    PROVE  ~Doubled(rows, v)
BY Marks DEF Unique, Doubled

\* What SQL makes of unique rows is unique.
LEMMA SqlUnique ==
    ASSUME NEW rows \in [Keys -> Rows], Unique(rows), NEW self \in SUBSET Keys, NEW k \in Keys,
           NEW v \in Values, NEW pk, NEW uc
    PROVE  Unique(Over(rows, SqlWrites(rows, self, k, v, pk, uc)))
<1> DEFINE w == SqlWrites(rows, self, k, v, pk, uc)
           gone == self \cup Rivals(rows, self \cup {k}, v)
           new == Over(rows, w)
<1>1. w \in Overlays
  BY Zenon, SqlCases
<1>2. CASE Refuses(rows, self, k, v, pk, uc)
  <2>1. w = Blank
    BY Zenon, <1>2, SqlCases
  <2> QED
    BY <2>1, Blanks
<1>3. CASE ~Refuses(rows, self, k, v, pk, uc)
  <2>1. Puts(w, k, v, gone)
    BY <1>3, SqlCases
  <2>2. \A x \in Keys \ {k} : rows[x] = v => x \in gone
    BY DEF Rivals
  <2> HIDE DEF w, gone
  <2>3. w[k] = v /\ \A x \in Keys \ {k} : w[x] = IF x \in gone THEN Tombstone ELSE Absent
    BY Zenon, <2>1 DEF Puts
  <2>4. new[k] = v
    BY Zenon, <1>1, <2>3, OverAt
  <2>5. \A x \in Keys \ {k} : new[x] = IF x \in gone THEN Absent ELSE rows[x]
    BY <1>1, <2>3, OverAt
  <2> HIDE DEF new
  <2>6. \A x \in Keys \ {k} : new[x] # v
    BY Zenon, <2>2, <2>5, Marks
  <2>7. Unique(new)
    BY Zenon, <2>4, <2>5, <2>6 DEF Unique
  <2> QED
    BY <2>7 DEF new, w
<1> QED
  BY <1>2, <1>3

\* A result that does what SQL says keeps the merged rows unique.
LEMMA FaithfulUnique ==
    ASSUME NEW o \in Overlays, NEW u \in [Keys -> Rows], Unique(Over(u, o)), NEW self \in SUBSET Keys,
           NEW k \in Keys, NEW v \in Values, NEW pk, NEW uc,
           NEW r, Faithful(r, o, SqlWrites(Over(u, o), self, k, v, pk, uc)), r.outcome # "constraint"
    PROVE  Unique(Over(u, r.overlay))
<1> DEFINE rows == Over(u, o)
           w == SqlWrites(rows, self, k, v, pk, uc)
<1>1. rows \in [Keys -> Rows]
  BY OverType
<1>2. r.overlay = Stack(o, w) /\ w \in Overlays
  BY Zenon, <1>1, SqlCases DEF Faithful
<1>3. Unique(Over(rows, w))
  BY Zenon, <1>1, SqlUnique
<1>4. Over(u, Stack(o, w)) = Over(rows, w)
  BY Zenon, <1>2, OverStack
<1> QED
  BY <1>2, <1>3, <1>4

\* An UPDATE of either kind: its results, and what they do to the overlay.
LEMMA UpdateFaithful ==
    ASSUME NEW o \in Overlays, NEW u \in [Keys -> Rows], NEW j \in Keys, NEW k \in Keys,
           NEW v \in Values, NEW pk \in Actions, NEW uc \in Actions,
           NEW r \in UpdateRow(o, u, j, k, v, pk, uc)
    PROVE  /\ r \in Outcomes
           /\ ~(uc = "replace" /\ Doubled(Over(u, o), v)) /\ ~(j # k /\ pk = "ignore" /\ o[k] \in Values) =>
                Faithful(r, o, SqlWrites(Over(u, o), {j}, k, v, pk, uc))
<1>1. CASE j = k
  <2>1. r \in UpdateInPlace(o, u, k, v, uc)
    BY Zenon, <1>1 DEF UpdateRow
  <2> QED
    BY <1>1, <2>1, InPlaceFaithful
<1>2. CASE j # k
  <2>1. r \in Relocate(o, u, j, k, v, pk, uc)
    BY <1>2 DEF UpdateRow
  <2> QED
    BY <1>2, <2>1, RelocateFaithful
<1> QED
  BY Zenon, <1>1, <1>2

\* An INSERT that is not undone keeps the merged rows unique.
LEMMA InsertUnique ==
    ASSUME NEW o \in Overlays, NEW u \in [Keys -> Rows], Unique(Over(u, o)), NEW k \in Keys, NEW v \in Values,
           NEW pk \in Actions, NEW uc \in Actions, NEW r \in InsertRow(o, u, k, v, pk, uc),
           r.outcome # "constraint"
    PROVE  Unique(Over(u, r.overlay))
<1> DEFINE none == {}
<1>1. ~Doubled(Over(u, o), v)
  BY Zenon, OverType, UniqueNotDoubled
<1>2. Faithful(r, o, SqlWrites(Over(u, o), none, k, v, pk, uc))
  BY <1>1, InsertFaithful
<1>3. none \in SUBSET Keys
  OBVIOUS
<1> HIDE DEF none
<1> QED
  BY <1>2, <1>3, FaithfulUnique

\* So does an UPDATE, even one that slips: the row is gone then, but no other is doubled.
LEMMA UpdateUnique ==
    ASSUME NEW o \in Overlays, NEW u \in [Keys -> Rows], Unique(Over(u, o)), NEW j \in Keys, NEW k \in Keys,
           NEW v \in Values, NEW pk \in Actions, NEW uc \in Actions,
           NEW r \in UpdateRow(o, u, j, k, v, pk, uc), r.outcome # "constraint"
    PROVE  Unique(Over(u, r.overlay))
<1>0. ~Doubled(Over(u, o), v) /\ Over(u, o) \in [Keys -> Rows]
  BY Zenon, OverType, UniqueNotDoubled
<1>1. CASE ~(j # k /\ pk = "ignore" /\ o[k] \in Values)
  <2>1. Faithful(r, o, SqlWrites(Over(u, o), {j}, k, v, pk, uc))
    BY <1>0, <1>1, UpdateFaithful
  <2>2. {j} \in SUBSET Keys
    OBVIOUS
  <2> QED
    BY Zenon, <2>1, <2>2, FaithfulUnique
<1>2. CASE j # k /\ pk = "ignore" /\ o[k] \in Values
  <2>1. ~CheckMergedPKConflict(o, u, k, pk)
    BY <1>2, Marks DEF CheckMergedPKConflict
  <2>2. PICK c \in CheckMergedUniqueConstraints(o, u, v, {j, k}, uc) :
             r = IF c.outcome = "ok" THEN WriteRelocatedRow([c.overlay EXCEPT ![j] = Tombstone], k, v, pk) ELSE c
    BY Zenon, <1>2, <2>1 DEF UpdateRow, Relocate
  <2>3. {j, k} \in SUBSET Keys
    BY Zenon
  <2>4. CASE c.outcome # "ok"
    <3>1. c.overlay = o
      BY Zenon, <2>3, <2>4, CheckRefuses
    <3> QED
      BY <2>2, <2>4, <3>1
  <2>5. CASE c.outcome = "ok"
    <3> DEFINE q == [c.overlay EXCEPT ![j] = Tombstone]
               rivals == Rivals(Over(u, o), {j, k}, v)
    <3>1. c.overlay \in Overlays
      BY <2>3, CheckType DEF Outcomes
    <3>2. Removes(c.overlay, o, rivals)
      BY Zenon, <1>0, <2>3, <2>5, CheckEvicts
    <3>3. q \in Overlays /\ \A x \in Keys : q[x] = IF x = j THEN Tombstone ELSE c.overlay[x]
      BY Zenon, <3>1, Vacated
    <3>4. r = WriteRelocatedRow(q, k, v, pk)
      BY <2>2, <2>5
    <3>5. k \notin rivals
      BY DEF Rivals
    <3> HIDE DEF q, rivals
    <3>6. \A x \in Keys : q[x] = Tombstone \/ q[x] = o[x]
      BY <3>2, <3>3 DEF Removes
    <3>7. q[k] \in Values /\ pk # "replace"
      BY <1>2, <3>2, <3>3, <3>5 DEF Removes
    <3>8. r.overlay = q
      BY <3>4, <3>7, ResultFields DEF WriteRelocatedRow
    <3>9. \A x \in Keys : Over(u, q)[x] = Over(u, o)[x] \/ Over(u, q)[x] = Absent
      <4> TAKE x \in Keys
      <4>1. CASE q[x] = Tombstone
        BY Zenon, <3>3, <4>1, OverAt
      <4>2. CASE q[x] = o[x]
        BY <3>3, <4>2, OverAt
      <4> QED
        BY Zenon, <3>6, <4>1, <4>2
    <3>10. Over(u, q) \in [Keys -> Rows]
      BY Zenon, <3>3, OverType
    <3> QED
      BY <1>0, <3>8, <3>9, <3>10, FewerUnique
  <2> QED
    BY <2>4, <2>5
<1> QED
  BY <1>1, <1>2

\* So does a DELETE.
LEMMA DeleteUnique ==
    ASSUME NEW o \in Overlays, NEW u \in [Keys -> Rows], Unique(Over(u, o)), NEW k \in Keys,
           NEW r \in DeleteRow(o, k)
    PROVE  Unique(Over(u, r.overlay))
<1> DEFINE q == [o EXCEPT ![k] = Tombstone]
<1>1. r.overlay = q
  BY ResultFields DEF DeleteRow
<1>2. q \in Overlays /\ \A x \in Keys : q[x] = IF x = k THEN Tombstone ELSE o[x]
  BY Zenon, Vacated
<1> HIDE DEF q
<1>3. \A x \in Keys : Over(u, q)[x] = Over(u, o)[x] \/ Over(u, q)[x] = Absent
  BY <1>2, OverAt
<1>4. Over(u, q) \in [Keys -> Rows] /\ Over(u, o) \in [Keys -> Rows]
  BY Zenon, <1>2, OverType
<1> QED
  BY Zenon, <1>1, <1>3, <1>4, FewerUnique
-----------------------------------------------------------------------------
(* The type of the state. *)


\* The bounds of a driver.
LEMMA DriverType ==
    ASSUME Shapes
    PROVE  /\ driver.maxDepth \in Nat /\ driver.maxWork \in Nat /\ driver.maxCommits \in Nat
           /\ driver.dbs \subseteq Dbs /\ driver.tables \subseteq Tables /\ driver.keys \subseteq Keys
           /\ driver.pk \in Actions /\ driver.uc \in Actions
BY Zenon, ConstantsAssumption DEF Shapes

\* The record of one table.
LEMMA TabType ==
    ASSUME Shapes, NEW d \in Dbs, NEW t \in Tables
    PROVE  /\ tab[d][t] \in TableStates /\ tab[d][t].overlay \in Overlays
           /\ Formed(tab[d][t], depth[d], driver.maxDepth)
           /\ depth[d] \in Nat /\ depth[d] <= driver.maxDepth /\ driver.maxDepth \in Nat
           /\ mine[d][t] \in Overlays
           /\ Underlying(t) \in [Keys -> Rows]
<1>1. tab[d][t] \in TableStates /\ Formed(tab[d][t], depth[d], driver.maxDepth)
  BY DEF Shapes
<1>2. tab[d][t].overlay \in Overlays
  BY Zenon, <1>1 DEF TableStates
<1>3. driver.maxDepth \in Nat
  BY Zenon, DriverType
<1>4. depth[d] \in Nat /\ depth[d] <= driver.maxDepth
  BY <1>3 DEF Shapes
<1>5. mine[d][t] \in Overlays
  BY DEF Shapes
<1>6. Underlying(t) \in [Keys -> Rows]
  BY Zenon, OverType DEF Shapes, Underlying
<1> QED
  BY Zenon, <1>1, <1>2, <1>3, <1>4, <1>5, <1>6

\* Well-formed records for the tables of one Database, at its new depth.
LEMMA TabStep ==
    ASSUME Shapes, NEW d \in Dbs, NEW f, f = [s \in Tables |-> f[s]], NEW m \in 0..driver.maxDepth,
           \A s \in Tables : Formed(f[s], m, driver.maxDepth),
           tab' = [tab EXCEPT ![d] = f], depth' = [depth EXCEPT ![d] = m], driver' = driver
    PROVE  /\ tab' \in [Dbs -> [Tables -> TableStates]]
           /\ \A e \in Dbs, s \in Tables : Formed(tab'[e][s], depth'[e], driver'.maxDepth)
           /\ depth' \in [Dbs -> 0..driver'.maxDepth]
<1>1. \A s \in Tables : f[s] \in TableStates
  BY DEF Formed
<1>2. f \in [Tables -> TableStates]
  BY Zenon, <1>1
<1>3. /\ tab \in [Dbs -> [Tables -> TableStates]]
      /\ depth \in [Dbs -> 0..driver.maxDepth]
      /\ \A e \in Dbs, s \in Tables : Formed(tab[e][s], depth[e], driver.maxDepth)
  BY DEF Shapes
<1>4. tab' \in [Dbs -> [Tables -> TableStates]]
  BY Zenon, <1>2, <1>3
<1>5. ASSUME NEW e \in Dbs, NEW s \in Tables PROVE Formed(tab'[e][s], depth'[e], driver'.maxDepth)
  <2>1. CASE e = d
    <3>1. tab'[e][s] = f[s] /\ depth'[e] = m
      BY Zenon, <1>3, <2>1
    <3> QED
      BY <3>1
  <2>2. CASE e # d
    <3>1. tab'[e][s] = tab[e][s] /\ depth'[e] = depth[e]
      BY Zenon, <1>3, <2>2
    <3> QED
      BY Zenon, <1>3, <3>1
  <2> QED
    BY <2>1, <2>2
<1> QED
  BY Zenon, <1>3, <1>4, <1>5

\* The record of table t once the statement's savepoint is taken and its overlay made.
LEMMA ReadyFormed ==
    ASSUME Shapes, NEW d \in Dbs, NEW t \in Tables
    PROVE  /\ Formed(Entered(d)[t], depth[d] + 1, driver.maxDepth)
           /\ Formed(Ready(d, t), depth[d] + 1, driver.maxDepth)
           /\ Ready(d, t).created
           /\ Ready(d, t).overlay = tab[d][t].overlay
           /\ Entered(d)[t] = OnSavepoint(tab[d][t], depth[d])
<1> DEFINE r == OnSavepoint(tab[d][t], depth[d])
           n == depth[d] + 1
<1>0. Entered(d)[t] = r
  BY Zenon DEF Entered
<1>1. Formed(r, n, driver.maxDepth)
  BY TabType, OnSavepointFormed
<1>2. r.overlay = tab[d][t].overlay
  <2>1. tab[d][t] \in TableStates
    BY Zenon, TabType
  <2> QED
    BY Zenon, <2>1 DEF OnSavepoint, TableStates
<1>3. n \in Nat /\ n <= driver.maxDepth + 1 /\ driver.maxDepth \in Nat
  BY TabType
<1> HIDE DEF r, n
<1>4. /\ Formed(EnsureOverlay(EnsureConnection(r, n), n), n, driver.maxDepth)
      /\ EnsureOverlay(EnsureConnection(r, n), n).created
      /\ EnsureOverlay(EnsureConnection(r, n), n).overlay = r.overlay
  BY <1>1, <1>3, EnsureFormed
<1>5. Ready(d, t) = EnsureOverlay(EnsureConnection(r, n), n)
  BY Zenon, <1>0 DEF Ready, n
<1> QED
  BY Zenon, <1>0, <1>1, <1>2, <1>4, <1>5 DEF n, r

\* A table's record x after the statement's savepoint at depth n is gone again, rolled back
\* to first if the statement failed.
Settled(x, n, r) == OnRelease(IF r.outcome = "constraint" THEN OnRollbackTo(x, n) ELSE x, n)

\* The records of Database d while a statement that writes table t ends with result r.
Staged(d, t, r, s) ==
    IF s = t THEN [Ready(d, t) EXCEPT !.overlay = r.overlay] ELSE OnSavepoint(tab[d][s], depth[d])

\* They are well formed, one level deeper.
LEMMA StagedFormed ==
    ASSUME Shapes, NEW d \in Dbs, NEW t \in Tables, NEW r \in Outcomes, NEW s \in Tables
    PROVE  /\ Formed(Staged(d, t, r, s), depth[d] + 1, driver.maxDepth)
           /\ Formed(Settled(Staged(d, t, r, s), depth[d], r), depth[d], driver.maxDepth)
<1> DEFINE x == Staged(d, t, r, s)
           n == depth[d]
<1>0. n \in Nat /\ n + 1 \in Nat /\ n \in 0..(n + 1 - 1) /\ driver.maxDepth \in Nat
  BY TabType
<1>1. Formed(x, n + 1, driver.maxDepth)
  <2>1. CASE s = t
    <3>1. Formed(Ready(d, t), n + 1, driver.maxDepth) /\ Ready(d, t).created
      BY ReadyFormed
    <3>2. r.overlay \in Overlays
      BY DEF Outcomes
    <3>3. x = [Ready(d, t) EXCEPT !.overlay = r.overlay]
      BY Zenon, <2>1 DEF Staged
    <3> HIDE DEF x
    <3> QED
      BY Zenon, <3>1, <3>2, <3>3 DEF Formed, TableStates
  <2>2. CASE s # t
    <3>1. x = OnSavepoint(tab[d][s], depth[d])
      BY Zenon, <2>2 DEF Staged
    <3> QED
      BY <3>1, ReadyFormed
  <2> QED
    BY <2>1, <2>2
<1> HIDE DEF x, n
<1>2. CASE r.outcome = "constraint"
  <2>1. Formed(OnRollbackTo(x, n), n + 1, driver.maxDepth)
    BY <1>0, <1>1, OnRollbackToFormed
  <2>2. Formed(OnRelease(OnRollbackTo(x, n), n), n, driver.maxDepth)
    BY <1>0, <2>1, OnReleaseFormed
  <2> QED
    BY Zenon, <1>1, <1>2, <2>2 DEF Settled, x, n
<1>3. CASE r.outcome # "constraint"
  <2>1. Formed(OnRelease(x, n), n, driver.maxDepth)
    BY <1>0, <1>1, OnReleaseFormed
  <2> QED
    BY Zenon, <1>1, <1>3, <2>1 DEF Settled, x, n
<1> QED
  BY Zenon, <1>2, <1>3

\* What a statement does to the records (runWithStatementSavepoints).
LEMMA StatementTab ==
    ASSUME Shapes, NEW d \in Dbs, NEW t \in Tables, NEW results, NEW writes,
           Statement(d, t, results, writes)
    PROVE  \E r \in results :
               tab' = [tab EXCEPT ![d] = [s \in Tables |-> Settled(Staged(d, t, r, s), depth[d], r)]]
<1> DEFINE n == depth[d]
           written(r) == [Entered(d) EXCEPT ![t] = [Ready(d, t) EXCEPT !.overlay = r.overlay]]
           left(r) == IF r.outcome = "constraint" THEN [s \in Tables |-> OnRollbackTo(written(r)[s], n)] ELSE written(r)
<1>1. PICK r \in results : tab' = [tab EXCEPT ![d] = [s \in Tables |-> OnRelease(left(r)[s], n)]]
  BY Zenon DEF Statement
<1>2. ASSUME NEW s \in Tables PROVE written(r)[s] = Staged(d, t, r, s)
  BY Zenon DEF Entered, Staged
<1>3. ASSUME NEW s \in Tables
      PROVE  left(r)[s] = IF r.outcome = "constraint" THEN OnRollbackTo(Staged(d, t, r, s), n) ELSE Staged(d, t, r, s)
  <2> HIDE DEF written
  <2>1. written(r)[s] = Staged(d, t, r, s)
    BY Zenon, <1>2
  <2>2. CASE r.outcome = "constraint"
    <3>1. left(r) = [q \in Tables |-> OnRollbackTo(written(r)[q], n)]
      BY Zenon, <2>2
    <3> HIDE DEF left
    <3> QED
      BY Zenon, <2>1, <2>2, <3>1
  <2>3. CASE r.outcome # "constraint"
    BY Zenon, <2>1, <2>3
  <2> QED
    BY Zenon, <2>2, <2>3
<1> HIDE DEF left
<1>4. ASSUME NEW s \in Tables PROVE OnRelease(left(r)[s], n) = Settled(Staged(d, t, r, s), n, r)
  BY Zenon, <1>3 DEF Settled
<1>5. [s \in Tables |-> OnRelease(left(r)[s], n)] = [s \in Tables |-> Settled(Staged(d, t, r, s), n, r)]
  BY Zenon, <1>4
<1> QED
  BY <1>1, <1>5

\* A statement preserves the type of the state.
LEMMA StatementShapes ==
    ASSUME Shapes, NEW d \in Dbs, NEW t \in Tables, NEW results, \A r \in results : r \in Outcomes,
           NEW writes \in Overlays, Statement(d, t, results, writes), lapses' \subseteq Lapses
    PROVE  Shapes'
<1>1. PICK r \in results :
           tab' = [tab EXCEPT ![d] = [s \in Tables |-> Settled(Staged(d, t, r, s), depth[d], r)]]
  BY StatementTab
<1> DEFINE f == [s \in Tables |-> Settled(Staged(d, t, r, s), depth[d], r)]
<1>2. \A s \in Tables : Formed(f[s], depth[d], driver.maxDepth)
  BY Zenon, StagedFormed
<1>3. f = [s \in Tables |-> f[s]] /\ tab' = [tab EXCEPT ![d] = f]
  BY <1>1
<1>4. depth[d] \in 0..driver.maxDepth /\ depth' = [depth EXCEPT ![d] = depth[d]] /\ driver' = driver
  BY DEF Shapes, Statement
<1> HIDE DEF f
<1>5. /\ tab' \in [Dbs -> [Tables -> TableStates]]
      /\ \A e \in Dbs, s \in Tables : Formed(tab'[e][s], depth'[e], driver'.maxDepth)
      /\ depth' \in [Dbs -> 0..driver'.maxDepth]
  BY Zenon, <1>2, <1>3, <1>4, TabStep
<1>6. /\ work[d] < driver.maxWork /\ work' = [work EXCEPT ![d] = @ + 1]
      /\ mine' = [mine EXCEPT ![d][t] = Stack(@, writes)]
      /\ UNCHANGED <<driver, under, pending, dropper, depth, phase, todo, applied, commits, saved, promised>>
  BY Zenon DEF Statement, flush
<1>7. work' \in [Dbs -> 0..driver'.maxWork]
  <2>1. work \in [Dbs -> 0..driver.maxWork]
    BY Zenon DEF Shapes
  <2> QED
    BY <1>6, <2>1, DriverType
<1>8. Stack(mine[d][t], writes) \in Overlays
  BY Zenon, TabType, StackAt
<1>9. mine' \in [Dbs -> [Tables -> Overlays]]
  BY Zenon, <1>6, <1>8 DEF Shapes
<1> QED
  BY Zenon, <1>5, <1>6, <1>7, <1>9 DEF Shapes

\* The actions of an INSERT: those of its OR clause, or those the table declares.
LEMMA InsertActions ==
    ASSUME Shapes, NEW or \in Actions \cup {"none"}
    PROVE  /\ (IF or = "none" THEN driver.pk ELSE or) \in Actions
           /\ (IF or = "none" THEN driver.uc ELSE or) \in Actions
BY DriverType DEF Actions

\* A statement starts from the overlay there is.
LEMMA ReadyOverlay ==
    ASSUME Shapes, NEW d \in Dbs, NEW t \in Tables
    PROVE  Ready(d, t).overlay \in Overlays
<1>1. tab[d][t].overlay \in Overlays
  BY Zenon, TabType
<1>2. Ready(d, t).overlay = tab[d][t].overlay
  BY Zenon, ReadyFormed
<1> QED
  BY Zenon, <1>1, <1>2

\* Type correctness of INSERT, ...
LEMMA InsertShapes ==
    ASSUME Shapes, NEW d \in Dbs, NEW t \in Tables, Insert(d, t)
    PROVE  Shapes'
<1> DEFINE o == Ready(d, t).overlay
           u == Underlying(t)
<1>0. o \in Overlays /\ u \in [Keys -> Rows] /\ mine[d][t] \in Overlays
  BY Zenon, TabType, ReadyOverlay
<1>1. PICK k \in driver.keys, v \in Values, or \in Actions \cup {"none"} :
        LET pk == IF or = "none" THEN driver.pk ELSE or
            uc == IF or = "none" THEN driver.uc ELSE or
        IN /\ Statement(d, t, InsertRow(o, u, k, v, pk, uc), SqlWrites(Expected(d, t), {}, k, v, pk, uc))
           /\ lapses' = lapses \cup LapseIf("crowded", Crowded(d, t, v, uc))
  BY Zenon DEF Insert
<1> DEFINE pk == IF or = "none" THEN driver.pk ELSE or
           uc == IF or = "none" THEN driver.uc ELSE or
           none == {}
<1>2. pk \in Actions /\ uc \in Actions /\ k \in Keys /\ none \in SUBSET Keys
  BY SMTT(30), InsertActions, DriverType
<1>3. Statement(d, t, InsertRow(o, u, k, v, pk, uc), SqlWrites(Expected(d, t), none, k, v, pk, uc))
  BY SMTT(30), <1>1
<1> HIDE DEF pk, uc, o, u, none
<1>4. \A r \in InsertRow(o, u, k, v, pk, uc) : r \in Outcomes
  BY Zenon, <1>0, <1>2, InsertFaithful
<1>5. Expected(d, t) \in [Keys -> Rows]
  BY SMTT(30), <1>0, OverType DEF Expected, u
<1>6. SqlWrites(Expected(d, t), none, k, v, pk, uc) \in Overlays
  BY ZenonT(30), <1>2, <1>5, SqlCases
<1>7. lapses' \subseteq Lapses
  BY Zenon, <1>1 DEF Shapes, Lapses, LapseIf
<1> QED
  BY SMTT(30), <1>3, <1>4, <1>6, <1>7, StatementShapes

\* ... of UPDATE, ...
LEMMA UpdateShapes ==
    ASSUME Shapes, NEW d \in Dbs, NEW t \in Tables, Update(d, t)
    PROVE  Shapes'
<1> DEFINE o == Ready(d, t).overlay
           u == Underlying(t)
<1>0. o \in Overlays /\ u \in [Keys -> Rows] /\ mine[d][t] \in Overlays
  BY Zenon, TabType, ReadyOverlay
<1>1. PICK j \in driver.keys, k \in driver.keys, v \in Values :
        /\ Statement(d, t, UpdateRow(o, u, j, k, v, driver.pk, driver.uc),
                     SqlWrites(Expected(d, t), {j}, k, v, driver.pk, driver.uc))
        /\ lapses' = lapses \cup LapseIf("crowded", Crowded(d, t, v, driver.uc))
                    \cup LapseIf("slipped", j # k /\ driver.pk = "ignore" /\ tab[d][t].overlay[k] \in Values)
  BY Zenon DEF Update
<1>2. driver.pk \in Actions /\ driver.uc \in Actions /\ k \in Keys /\ j \in Keys /\ {j} \in SUBSET Keys
  BY DriverType
<1> HIDE DEF o, u
<1>4. \A r \in UpdateRow(o, u, j, k, v, driver.pk, driver.uc) : r \in Outcomes
  BY Zenon, <1>0, <1>2, UpdateFaithful
<1>5. Expected(d, t) \in [Keys -> Rows]
  BY <1>0, OverType DEF Expected, u
<1>6. SqlWrites(Expected(d, t), {j}, k, v, driver.pk, driver.uc) \in Overlays
  BY Zenon, <1>2, <1>5, SqlCases
<1>7. lapses' \subseteq Lapses
  BY Zenon, <1>1 DEF Shapes, Lapses, LapseIf
<1> QED
  BY SMTT(30), <1>1, <1>4, <1>6, <1>7, StatementShapes

\* ... and of DELETE.
LEMMA DeleteShapes ==
    ASSUME Shapes, NEW d \in Dbs, NEW t \in Tables, Delete(d, t)
    PROVE  Shapes'
<1> DEFINE o == Ready(d, t).overlay
<1>0. o \in Overlays
  BY Zenon, TabType, ReadyOverlay
<1>1. PICK k \in Keys :
        /\ Statement(d, t, DeleteRow(o, k), [Blank EXCEPT ![k] = Tombstone])
        /\ UNCHANGED lapses
  BY DEF Delete
<1> HIDE DEF o
<1>2. \A r \in DeleteRow(o, k) : r \in Outcomes
  BY Zenon, <1>0, DeleteFaithful
<1>3. [Blank EXCEPT ![k] = Tombstone] \in Overlays
  BY Zenon, Vacated, BlankType
<1>4. lapses' \subseteq Lapses
  BY Zenon, <1>1 DEF Shapes
<1> QED
  BY <1>1, <1>2, <1>3, <1>4, StatementShapes

\* Type correctness of the broadcast of a savepoint, ...
LEMMA SavepointShapes ==
    ASSUME Shapes, NEW d \in Dbs, Savepoint(d)
    PROVE  Shapes'
<1> DEFINE f == Entered(d)
<1>0. /\ depth[d] < driver.maxDepth
      /\ tab' = [tab EXCEPT ![d] = f]
      /\ depth' = [depth EXCEPT ![d] = depth[d] + 1]
      /\ saved' = [saved EXCEPT ![d] = Append(@, mine[d])]
      /\ UNCHANGED <<driver, under, pending, dropper, phase, todo, applied, work, commits, promised, mine, lapses>>
  BY Zenon DEF Savepoint, Broadcast, Elsewhere, flush, Shapes
<1>1. \A s \in Tables : Formed(f[s], depth[d] + 1, driver.maxDepth)
  BY Zenon, ReadyFormed
<1>2. f = [s \in Tables |-> f[s]]
  BY SMTT(30) DEF Entered
<1>3. depth[d] + 1 \in 0..driver.maxDepth
  <2>1. depth \in [Dbs -> 0..driver.maxDepth]
    BY Zenon DEF Shapes
  <2> QED
    BY <1>0, <2>1, DriverType
<1> HIDE DEF f
<1>4. /\ tab' \in [Dbs -> [Tables -> TableStates]]
      /\ \A e \in Dbs, s \in Tables : Formed(tab'[e][s], depth'[e], driver'.maxDepth)
      /\ depth' \in [Dbs -> 0..driver'.maxDepth]
  BY Zenon, <1>0, <1>1, <1>2, <1>3, TabStep
<1>5. saved[d] \in Seq([Tables -> Overlays]) /\ mine[d] \in [Tables -> Overlays] /\ Len(saved[d]) = depth[d]
  BY DEF Shapes
<1>6. Append(saved[d], mine[d]) \in Seq([Tables -> Overlays]) /\ Len(Append(saved[d], mine[d])) = depth[d] + 1
  BY <1>5
<1>7. saved' \in [Dbs -> Seq([Tables -> Overlays])] /\ \A e \in Dbs : Len(saved'[e]) = depth'[e]
  BY SMTT(30), <1>0, <1>6 DEF Shapes
<1> QED
  BY Zenon, <1>0, <1>4, <1>7 DEF Shapes

\* ... of its release, ...
LEMMA ReleaseShapes ==
    ASSUME Shapes, NEW d \in Dbs, ReleaseSavepoint(d)
    PROVE  Shapes'
<1>0. PICK i \in 0..(depth[d] - 1) :
      /\ tab' = [tab EXCEPT ![d] = [t \in Tables |-> OnRelease(tab[d][t], i)]]
      /\ depth' = [depth EXCEPT ![d] = i]
      /\ saved' = [saved EXCEPT ![d] = SubSeq(@, 1, i)]
      /\ lapses' = lapses \cup LapseIf("leftover", \E t \in Tables : \E j \in tab'[d][t].pre : j >= i)
      /\ UNCHANGED <<driver, under, pending, dropper, phase, todo, applied, work, commits, promised, mine>>
  BY ZenonT(30) DEF ReleaseSavepoint, Broadcast, Elsewhere, flush
<1> DEFINE f == [t \in Tables |-> OnRelease(tab[d][t], i)]
<1>z. depth \in [Dbs -> 0..driver.maxDepth]
  BY Zenon DEF Shapes
<1>a. depth[d] \in Nat /\ depth[d] <= driver.maxDepth /\ driver.maxDepth \in Nat
  BY <1>z, DriverType
<1>1. \A s \in Tables : Formed(f[s], i, driver.maxDepth)
  BY SMTT(30), <1>a, TabType, OnReleaseFormed
<1>2. f = [s \in Tables |-> f[s]]
  OBVIOUS
<1>3. i \in 0..driver.maxDepth
  BY SMTT(30), <1>a
<1>x. tab' = [tab EXCEPT ![d] = f]
  BY Zenon, <1>0
<1> HIDE DEF f
<1>4. /\ tab' \in [Dbs -> [Tables -> TableStates]]
      /\ \A e \in Dbs, s \in Tables : Formed(tab'[e][s], depth'[e], driver'.maxDepth)
      /\ depth' \in [Dbs -> 0..driver'.maxDepth]
  BY Zenon, <1>0, <1>x, <1>1, <1>2, <1>3, TabStep
<1>5. saved[d] \in Seq([Tables -> Overlays]) /\ Len(saved[d]) = depth[d]
  BY DEF Shapes
<1>6. SubSeq(saved[d], 1, i) \in Seq([Tables -> Overlays]) /\ Len(SubSeq(saved[d], 1, i)) = i
  BY <1>a, <1>5
<1>7. saved' \in [Dbs -> Seq([Tables -> Overlays])] /\ \A e \in Dbs : Len(saved'[e]) = depth'[e]
  BY ZenonT(30), <1>0, <1>6 DEF Shapes
<1>8. lapses' \subseteq Lapses
  BY SMTT(30), <1>0 DEF Shapes, Lapses, LapseIf
<1> QED
  BY ZenonT(30), <1>0, <1>4, <1>7, <1>8 DEF Shapes

\* ... and of a rollback to it.
LEMMA RollbackToShapes ==
    ASSUME Shapes, NEW d \in Dbs, RollbackToSavepoint(d)
    PROVE  Shapes'
<1>0. PICK i \in 0..(depth[d] - 1) :
      /\ tab' = [tab EXCEPT ![d] = [t \in Tables |-> OnRollbackTo(tab[d][t], i)]]
      /\ depth' = [depth EXCEPT ![d] = i + 1]
      /\ mine' = [mine EXCEPT ![d] = saved[d][i + 1]]
      /\ saved' = [saved EXCEPT ![d] = SubSeq(@, 1, i + 1)]
      /\ UNCHANGED <<driver, under, pending, dropper, phase, todo, applied, work, commits, promised, lapses>>
  BY Zenon DEF RollbackToSavepoint, Broadcast, Elsewhere, flush
<1> DEFINE f == [t \in Tables |-> OnRollbackTo(tab[d][t], i)]
<1>z. depth \in [Dbs -> 0..driver.maxDepth]
  BY Zenon DEF Shapes
<1>a. depth[d] \in Nat /\ depth[d] <= driver.maxDepth /\ driver.maxDepth \in Nat
  BY <1>z, DriverType
<1>1. \A s \in Tables : Formed(f[s], i + 1, driver.maxDepth)
  BY Zenon, <1>a, TabType, OnRollbackToFormed
<1>2. f = [s \in Tables |-> f[s]]
  OBVIOUS
<1>3. i + 1 \in 0..driver.maxDepth /\ i + 1 \in 1..depth[d]
  BY <1>a
<1>x. tab' = [tab EXCEPT ![d] = f]
  BY <1>0
<1> HIDE DEF f
<1>4. /\ tab' \in [Dbs -> [Tables -> TableStates]]
      /\ \A e \in Dbs, s \in Tables : Formed(tab'[e][s], depth'[e], driver'.maxDepth)
      /\ depth' \in [Dbs -> 0..driver'.maxDepth]
  BY Zenon, <1>0, <1>x, <1>1, <1>2, <1>3, TabStep
<1>5. saved[d] \in Seq([Tables -> Overlays]) /\ Len(saved[d]) = depth[d]
  BY DEF Shapes
<1>6. SubSeq(saved[d], 1, i + 1) \in Seq([Tables -> Overlays]) /\ Len(SubSeq(saved[d], 1, i + 1)) = i + 1
  BY <1>a, <1>3, <1>5
<1>7. saved' \in [Dbs -> Seq([Tables -> Overlays])] /\ \A e \in Dbs : Len(saved'[e]) = depth'[e]
  BY Zenon, <1>0, <1>6 DEF Shapes
<1>8. saved[d][i + 1] \in [Tables -> Overlays]
  BY SMTT(30), <1>3, <1>5
<1>9. mine' \in [Dbs -> [Tables -> Overlays]]
  BY Zenon, <1>0, <1>8 DEF Shapes
<1> QED
  BY ZenonT(30), <1>0, <1>4, <1>7, <1>9 DEF Shapes

\* The end of a transaction leaves the type of what it resets.
LEMMA EndShapes ==
    ASSUME Shapes, NEW d \in Dbs, EndTransaction(d), driver' = driver
    PROVE  /\ tab' \in [Dbs -> [Tables -> TableStates]]
           /\ \A e \in Dbs, s \in Tables : Formed(tab'[e][s], depth'[e], driver'.maxDepth)
           /\ depth' \in [Dbs -> 0..driver'.maxDepth]
           /\ phase' \in [Dbs -> {"body", "apply", "commit"}]
           /\ todo' \in [Dbs -> SUBSET Tables] /\ applied' \in [Dbs -> SUBSET Tables]
           /\ mine' \in [Dbs -> [Tables -> Overlays]]
           /\ saved' \in [Dbs -> Seq([Tables -> Overlays])]
           /\ \A e \in Dbs : Len(saved'[e]) = depth'[e]
<1> DEFINE f == [t \in Tables |-> Cleared(tab[d][t])]
           blank == [t \in Tables |-> Blank]
<1>0. /\ tab' = [tab EXCEPT ![d] = f]
      /\ depth' = [depth EXCEPT ![d] = 0]
      /\ phase' = [phase EXCEPT ![d] = "body"]
      /\ todo' = [todo EXCEPT ![d] = {}] /\ applied' = [applied EXCEPT ![d] = {}]
      /\ mine' = [mine EXCEPT ![d] = blank]
      /\ saved' = [saved EXCEPT ![d] = <<>>]
  BY Zenon DEF EndTransaction, Shapes
<1>1. \A s \in Tables : Formed(f[s], 0, driver.maxDepth)
  BY Zenon, TabType, ClearedFormed
<1>2. f = [s \in Tables |-> f[s]] /\ 0 \in 0..driver.maxDepth
  BY DriverType
<1>3. blank \in [Tables -> Overlays]
  BY BlankType
<1> HIDE DEF f, blank
<1>4. /\ tab' \in [Dbs -> [Tables -> TableStates]]
      /\ \A e \in Dbs, s \in Tables : Formed(tab'[e][s], depth'[e], driver'.maxDepth)
      /\ depth' \in [Dbs -> 0..driver'.maxDepth]
  BY Zenon, <1>0, <1>1, <1>2, TabStep
<1>5. <<>> \in Seq([Tables -> Overlays]) /\ Len(<<>>) = 0
  OBVIOUS
<1>6. saved' \in [Dbs -> Seq([Tables -> Overlays])] /\ \A e \in Dbs : Len(saved'[e]) = depth'[e]
  BY <1>0, <1>5 DEF Shapes
<1>7. phase' \in [Dbs -> {"body", "apply", "commit"}]
  BY Zenon, <1>0 DEF Shapes
<1>8. todo' \in [Dbs -> SUBSET Tables] /\ applied' \in [Dbs -> SUBSET Tables]
  BY Zenon, <1>0 DEF Shapes
<1>9. mine' \in [Dbs -> [Tables -> Overlays]]
  BY Zenon, <1>0, <1>3 DEF Shapes
<1> QED
  BY Zenon, <1>4, <1>6, <1>7, <1>8, <1>9

\* ROLLBACK preserves the type.
LEMMA RollbackShapes ==
    ASSUME Shapes, NEW d \in Dbs, Rollback(d)
    PROVE  Shapes'
<1>1. /\ EndTransaction(d)
      /\ UNCHANGED <<driver, under, pending, dropper, work, commits, promised, lapses>>
  BY DEF Rollback
<1> QED
  BY Zenon, <1>1, EndShapes DEF Shapes

\* COMMIT up to the flush preserves the type.
LEMMA CommitShapes ==
    ASSUME Shapes, NEW d \in Dbs, Commit(d)
    PROVE  Shapes'
<1>1. /\ commits < driver.maxCommits /\ commits' = commits + 1
      /\ UNCHANGED <<driver, under, pending, dropper, work, promised>>
  BY Zenon DEF Commit
<1>2. commits' \in 0..driver'.maxCommits
  <2>1. commits \in 0..driver.maxCommits
    BY Zenon DEF Shapes
  <2> QED
    BY <1>1, <2>1, DriverType
<1>3. CASE Refused(d) /\ EndTransaction(d) /\ UNCHANGED lapses
  BY Zenon, <1>1, <1>2, <1>3, EndShapes DEF Shapes
<1>4. CASE /\ todo' = [todo EXCEPT ![d] = {t \in Tables : tab[d][t].created}]
           /\ phase' = [phase EXCEPT ![d] = IF todo'[d] = {} THEN "commit" ELSE "apply"]
           /\ lapses' = lapses \cup LapseIf("overlapped", \E e \in Dbs : phase[e] # "body")
           /\ UNCHANGED <<tab, depth, applied, mine, saved>>
  <2>1. todo' \in [Dbs -> SUBSET Tables]
    BY Zenon, <1>4 DEF Shapes
  <2>2. phase' \in [Dbs -> {"body", "apply", "commit"}]
    BY Zenon, <1>4 DEF Shapes
  <2>3. lapses' \subseteq Lapses
    BY Zenon, <1>4 DEF Shapes, Lapses, LapseIf
  <2> QED
    BY Zenon, <1>1, <1>2, <1>4, <2>1, <2>2, <2>3 DEF Shapes
<1> QED
  BY Zenon, <1>3, <1>4 DEF Commit

\* Rows discarded from open transactions of underlying tables leave the type.
LEMMA DiscardedType ==
    ASSUME Shapes, NEW ts
    PROVE  Discarded(ts) \in [Tables -> Overlays]
BY Zenon, BlankType DEF Discarded, Shapes

\* Applying an overlay preserves the type.
LEMMA ApplyShapes ==
    ASSUME Shapes, NEW d \in Dbs, ApplyOverlay(d)
    PROVE  Shapes'
<1>1. PICK t \in todo[d] :
        /\ pending' = [pending EXCEPT ![t] = Stack(@, tab[d][t].overlay)]
        /\ applied' = [applied EXCEPT ![d] = @ \cup {t}]
        /\ todo' = [todo EXCEPT ![d] = IF @ = {t} THEN applied'[d] ELSE @ \ {t}]
        /\ phase' = [phase EXCEPT ![d] = IF todo[d] = {t} THEN "commit" ELSE @]
        /\ UNCHANGED <<driver, under, dropper, tab, depth, work, commits, mine, saved, promised, lapses>>
  BY Zenon DEF ApplyOverlay, ghosts
<1>2. t \in Tables
  BY Zenon DEF Shapes
<1>3. Stack(pending[t], tab[d][t].overlay) \in Overlays
  BY Zenon, <1>2, TabType, StackAt DEF Shapes
<1>4. pending' \in [Tables -> Overlays]
  BY Zenon, <1>1, <1>2, <1>3 DEF Shapes
<1>5. applied' \in [Dbs -> SUBSET Tables]
  BY Zenon, <1>1, <1>2 DEF Shapes
<1>6. todo' \in [Dbs -> SUBSET Tables]
  BY Zenon, <1>1, <1>5 DEF Shapes
<1>7. phase' \in [Dbs -> {"body", "apply", "commit"}]
  BY SMTT(30), <1>1 DEF Shapes
<1> QED
  BY SMTT(30), <1>1, <1>4, <1>5, <1>6, <1>7 DEF Shapes

\* So do the failures of either phase.
LEMMA FailsShapes ==
    ASSUME Shapes, NEW d \in Dbs, ApplyFails(d) \/ CommitUnderlyingFails(d)
    PROVE  Shapes'
<1>1. /\ EndTransaction(d)
      /\ \E ts : pending' = Discarded(ts)
      /\ UNCHANGED <<driver, under, dropper, work, commits, promised>>
  BY Zenon DEF ApplyFails, CommitUnderlyingFails
<1>2. pending' \in [Tables -> Overlays]
  BY SMTT(30), <1>1, DiscardedType
<1>3. lapses' \subseteq Lapses
  BY Zenon DEF ApplyFails, CommitUnderlyingFails, Shapes, Lapses, LapseIf
<1> QED
  BY SMTT(30), <1>1, <1>2, <1>3, EndShapes DEF Shapes

\* So does the commit of an underlying table.
LEMMA CommitUnderlyingShapes ==
    ASSUME Shapes, NEW d \in Dbs, CommitUnderlying(d)
    PROVE  Shapes'
<1>1. PICK t \in todo[d] :
        /\ under' = [s \in Tables |-> IF s \in Domain(t) THEN Underlying(s) ELSE under[s]]
        /\ pending' = Discarded(Domain(t))
        /\ todo' = [todo EXCEPT ![d] = @ \ {t}]
        /\ UNCHANGED <<driver, dropper, tab, depth, phase, applied, work, commits, mine, saved, promised, lapses>>
  BY ZenonT(30) DEF CommitUnderlying, ghosts
<1>2. \A s \in Tables : Underlying(s) \in [Keys -> Rows]
  BY Zenon, TabType
<1>3. under' \in [Tables -> [Keys -> Rows]]
  BY Zenon, <1>1, <1>2 DEF Shapes
<1>4. pending' \in [Tables -> Overlays]
  BY Zenon, <1>1, DiscardedType
<1>5. todo' \in [Dbs -> SUBSET Tables]
  BY SMTT(30), <1>1 DEF Shapes
<1> QED
  BY SMTT(30), <1>1, <1>3, <1>4, <1>5 DEF Shapes

\* So does the end of a flush.
LEMMA CommitDoneShapes ==
    ASSUME Shapes, NEW d \in Dbs, CommitDone(d)
    PROVE  Shapes'
<1>1. /\ promised' = [t \in Tables |-> Over(promised[t], mine[d][t])]
      /\ EndTransaction(d)
      /\ UNCHANGED <<driver, under, pending, dropper, work, commits, lapses>>
  BY Zenon DEF CommitDone
<1>2. \A t \in Tables : Over(promised[t], mine[d][t]) \in [Keys -> Rows]
  BY Zenon, OverType DEF Shapes
<1>3. promised' \in [Tables -> [Keys -> Rows]]
  BY Zenon, <1>1, <1>2
<1> QED
  BY SMTT(30), <1>1, <1>3, EndShapes DEF Shapes

\* The record that a DROP TABLE leaves: another Database's overlay is poisoned, anything
\* else is cleared.
LEMMA PoisonedFormed ==
    ASSUME NEW r, NEW n \in Nat, NEW max \in Nat, n <= max, Formed(r, n, max), NEW other \in BOOLEAN
    PROVE  Formed(IF other /\ r.created THEN [r EXCEPT !.poison = TRUE] ELSE Cleared(r), n, max)
<1>1. CASE other /\ r.created
  <2>1. Formed([r EXCEPT !.poison = TRUE], n, max)
    BY ZenonT(30), <1>1 DEF Formed, TableStates
  <2> QED
    BY <1>1, <2>1
<1>2. CASE ~(other /\ r.created)
  <2>1. Formed(Cleared(r), n, max)
    BY ClearedFormed
  <2> QED
    BY Zenon, <1>2, <2>1
<1> QED
  BY <1>1, <1>2

\* DROP TABLE preserves the type.
LEMMA DropShapes ==
    ASSUME Shapes, NEW d \in Dbs, NEW t \in Tables, DropTable(d, t)
    PROVE  Shapes'
<1> DEFINE Left(e) == IF e # d /\ tab[e][t].created THEN [tab[e][t] EXCEPT !.poison = TRUE] ELSE Cleared(tab[e][t])
           history == [i \in DOMAIN saved[d] |-> [saved[d][i] EXCEPT ![t] = Blank]]
<1>0. /\ dropper' = [dropper EXCEPT ![t] = d]
      /\ under' = [under EXCEPT ![t] = Blank] /\ pending' = [pending EXCEPT ![t] = Blank]
      /\ promised' = [promised EXCEPT ![t] = Blank]
      /\ mine' = [mine EXCEPT ![d][t] = Blank]
      /\ UNCHANGED <<driver, depth, phase, todo, applied, work, commits, lapses>>
  BY DEF DropTable, flush
<1>1. /\ tab' = [e \in Dbs |-> [tab[e] EXCEPT ![t] = Left(e)]]
      /\ saved' = [saved EXCEPT ![d] = history]
  BY DEF DropTable, Shapes
<1>2. ASSUME NEW e \in Dbs PROVE Formed(Left(e), depth[e], driver.maxDepth)
  BY Zenon, TabType, PoisonedFormed
<1>3. /\ saved[d] \in Seq([Tables -> Overlays]) /\ Len(saved[d]) \in Nat
      /\ DOMAIN saved[d] = 1..Len(saved[d]) /\ Len(saved[d]) = depth[d]
  BY DEF Shapes
<1>4. \A i \in 1..Len(saved[d]) : [saved[d][i] EXCEPT ![t] = Blank] \in [Tables -> Overlays]
  BY <1>3, BlankType
<1>5. history \in Seq([Tables -> Overlays]) /\ Len(history) = depth[d]
  <2>1. history = [i \in 1..Len(saved[d]) |-> history[i]] /\ \A i \in 1..Len(saved[d]) : history[i] \in [Tables -> Overlays]
    BY <1>3, <1>4
  <2> DEFINE n == Len(saved[d])
             S == [Tables -> Overlays]
  <2>2. history \in [1..n -> S] /\ n \in Nat /\ n = depth[d]
    BY Zenon, <1>3, <2>1
  <2> HIDE DEF history, n, S
  <2>3. history \in Seq(S) /\ Len(history) = n
    BY <2>2
  <2> QED
    BY Zenon, <2>2, <2>3 DEF S
<1> HIDE DEF Left, history
<1>6. \A e \in Dbs : Left(e) \in TableStates
  BY Zenon, <1>2 DEF Formed
<1>7. tab' \in [Dbs -> [Tables -> TableStates]]
  BY Zenon, <1>1, <1>6 DEF Shapes
<1>8. ASSUME NEW e \in Dbs, NEW s \in Tables PROVE Formed(tab'[e][s], depth'[e], driver'.maxDepth)
  <2>1. CASE s = t
    <3>1. tab'[e][s] = Left(e)
      BY Zenon, <1>1, <2>1 DEF Shapes
    <3> QED
      BY Zenon, <1>0, <1>2, <3>1
  <2>2. CASE s # t
    <3>1. tab'[e][s] = tab[e][s]
      BY Zenon, <1>1, <2>2 DEF Shapes
    <3> QED
      BY Zenon, <1>0, <3>1, TabType
  <2> QED
    BY Zenon, <2>1, <2>2
<1>9. saved' \in [Dbs -> Seq([Tables -> Overlays])] /\ \A e \in Dbs : Len(saved'[e]) = depth'[e]
  BY Zenon, <1>0, <1>1, <1>5 DEF Shapes
<1>10. Blank \in [Keys -> Rows] /\ Blank \in Overlays
  BY Zenon, BlankType DEF Blank, Rows
<1>11. /\ under' \in [Tables -> [Keys -> Rows]] /\ promised' \in [Tables -> [Keys -> Rows]]
       /\ pending' \in [Tables -> Overlays]
       /\ dropper' \in [Tables -> Dbs \cup {Nobody}]
  BY Zenon, <1>0, <1>10 DEF Shapes
<1>12. mine' \in [Dbs -> [Tables -> Overlays]]
  BY SMTT(30), <1>0, <1>10 DEF Shapes
<1> QED
  BY Zenon, <1>0, <1>7, <1>8, <1>9, <1>11, <1>12 DEF Shapes

\* The first state has the type.
LEMMA InitShapes ==
    ASSUME Init
    PROVE  Shapes
<1>0. driver.maxDepth \in Nat /\ driver.maxWork \in Nat /\ driver.maxCommits \in Nat
  BY Zenon, ConstantsAssumption DEF Init
<1>1. Formed(NoOverlay, 0, driver.maxDepth)
  BY Zenon, NoOverlayFields DEF Formed
<1>2. tab \in [Dbs -> [Tables -> TableStates]] /\ \A d \in Dbs, t \in Tables : tab[d][t] = NoOverlay
  BY ZenonT(30), NoOverlayFields DEF Init
<1>3. \A d \in Dbs, t \in Tables : Formed(tab[d][t], depth[d], driver.maxDepth)
  BY SMTT(30), <1>1, <1>2 DEF Init
<1>4. mine \in [Dbs -> [Tables -> Overlays]] /\ pending \in [Tables -> Overlays]
  BY SMTT(30), BlankType DEF Init
<1>5. saved \in [Dbs -> Seq([Tables -> Overlays])] /\ \A d \in Dbs : Len(saved[d]) = depth[d]
  <2>1. <<>> \in Seq([Tables -> Overlays]) /\ Len(<<>>) = 0
    OBVIOUS
  <2> QED
    BY <2>1 DEF Init
<1>6. depth \in [Dbs -> 0..driver.maxDepth] /\ work \in [Dbs -> 0..driver.maxWork] /\ commits \in 0..driver.maxCommits
  BY <1>0 DEF Init
<1>7. /\ phase \in [Dbs -> {"body", "apply", "commit"}]
      /\ todo \in [Dbs -> SUBSET Tables] /\ applied \in [Dbs -> SUBSET Tables]
      /\ dropper \in [Tables -> Dbs \cup {Nobody}]
  BY Zenon DEF Init
<1>8. /\ driver \in Drivers /\ lapses \subseteq Lapses
      /\ under \in [Tables -> [Keys -> Rows]] /\ promised \in [Tables -> [Keys -> Rows]]
  BY DEF Init
<1> QED
  BY Zenon, <1>2, <1>3, <1>4, <1>5, <1>6, <1>7, <1>8 DEF Shapes

\* Every step preserves the type.
LEMMA NextShapes ==
    ASSUME Shapes, [Next]_vars
    PROVE  Shapes'
<1>1. CASE Next
  BY SMTT(30), <1>1, InsertShapes, UpdateShapes, DeleteShapes, DropShapes, SavepointShapes, ReleaseShapes,
     RollbackToShapes, RollbackShapes, CommitShapes, ApplyShapes, FailsShapes, CommitUnderlyingShapes,
     CommitDoneShapes DEF Next
<1>2. CASE UNCHANGED vars
  BY Zenon, <1>2 DEF vars, flush, ghosts, Shapes, Formed
<1> QED
  BY Zenon, <1>1, <1>2

\* The type of the state is an invariant.
LEMMA ShapesInvariant == Spec => []Shapes
<1>1. Init => Shapes
  BY InitShapes
<1>2. Shapes /\ [Next]_vars => Shapes'
  BY NextShapes
<1> QED
  BY <1>1, <1>2, PTL DEF Spec

\* The overlay of every table has a savepoint for each one the engine has open, and none
\* outlives its overlay (TypeOK).
THEOREM TypeCorrect == Spec => []TypeOK
<1>1. Shapes => TypeOK
  BY Zenon DEF Shapes, TypeOK, Formed, TableStates, Overlays, Lapses
<1> QED
  BY <1>1, ShapesInvariant, PTL

-----------------------------------------------------------------------------
\* What a transaction reads, and what its flush has moved.

\* Table record r against what SQL says the transaction wrote: m now, h[i] at savepoint i
\* of the n open ones.  The depths recorded as older than the overlay are the outermost
\* ones, and nothing was written by then.  A dropped table that has no overlay can get none
\* any more, so its depths no longer matter.
Tracks(r, m, h, n, dropped) ==
    /\ r.overlay = m
    /\ \A i \in 1..n : h[i] = IF r.created THEN r.stack[i] ELSE Blank
    /\ ~r.registered => r.pre = {}
    /\ ~dropped \/ r.created =>
        \A j \in r.pre : j < n /\ h[j + 1] = Blank /\ \A i \in 0..j : i \in r.pre
    /\ ~dropped /\ r.registered /\ ~r.created => \A i \in 0..(n - 1) : i \in r.pre

\* What table t held at each savepoint of a list of them.
Column(s, t) == [i \in 1..Len(s) |-> s[i][t]]

\* Every overlay, with its savepoints, is what SQL says the transaction wrote.
Tracked(d, t) == Tracks(tab[d][t], mine[d][t], Column(saved[d], t), depth[d], dropper[t] # Nobody)
Clean == lapses \cap {"slipped", "crowded", "leftover"} = {}
Own ==
    Clean =>
        \A d \in Dbs, t \in Tables : Tracked(d, t)

\* The tables of d's flush whose underlying transaction has committed.
Landed(d) ==
    CASE phase[d] = "commit" /\ driver.shared /\ todo[d] # applied[d] -> applied[d]
      [] phase[d] = "commit" /\ ~driver.shared -> applied[d] \ todo[d]
      [] OTHER -> {}
HasOverlay(d) == {t \in Tables : tab[d][t].created}

\* How far d's flush has come.
Progress(d) ==
    /\ phase[d] = "apply" => applied[d] = HasOverlay(d) \ todo[d] /\ todo[d] # {} /\ todo[d] \subseteq HasOverlay(d)
    /\ phase[d] = "commit" => applied[d] = HasOverlay(d) /\ todo[d] \subseteq applied[d]
    /\ phase[d] = "body" => applied[d] = {} /\ todo[d] = {}
    /\ phase[d] # "body" => ~Refused(d)

\* Between flushes the underlying tables hold what was promised, and nothing else.
Calm == under = promised /\ pending = [t \in Tables |-> Blank]

\* During d's flush they hold that, and what the flush has moved.
Moved(d) ==
    \A t \in Tables :
        /\ under[t] = IF t \in Landed(d) THEN Over(promised[t], tab[d][t].overlay) ELSE promised[t]
        /\ pending[t] = IF t \in applied[d] \ Landed(d) THEN tab[d][t].overlay ELSE Blank

\* One flush at a time, and what of it has reached the underlying tables.
Whole ==
    /\ \A d \in Dbs : Progress(d)
    /\ lapses = {} =>
        /\ \A d, e \in Dbs : phase[d] # "body" /\ phase[e] # "body" => d = e
        /\ (\A d \in Dbs : phase[d] = "body") => Calm
        /\ \A d \in Dbs : phase[d] # "body" => Moved(d)
-----------------------------------------------------------------------------
(* Savepoints of one table, against what SQL says the transaction wrote. *)

\* A savepoint records what has been written so far (onConnectionSavepoint).
LEMMA TracksSavepoint ==
    ASSUME NEW r, NEW m, NEW h, NEW n \in Nat, NEW max \in Nat, NEW dropped \in BOOLEAN,
           Formed(r, n, max), Tracks(r, m, h, n, dropped),
           NEW g, \A i \in 1..n : g[i] = h[i], g[n + 1] = m
    PROVE  Tracks(OnSavepoint(r, n), m, g, n + 1, dropped)
<1>0. r \in TableStates /\ r.stack \in Seq(Overlays) /\ r.overlay \in Overlays /\ r.pre \subseteq Nat
  BY DEF Formed, TableStates
<1>1. CASE r.created
  <2> DEFINE q == OnSavepoint(r, n)
  <2>1. q = [r EXCEPT !.stack = Append(@, r.overlay)]
    BY <1>1 DEF OnSavepoint
  <2>2. /\ q.overlay = r.overlay /\ q.created /\ q.pre = r.pre /\ q.registered = r.registered
        /\ q.stack = Append(r.stack, r.overlay)
    BY <1>0, <1>1, <2>1 DEF TableStates
  <2>3. Len(r.stack) = n
    BY <1>1 DEF Formed
  <2>4. /\ \A i \in 1..n : q.stack[i] = r.stack[i]
        /\ q.stack[n + 1] = r.overlay
    BY <1>0, <2>2, <2>3
  <2>5. \A i \in 1..(n + 1) : g[i] = q.stack[i]
    BY <1>1, <2>4 DEF Tracks
  <2>6. \A j \in r.pre : j < n /\ h[j + 1] = Blank /\ \A i \in 0..j : i \in r.pre
    BY <1>1 DEF Tracks
  <2>7. \A j \in r.pre : j < n + 1 /\ g[j + 1] = Blank /\ \A i \in 0..j : i \in r.pre
    BY <1>0, <2>6
  <2> HIDE DEF q
  <2>8. Tracks(q, m, g, n + 1, dropped)
    BY Zenon, <1>1, <2>2, <2>5, <2>7 DEF Tracks
  <2> QED
    BY <2>8 DEF q
<1>2. CASE ~r.created /\ r.registered
  <2> DEFINE q == OnSavepoint(r, n)
  <2>1. q = [r EXCEPT !.pre = @ \cup {n}]
    BY <1>2 DEF OnSavepoint
  <2>2. /\ q.overlay = r.overlay /\ ~q.created /\ q.pre = r.pre \cup {n} /\ q.registered
    BY <1>0, <1>2, <2>1 DEF TableStates
  <2>3. r.overlay = Blank
    BY <1>2 DEF Formed
  <2>4. \A i \in 1..(n + 1) : g[i] = Blank
    BY <1>2, <2>3 DEF Tracks
  <2>5. ~dropped => \A i \in 0..n : i \in q.pre
    BY <1>2, <2>2 DEF Tracks
  <2>6. ~dropped => \A j \in q.pre : j \in 0..n
    BY <1>0, <1>2, <2>2 DEF Tracks
  <2>7. ~dropped => \A j \in q.pre : j < n + 1 /\ g[j + 1] = Blank /\ \A i \in 0..j : i \in q.pre
    BY <2>4, <2>5, <2>6
  <2> HIDE DEF q
  <2>8. Tracks(q, m, g, n + 1, dropped)
    BY <1>2, <2>2, <2>4, <2>5, <2>7 DEF Tracks
  <2> QED
    BY <2>8 DEF q
<1>3. CASE ~r.created /\ ~r.registered
  <2>1. OnSavepoint(r, n) = r
    BY <1>3 DEF OnSavepoint
  <2>2. r.overlay = Blank
    BY <1>3 DEF Formed
  <2>3. \A i \in 1..(n + 1) : g[i] = Blank
    BY <1>3, <2>2 DEF Tracks
  <2> QED
    BY <1>3, <2>1, <2>3 DEF Tracks
<1> QED
  BY <1>1, <1>2, <1>3

\* RELEASE of savepoint i forgets the ones from i on, unless one of them is left recorded
\* as older than the overlay.
LEMMA TracksRelease ==
    ASSUME NEW r, NEW m, NEW h, NEW n \in Nat, NEW max \in Nat, NEW dropped \in BOOLEAN,
           Formed(r, n, max), Tracks(r, m, h, n, dropped), NEW i \in 0..(n - 1),
           ~dropped \/ r.created => \A j \in r.pre \ {i} : j < i,
           NEW g, \A x \in 1..i : g[x] = h[x]
    PROVE  Tracks(OnRelease(r, i), m, g, i, dropped)
<1> DEFINE q == OnRelease(r, i)
<1>0. r \in TableStates /\ r.stack \in Seq(Overlays)
  BY DEF Formed, TableStates
<1>1. /\ q.overlay = r.overlay /\ q.created = r.created /\ q.pre = r.pre \ {i} /\ q.registered = r.registered
      /\ r.created => q.stack = SubSeq(r.stack, 1, i)
  BY <1>0 DEF OnRelease, TableStates
<1>2. r.pre \subseteq Nat
  BY <1>0 DEF TableStates
<1>3. \A x \in 1..i : g[x] = IF q.created THEN q.stack[x] ELSE Blank
  <2>1. CASE r.created
    <3>1. Len(r.stack) = n
      BY <2>1 DEF Formed
    <3>2. \A x \in 1..i : SubSeq(r.stack, 1, i)[x] = r.stack[x]
      BY <1>0, <3>1
    <3> QED
      BY <1>1, <2>1, <3>2 DEF Tracks
  <2>2. CASE ~r.created
    BY <1>1, <2>2 DEF Tracks
  <2> QED
    BY <2>1, <2>2
<1> HIDE DEF q
<1>4. ~dropped \/ q.created => \A j \in q.pre : j < i /\ g[j + 1] = Blank /\ \A x \in 0..j : x \in q.pre
  <2> SUFFICES ASSUME ~dropped \/ q.created, NEW j \in q.pre
               PROVE  j < i /\ g[j + 1] = Blank /\ \A x \in 0..j : x \in q.pre
    OBVIOUS
  <2>1. j \in r.pre /\ j \in Nat /\ j < i /\ j + 1 \in 1..i
    BY <1>1, <1>2
  <2>2. h[j + 1] = Blank /\ \A x \in 0..j : x \in r.pre
    BY <1>1, <2>1 DEF Tracks
  <2>3. \A x \in 0..j : x # i
    BY <2>1
  <2> QED
    BY <1>1, <2>1, <2>2, <2>3
<1>5. ~dropped /\ q.registered /\ ~q.created => \A x \in 0..(i - 1) : x \in q.pre
  BY <1>1 DEF Tracks
<1>6. Tracks(q, m, g, i, dropped)
  BY <1>1, <1>3, <1>4, <1>5 DEF Tracks
<1> QED
  BY <1>6 DEF q

\* ROLLBACK TO savepoint i brings back what was written by then (onConnectionRollbackToSavepoint).
LEMMA TracksRollback ==
    ASSUME NEW r, NEW m, NEW h, NEW n \in Nat, NEW max \in Nat, NEW dropped \in BOOLEAN,
           Formed(r, n, max), Tracks(r, m, h, n, dropped), NEW i \in 0..(n - 1),
           NEW g, \A x \in 1..(i + 1) : g[x] = h[x]
    PROVE  Tracks(OnRollbackTo(r, i), h[i + 1], g, i + 1, dropped)
<1> DEFINE q == OnRollbackTo(r, i)
<1>0. r \in TableStates /\ r.stack \in Seq(Overlays) /\ r.pre \subseteq Nat
  BY DEF Formed, TableStates
<1>1. CASE i \in r.pre
  <2> DEFINE p == {j \in r.pre : j <= i}
  <2>0. p \in SUBSET (0..max)
    BY SMTT(30) DEF Formed
  <2>1. ~q.created /\ q.overlay = Blank /\ q.pre = p /\ q.registered
    <3>1. q = [NoOverlay EXCEPT !.registered = TRUE, !.pre = p]
      BY <1>1 DEF OnRollbackTo
    <3> HIDE DEF p, q
    <3> QED
      BY Zenon, <2>0, <3>1, BareFormed
  <2>2. \A x \in 1..(i + 1) : h[x] = Blank
    <3>1. CASE ~dropped \/ r.created
      <4>1. \A y \in 0..i : y \in r.pre
        BY <1>1, <3>1 DEF Tracks
      <4>2. \A y \in 0..i : h[y + 1] = Blank
        BY Zenon, <3>1, <4>1 DEF Tracks
      <4>3. \A x \in 1..(i + 1) : x - 1 \in 0..i /\ (x - 1) + 1 = x
        OBVIOUS
      <4> QED
        BY <4>2, <4>3
    <3>2. CASE dropped /\ ~r.created
      BY <3>2 DEF Tracks
    <3> QED
      BY <3>1, <3>2
  <2>3. ~dropped => \A y \in 0..i : y \in p
    BY <1>1 DEF Tracks
  <2>4. i + 1 \in 1..(i + 1) /\ \A j \in p : j < i + 1 /\ j + 1 \in 1..(i + 1)
    BY <1>0
  <2>5. \A j \in p : g[j + 1] = Blank
    BY <2>2, <2>4
  <2>6. ~dropped => \A j \in p : \A x \in 0..j : x \in p
    BY <1>0, <2>3
  <2>7. h[i + 1] = Blank /\ (i + 1) - 1 = i
    BY <2>2, <2>4
  <2> HIDE DEF q, p
  <2>8. Tracks(q, h[i + 1], g, i + 1, dropped)
    BY Zenon, <2>1, <2>2, <2>3, <2>4, <2>5, <2>6, <2>7 DEF Tracks
  <2> QED
    BY <2>8 DEF q
<1>2. CASE i \notin r.pre /\ r.created
  <2>1. q = [r EXCEPT !.overlay = r.stack[i + 1], !.stack = SubSeq(@, 1, i + 1)]
    BY <1>2 DEF OnRollbackTo
  <2>2. /\ q.overlay = r.stack[i + 1] /\ q.created /\ q.pre = r.pre /\ q.registered = r.registered
        /\ q.stack = SubSeq(r.stack, 1, i + 1)
    BY <1>0, <1>2, <2>1 DEF TableStates
  <2>3. Len(r.stack) = n
    BY <1>2 DEF Formed
  <2>4. \A x \in 1..(i + 1) : q.stack[x] = r.stack[x]
    BY <1>0, <2>2, <2>3
  <2>5. \A x \in 1..(i + 1) : h[x] = r.stack[x]
    BY <1>2 DEF Tracks
  <2>6. \A j \in r.pre : j < i /\ h[j + 1] = Blank /\ \A x \in 0..j : x \in r.pre
    BY <1>0, <1>2 DEF Tracks
  <2> HIDE DEF q
  <2>7. Tracks(q, h[i + 1], g, i + 1, dropped)
    BY <1>0, <1>2, <2>2, <2>4, <2>5, <2>6 DEF Tracks
  <2> QED
    BY <2>7 DEF q
<1>3. CASE i \notin r.pre /\ ~r.created
  <2>1. q = r
    BY <1>3 DEF OnRollbackTo
  <2>2. r.overlay = Blank
    BY <1>3 DEF Formed
  <2>3. ~dropped => ~r.registered /\ r.pre = {}
    BY <1>3 DEF Tracks
  <2> HIDE DEF q
  <2>4. Tracks(q, h[i + 1], g, i + 1, dropped)
    BY <1>3, <2>1, <2>2, <2>3 DEF Tracks
  <2> QED
    BY <2>4 DEF q
<1> QED
  BY <1>1, <1>2, <1>3

\* A new connection and a new overlay take the open savepoints over (ensureConnection,
\* ensureOverlay).
LEMMA TracksEnsure ==
    ASSUME NEW r, NEW m, NEW h, NEW n \in Nat, NEW max \in Nat, Formed(r, n, max),
           Tracks(r, m, h, n, FALSE)
    PROVE  Tracks(EnsureOverlay(EnsureConnection(r, n), n), m, h, n, FALSE)
<1> DEFINE c == EnsureConnection(r, n)
           q == EnsureOverlay(c, n)
<1>0. r \in TableStates /\ r.stack \in Seq(Overlays) /\ r.pre \subseteq Nat
  BY DEF Formed, TableStates
<1>1. CASE r.created
  <2>1. r.registered
    BY <1>1 DEF Formed
  <2>2. c = r
    BY <2>1 DEF EnsureConnection
  <2>3. q = r
    BY Zenon, <1>1, <2>2 DEF EnsureOverlay
  <2> QED
    BY Zenon, <2>3
<1>2. CASE ~r.created
  <2>1. /\ c \in TableStates /\ ~c.created /\ c.registered /\ c.overlay = r.overlay
        /\ c.pre = IF r.registered THEN r.pre ELSE 0..(n - 1)
    <3>1. 0..(n - 1) \in SUBSET Nat
      OBVIOUS
    <3>2. CASE r.registered
      BY <1>0, <1>2, <3>2 DEF EnsureConnection
    <3>3. CASE ~r.registered
      <4>1. c = [r EXCEPT !.registered = TRUE, !.pre = 0..(n - 1)]
        BY <3>3 DEF EnsureConnection
      <4> QED
        BY Zenon, <1>0, <1>2, <3>1, <3>3, <4>1 DEF TableStates
    <3> QED
      BY <3>2, <3>3
  <2> HIDE DEF c
  <2>2. q = [c EXCEPT !.created = TRUE, !.stack = [i \in 1..n |-> Blank]]
    BY <2>1 DEF EnsureOverlay
  <2>3. /\ q.created /\ q.registered /\ q.overlay = r.overlay /\ q.pre = c.pre
        /\ q.stack = [i \in 1..n |-> Blank]
    BY <2>1, <2>2 DEF TableStates
  <2> HIDE DEF q
  <2>4. \A i \in 1..n : h[i] = Blank
    BY <1>2 DEF Tracks
  <2>5. r.registered => \A j \in c.pre : j < n /\ h[j + 1] = Blank /\ \A i \in 0..j : i \in c.pre
    BY <1>2, <2>1 DEF Tracks
  <2>6. ~r.registered => \A j \in c.pre : j < n /\ h[j + 1] = Blank /\ \A i \in 0..j : i \in c.pre
    BY <2>1, <2>4
  <2> QED
    BY Zenon, <2>3, <2>4, <2>5, <2>6 DEF Tracks, q, c
<1> QED
  BY Zenon, <1>1, <1>2

\* A write changes the overlay and leaves its savepoints alone.
LEMMA TracksWrite ==
    ASSUME NEW r \in TableStates, NEW m, NEW h, NEW n, NEW o, r.created, Tracks(r, m, h, n, FALSE)
    PROVE  Tracks([r EXCEPT !.overlay = o], o, h, n, FALSE)
<1> DEFINE q == [r EXCEPT !.overlay = o]
<1>1. /\ q.overlay = o /\ q.created = r.created /\ q.stack = r.stack /\ q.pre = r.pre
      /\ q.registered = r.registered
  BY Zenon DEF TableStates
<1> HIDE DEF q
<1>2. Tracks(q, o, h, n, FALSE)
  BY <1>1 DEF Tracks
<1> QED
  BY Zenon, <1>2 DEF q

\* A cleared record, of a table that is gone or outside a transaction.
LEMMA TracksCleared ==
    ASSUME NEW r, NEW h, NEW n \in Nat, NEW max \in Nat, NEW k \in Nat, NEW dropped \in BOOLEAN,
           Formed(r, k, max), dropped \/ n = 0, \A i \in 1..n : h[i] = Blank
    PROVE  Tracks(Cleared(r), Blank, h, n, dropped)
<1> DEFINE q == Cleared(r)
<1>1. ~q.created /\ q.overlay = Blank /\ q.pre = {}
  BY ClearedFormed
<1> HIDE DEF q
<1>2. n = 0 => 0..(n - 1) = {}
  OBVIOUS
<1>3. Tracks(q, Blank, h, n, dropped)
  BY <1>1, <1>2 DEF Tracks
<1> QED
  BY <1>3 DEF q

\* A statement leaves its savepoint as it found it, and a statement that failed leaves
\* what was written before it (runWithStatementSavepoints).
LEMMA TracksSettled ==
    ASSUME NEW x, NEW m, NEW g, NEW h, NEW n \in Nat, NEW max \in Nat, NEW dropped \in BOOLEAN, NEW r,
           Formed(x, n + 1, max), Tracks(x, m, g, n + 1, dropped), \A i \in 1..n : h[i] = g[i]
    PROVE  Tracks(Settled(x, n, r), IF r.outcome = "constraint" THEN g[n + 1] ELSE m, h, n, dropped)
<1>0. n \in 0..((n + 1) - 1) /\ n + 1 \in Nat
  OBVIOUS
<1>1. ASSUME NEW y, NEW w, Formed(y, n + 1, max), Tracks(y, w, g, n + 1, dropped)
      PROVE  Tracks(OnRelease(y, n), w, h, n, dropped)
  <2>1. y.pre \subseteq Nat
    BY <1>1 DEF Formed, TableStates
  <2>2. ~dropped \/ y.created => \A j \in y.pre \ {n} : j < n
    BY <1>1, <2>1 DEF Tracks
  <2> QED
    BY Zenon, <1>0, <1>1, <2>2, TracksRelease
<1>2. CASE r.outcome = "constraint"
  <2>1. \A i \in 1..(n + 1) : g[i] = g[i]
    OBVIOUS
  <2>2. Tracks(OnRollbackTo(x, n), g[n + 1], g, n + 1, dropped)
    BY <1>0, <2>1, TracksRollback
  <2>3. Formed(OnRollbackTo(x, n), n + 1, max)
    BY Zenon, <1>0, OnRollbackToFormed
  <2> QED
    BY Zenon, <1>1, <1>2, <2>2, <2>3 DEF Settled
<1>3. CASE r.outcome # "constraint"
  BY Zenon, <1>1, <1>3 DEF Settled
<1> QED
  BY <1>2, <1>3
-----------------------------------------------------------------------------
(* Every overlay is what SQL says the transaction wrote. *)

\* What a table held at a savepoint.
LEMMA ColumnAt ==
    ASSUME Shapes, NEW d \in Dbs, NEW t \in Tables, NEW i \in 1..depth[d]
    PROVE  Column(saved[d], t)[i] = saved[d][i][t]
BY Zenon DEF Column, Shapes

\* The record of any table during and after a statement of Database d that writes table t.
LEMMA StatementTracks ==
    ASSUME Shapes, NEW d \in Dbs, NEW t \in Tables, NEW r \in Outcomes, NEW s \in Tables,
           dropper[t] = Nobody, Tracked(d, s)
    PROVE  Tracks(Settled(Staged(d, t, r, s), depth[d], r),
                  IF s = t /\ r.outcome # "constraint" THEN r.overlay ELSE mine[d][s],
                  Column(saved[d], s), depth[d], dropper[s] # Nobody)
<1> DEFINE n == depth[d]
           m == mine[d][s]
           h == Column(saved[d], s)
           g == [i \in 1..(n + 1) |-> IF i = n + 1 THEN m ELSE h[i]]
           max == driver.maxDepth
           dropped == dropper[s] # Nobody
           x == OnSavepoint(tab[d][s], n)
           y == Staged(d, t, r, s)
<1>1. n \in Nat /\ max \in Nat /\ n <= max /\ Formed(tab[d][s], n, max)
  BY TabType
<1>2. Tracks(tab[d][s], m, h, n, dropped)
  BY ZenonT(30) DEF Tracked
<1>3. (\A i \in 1..n : g[i] = h[i]) /\ g[n + 1] = m /\ dropped \in BOOLEAN
  BY <1>1
<1>4. Formed(x, n + 1, max) /\ Formed(y, n + 1, max)
  BY ReadyFormed, StagedFormed
<1>5. s = t => y = [Ready(d, t) EXCEPT !.overlay = r.overlay] /\ dropped = FALSE
  BY DEF Staged
<1>6. s # t => y = x
  BY Zenon DEF Staged
<1>7. s = t => Ready(d, t) = EnsureOverlay(EnsureConnection(x, n + 1), n + 1)
  BY Zenon, ReadyFormed DEF Ready
<1>8. s = t => Formed(Ready(d, t), n + 1, max) /\ Ready(d, t).created
  BY Zenon, ReadyFormed
<1> HIDE DEF n, m, h, g, max, dropped, x, y
<1>9. Tracks(x, m, g, n + 1, dropped)
  BY Zenon, <1>1, <1>2, <1>3, TracksSavepoint DEF x
<1>10. \A i \in 1..n : h[i] = g[i]
  BY Zenon, <1>3
<1>11. CASE s # t
  <2>1. Tracks(Settled(y, n, r), IF r.outcome = "constraint" THEN g[n + 1] ELSE m, h, n, dropped)
    BY ZenonT(30), <1>1, <1>3, <1>4, <1>6, <1>9, <1>10, <1>11, TracksSettled
  <2>2. (IF r.outcome = "constraint" THEN g[n + 1] ELSE m) = m
    BY Zenon, <1>3
  <2> QED
    BY Zenon, <1>11, <2>1, <2>2 DEF n, m, h, dropped, y
<1>12. CASE s = t
  <2> DEFINE z == Ready(d, t)
  <2>1. dropped = FALSE /\ n + 1 \in Nat
    BY <1>1, <1>5, <1>12
  <2>2. Tracks(z, m, g, n + 1, FALSE)
    BY Zenon, <1>1, <1>4, <1>7, <1>9, <1>12, <2>1, TracksEnsure
  <2>3. z \in TableStates /\ z.created
    BY <1>8, <1>12 DEF Formed
  <2>4. y = [z EXCEPT !.overlay = r.overlay]
    BY <1>5, <1>12
  <2> HIDE DEF z
  <2>5. Tracks(y, r.overlay, g, n + 1, FALSE)
    BY Zenon, <2>2, <2>3, <2>4, TracksWrite
  <2>6. Tracks(Settled(y, n, r), IF r.outcome = "constraint" THEN g[n + 1] ELSE r.overlay, h, n, dropped)
    BY Zenon, <1>1, <1>4, <1>10, <2>1, <2>5, TracksSettled
  <2>7. (IF r.outcome = "constraint" THEN g[n + 1] ELSE r.overlay) = IF s = t /\ r.outcome # "constraint" THEN r.overlay ELSE m
    BY <1>3, <1>12
  <2> QED
    BY <2>6, <2>7 DEF n, m, h, dropped, y
<1> QED
  BY ZenonT(30), <1>11, <1>12

\* A statement whose results are what SQL says keeps every overlay what SQL says.
LEMMA StatementOwn ==
    ASSUME Shapes, \A d \in Dbs, s \in Tables : Tracked(d, s),
           NEW d \in Dbs, NEW t \in Tables, NEW results, NEW writes \in Overlays,
           \A r \in results : r \in Outcomes /\ Faithful(r, tab[d][t].overlay, writes),
           Statement(d, t, results, writes)
    PROVE  \A e \in Dbs, s \in Tables : Tracked(e, s)'
<1>1. PICK r \in results :
           tab' = [tab EXCEPT ![d] = [s \in Tables |-> Settled(Staged(d, t, r, s), depth[d], r)]]
  BY StatementTab
<1>2. /\ mine' = [mine EXCEPT ![d][t] = Stack(mine[d][t], writes)]
      /\ depth' = depth /\ saved' = saved /\ dropper' = dropper /\ dropper[t] = Nobody
  BY DEF Statement, Usable, Shapes
<1>3. r \in Outcomes /\ Faithful(r, tab[d][t].overlay, writes)
  BY Zenon
<1>4. tab[d][t].overlay = mine[d][t] /\ mine[d][t] \in Overlays
  BY Zenon, TabType DEF Tracked, Tracks
<1>5. r.outcome = "constraint" => Stack(mine[d][t], writes) = mine[d][t]
  BY Zenon, <1>3, <1>4, Blanks DEF Faithful
<1>6. r.outcome # "constraint" => Stack(mine[d][t], writes) = r.overlay
  BY <1>3, <1>4 DEF Faithful
<1>7. ASSUME NEW e \in Dbs, NEW s \in Tables PROVE Tracked(e, s)'
  <2>1. CASE e = d
    <3>1. tab'[e][s] = Settled(Staged(d, t, r, s), depth[d], r)
      BY Zenon, <1>1, <2>1 DEF Shapes
    <3>2. mine'[e][s] = IF s = t /\ r.outcome # "constraint" THEN r.overlay ELSE mine[d][s]
      BY Zenon, <1>2, <1>5, <1>6, <2>1 DEF Shapes
    <3>3. Tracks(Settled(Staged(d, t, r, s), depth[d], r),
                  IF s = t /\ r.outcome # "constraint" THEN r.overlay ELSE mine[d][s],
                  Column(saved[d], s), depth[d], dropper[s] # Nobody)
      BY Zenon, <1>2, <1>3, StatementTracks
    <3> QED
      BY Zenon, <1>2, <2>1, <3>1, <3>2, <3>3 DEF Tracked
  <2>2. CASE e # d
    <3>1. tab'[e][s] = tab[e][s] /\ mine'[e][s] = mine[e][s]
      BY Zenon, <1>1, <1>2, <2>2 DEF Shapes
    <3> QED
      BY Zenon, <1>2, <3>1 DEF Tracked
  <2> QED
    BY Zenon, <2>1, <2>2
<1> QED
  BY <1>7

\* What a statement sees is what it should see.
LEMMA SeesOwn ==
    ASSUME Shapes, NEW d \in Dbs, NEW t \in Tables, Tracked(d, t)
    PROVE  /\ tab[d][t].overlay = mine[d][t] /\ Ready(d, t).overlay = tab[d][t].overlay
           /\ View(d, t) = Expected(d, t)
           /\ Expected(d, t) = Over(Underlying(t), tab[d][t].overlay)
BY Zenon, ReadyFormed DEF Tracked, Tracks, View, Expected

\* INSERT keeps the overlays what SQL says.
LEMMA InsertOwn ==
    ASSUME Shapes, Own, NEW d \in Dbs, NEW t \in Tables, Insert(d, t)
    PROVE  Own'
<1> SUFFICES ASSUME Clean' PROVE \A e \in Dbs, s \in Tables : Tracked(e, s)'
  BY Zenon DEF Own, Clean
<1> DEFINE o == tab[d][t].overlay
           u == Underlying(t)
           none == {}
<1>0. o \in Overlays /\ u \in [Keys -> Rows]
  BY Zenon, TabType
<1>1. PICK k \in driver.keys, v \in Values, or \in Actions \cup {"none"} :
        LET pk == IF or = "none" THEN driver.pk ELSE or
            uc == IF or = "none" THEN driver.uc ELSE or
        IN /\ Statement(d, t, InsertRow(Ready(d, t).overlay, u, k, v, pk, uc),
                        SqlWrites(Expected(d, t), none, k, v, pk, uc))
           /\ lapses' = lapses \cup LapseIf("crowded", Crowded(d, t, v, uc))
  BY Zenon DEF Insert
<1> DEFINE pk == IF or = "none" THEN driver.pk ELSE or
           uc == IF or = "none" THEN driver.uc ELSE or
           writes == SqlWrites(Over(u, o), none, k, v, pk, uc)
<1>2. pk \in Actions /\ uc \in Actions /\ k \in Keys /\ none \in SUBSET Keys
  BY Zenon, InsertActions, DriverType
<1>3. lapses' = lapses \cup LapseIf("crowded", Crowded(d, t, v, uc))
  BY Zenon, <1>1
<1>4. Clean
  BY <1>3 DEF Clean
<1>5. \A e \in Dbs, s \in Tables : Tracked(e, s)
  BY Zenon, <1>4 DEF Own, Clean
<1>6. View(d, t) = Over(u, o) /\ Expected(d, t) = Over(u, o) /\ Ready(d, t).overlay = o
  BY Zenon, <1>5, SeesOwn
<1>7. Statement(d, t, InsertRow(o, u, k, v, pk, uc), writes)
  BY ZenonT(30), <1>1, <1>6
<1> HIDE DEF pk, uc
<1>8. ~(uc = "replace" /\ Doubled(Over(u, o), v))
  BY <1>3, <1>6 DEF Clean, LapseIf, Crowded, Doubled
<1>9. writes \in Overlays
  BY Zenon, <1>0, <1>2, OverType, SqlCases
<1> HIDE DEF o, u
<1>10. \A r \in InsertRow(o, u, k, v, pk, uc) : r \in Outcomes /\ Faithful(r, o, writes)
  BY Zenon, <1>0, <1>2, <1>8, InsertFaithful
<1> HIDE DEF writes
<1>11. \A r \in InsertRow(o, u, k, v, pk, uc) : r \in Outcomes /\ Faithful(r, tab[d][t].overlay, writes)
  BY Zenon, <1>10 DEF o
<1> QED
  BY Zenon, <1>5, <1>7, <1>9, <1>11, StatementOwn

\* So does UPDATE.
LEMMA UpdateOwn ==
    ASSUME Shapes, Own, NEW d \in Dbs, NEW t \in Tables, Update(d, t)
    PROVE  Own'
<1> SUFFICES ASSUME Clean' PROVE \A e \in Dbs, s \in Tables : Tracked(e, s)'
  BY DEF Own, Clean
<1> DEFINE o == tab[d][t].overlay
           u == Underlying(t)
           pk == driver.pk
           uc == driver.uc
<1>0. o \in Overlays /\ u \in [Keys -> Rows]
  BY TabType
<1>1. PICK j \in driver.keys, k \in driver.keys, v \in Values :
        /\ Statement(d, t, UpdateRow(Ready(d, t).overlay, u, j, k, v, pk, uc),
                     SqlWrites(Expected(d, t), {j}, k, v, pk, uc))
        /\ lapses' = lapses \cup LapseIf("crowded", Crowded(d, t, v, uc))
                    \cup LapseIf("slipped", j # k /\ pk = "ignore" /\ o[k] \in Values)
  BY Zenon DEF Update
<1> DEFINE writes == SqlWrites(Over(u, o), {j}, k, v, pk, uc)
<1>2. pk \in Actions /\ uc \in Actions /\ k \in Keys /\ j \in Keys /\ {j} \in SUBSET Keys
  BY Zenon, DriverType
<1>4. Clean
  BY Zenon, <1>1 DEF Clean
<1>5. \A e \in Dbs, s \in Tables : Tracked(e, s)
  BY Zenon, <1>4 DEF Own, Clean
<1>6. View(d, t) = Over(u, o) /\ Expected(d, t) = Over(u, o) /\ Ready(d, t).overlay = o
  BY Zenon, <1>5, SeesOwn
<1>7. Statement(d, t, UpdateRow(o, u, j, k, v, pk, uc), writes)
  BY ZenonT(30), <1>1, <1>6
<1> HIDE DEF pk, uc
<1>8. ~(uc = "replace" /\ Doubled(Over(u, o), v)) /\ ~(j # k /\ pk = "ignore" /\ o[k] \in Values)
  BY <1>1, <1>6 DEF Clean, LapseIf, Crowded, Doubled
<1>9. writes \in Overlays
  BY Zenon, <1>0, <1>2, OverType, SqlCases
<1> HIDE DEF o, u
<1>10. \A r \in UpdateRow(o, u, j, k, v, pk, uc) : r \in Outcomes /\ Faithful(r, o, writes)
  BY ZenonT(30), <1>0, <1>2, <1>8, UpdateFaithful
<1> HIDE DEF writes
<1>11. \A r \in UpdateRow(o, u, j, k, v, pk, uc) : r \in Outcomes /\ Faithful(r, tab[d][t].overlay, writes)
  BY <1>10 DEF o
<1> QED
  BY Zenon, <1>5, <1>7, <1>9, <1>11, StatementOwn

\* So does DELETE.
LEMMA DeleteOwn ==
    ASSUME Shapes, Own, NEW d \in Dbs, NEW t \in Tables, Delete(d, t)
    PROVE  Own'
<1> SUFFICES ASSUME Clean' PROVE \A e \in Dbs, s \in Tables : Tracked(e, s)'
  BY DEF Own, Clean
<1> DEFINE o == tab[d][t].overlay
<1>0. o \in Overlays
  BY TabType
<1>1. PICK k \in Keys :
        /\ Statement(d, t, DeleteRow(Ready(d, t).overlay, k), [Blank EXCEPT ![k] = Tombstone])
        /\ UNCHANGED lapses
  BY DEF Delete
<1> DEFINE writes == [Blank EXCEPT ![k] = Tombstone]
<1>5. \A e \in Dbs, s \in Tables : Tracked(e, s)
  BY Zenon, <1>1 DEF Own, Clean
<1>6. Ready(d, t).overlay = o
  BY Zenon, <1>5, SeesOwn
<1>7. Statement(d, t, DeleteRow(o, k), writes)
  BY <1>1, <1>6
<1>9. writes \in Overlays
  BY Zenon, Vacated, BlankType
<1> HIDE DEF o
<1>10. \A r \in DeleteRow(o, k) : r \in Outcomes /\ Faithful(r, o, writes)
  BY Zenon, <1>0, DeleteFaithful
<1> HIDE DEF writes
<1>11. \A r \in DeleteRow(o, k) : r \in Outcomes /\ Faithful(r, tab[d][t].overlay, writes)
  BY <1>10 DEF o
<1> QED
  BY Zenon, <1>5, <1>7, <1>9, <1>11, StatementOwn

\* The broadcast of a savepoint keeps the overlays what SQL says.
LEMMA SavepointOwn ==
    ASSUME Shapes, Own, NEW d \in Dbs, Savepoint(d)
    PROVE  Own'
<1> SUFFICES ASSUME Clean', NEW e \in Dbs, NEW s \in Tables PROVE Tracked(e, s)'
  BY ZenonT(30) DEF Own
<1>1. /\ tab' = [tab EXCEPT ![d] = Entered(d)]
      /\ depth' = [depth EXCEPT ![d] = depth[d] + 1]
      /\ saved' = [saved EXCEPT ![d] = Append(saved[d], mine[d])]
      /\ UNCHANGED <<dropper, mine, lapses>>
  BY DEF Savepoint, Broadcast, Elsewhere, Shapes
<1>2. Tracked(e, s)
  BY Zenon, <1>1 DEF Own, Clean
<1>3. CASE e # d
  <2>1. tab'[e] = tab[e] /\ depth'[e] = depth[e] /\ saved'[e] = saved[e]
    BY Zenon, <1>1, <1>3 DEF Shapes
  <2> QED
    BY Zenon, <1>1, <1>2, <2>1 DEF Tracked
<1>4. CASE e = d
  <2> DEFINE n == depth[d]
             m == mine[d][s]
             h == Column(saved[d], s)
             g == Column(Append(saved[d], mine[d]), s)
             dropped == dropper[s] # Nobody
  <2>1. /\ n \in Nat /\ driver.maxDepth \in Nat /\ Formed(tab[d][s], n, driver.maxDepth)
        /\ dropped \in BOOLEAN
    BY Zenon, TabType
  <2>2. saved[d] \in Seq([Tables -> Overlays]) /\ mine[d] \in [Tables -> Overlays] /\ Len(saved[d]) = n
    BY ZenonT(30) DEF Shapes
  <2>3. /\ Len(Append(saved[d], mine[d])) = n + 1
        /\ \A i \in 1..n : Append(saved[d], mine[d])[i] = saved[d][i]
        /\ Append(saved[d], mine[d])[n + 1] = mine[d]
    BY <2>1, <2>2
  <2>4. (\A i \in 1..n : g[i] = h[i]) /\ g[n + 1] = m
    BY <2>1, <2>2, <2>3 DEF Column
  <2>5. Tracks(tab[d][s], m, h, n, dropped)
    BY Zenon, <1>2, <1>4 DEF Tracked
  <2>6. tab'[e][s] = OnSavepoint(tab[d][s], n) /\ depth'[e] = n + 1 /\ saved'[e] = Append(saved[d], mine[d])
    BY Zenon, <1>1, <1>4, ReadyFormed DEF Shapes
  <2> HIDE DEF n, h, g, m, dropped
  <2>7. Tracks(OnSavepoint(tab[d][s], n), m, g, n + 1, dropped)
    BY Zenon, <2>1, <2>4, <2>5, TracksSavepoint
  <2> QED
    BY Zenon, <1>1, <1>4, <2>6, <2>7 DEF Tracked, m, g, dropped
<1> QED
  BY <1>3, <1>4

\* So does RELEASE, unless it leaves a depth recorded that is not open any more.
LEMMA ReleaseOwn ==
    ASSUME Shapes, Own, NEW d \in Dbs, ReleaseSavepoint(d)
    PROVE  Own'
<1> SUFFICES ASSUME Clean', NEW e \in Dbs, NEW s \in Tables PROVE Tracked(e, s)'
  BY DEF Own
<1>1. PICK i \in 0..(depth[d] - 1) :
      /\ tab' = [tab EXCEPT ![d] = [t \in Tables |-> OnRelease(tab[d][t], i)]]
      /\ depth' = [depth EXCEPT ![d] = i]
      /\ saved' = [saved EXCEPT ![d] = SubSeq(saved[d], 1, i)]
      /\ lapses' = lapses \cup LapseIf("leftover", \E t \in Tables : \E j \in tab'[d][t].pre : j >= i)
      /\ UNCHANGED <<dropper, mine>>
  BY Zenon DEF ReleaseSavepoint, Broadcast, Elsewhere, Shapes
<1>2. Tracked(e, s)
  BY Zenon, <1>1 DEF Own, Clean
<1>3. CASE e # d
  <2>1. tab'[e] = tab[e] /\ depth'[e] = depth[e] /\ saved'[e] = saved[e]
    BY Zenon, <1>1, <1>3 DEF Shapes
  <2> QED
    BY Zenon, <1>1, <1>2, <2>1 DEF Tracked
<1>4. CASE e = d
  <2> DEFINE n == depth[d]
             m == mine[d][s]
             r == tab[d][s]
             h == Column(saved[d], s)
             g == Column(SubSeq(saved[d], 1, i), s)
             dropped == dropper[s] # Nobody
  <2>1. /\ n \in Nat /\ driver.maxDepth \in Nat /\ Formed(r, n, driver.maxDepth)
        /\ dropped \in BOOLEAN /\ i \in 0..(n - 1)
    BY Zenon, TabType
  <2>2. saved[d] \in Seq([Tables -> Overlays]) /\ Len(saved[d]) = n
    BY Zenon DEF Shapes
  <2>3. Len(SubSeq(saved[d], 1, i)) = i /\ \A x \in 1..i : SubSeq(saved[d], 1, i)[x] = saved[d][x]
    BY <2>1, <2>2
  <2>4. \A x \in 1..i : g[x] = h[x]
    BY <2>1, <2>2, <2>3 DEF Column
  <2>5. Tracks(r, m, h, n, dropped)
    BY Zenon, <1>2, <1>4 DEF Tracked
  <2>6. tab'[e][s] = OnRelease(r, i) /\ depth'[e] = i /\ saved'[e] = SubSeq(saved[d], 1, i)
    BY Zenon, <1>1, <1>4 DEF Shapes
  <2>7. OnRelease(r, i).pre = r.pre \ {i} /\ r.pre \subseteq Nat
    BY Zenon, <2>1 DEF OnRelease, Formed, TableStates
  <2>8. \A j \in r.pre \ {i} : ~(j >= i)
    <3>1. ~ \E t \in Tables : \E j \in tab'[d][t].pre : j >= i
      BY Zenon, <1>1 DEF Clean, LapseIf
    <3> QED
      BY Zenon, <1>4, <2>6, <2>7, <3>1
  <2>9. \A j \in r.pre \ {i} : j < i
    BY <2>1, <2>7, <2>8
  <2> HIDE DEF n, h, g, m, dropped, r
  <2>10. Tracks(OnRelease(r, i), m, g, i, dropped)
    BY SMTT(30), <2>1, <2>4, <2>5, <2>9, TracksRelease
  <2> QED
    BY Zenon, <1>1, <1>4, <2>6, <2>10 DEF Tracked, m, g, dropped
<1> QED
  BY <1>3, <1>4

\* So does ROLLBACK TO.
LEMMA RollbackToOwn ==
    ASSUME Shapes, Own, NEW d \in Dbs, RollbackToSavepoint(d)
    PROVE  Own'
<1> SUFFICES ASSUME Clean', NEW e \in Dbs, NEW s \in Tables PROVE Tracked(e, s)'
  BY DEF Own
<1>1. PICK i \in 0..(depth[d] - 1) :
      /\ tab' = [tab EXCEPT ![d] = [t \in Tables |-> OnRollbackTo(tab[d][t], i)]]
      /\ depth' = [depth EXCEPT ![d] = i + 1]
      /\ mine' = [mine EXCEPT ![d] = saved[d][i + 1]]
      /\ saved' = [saved EXCEPT ![d] = SubSeq(saved[d], 1, i + 1)]
      /\ UNCHANGED <<dropper, lapses>>
  BY Zenon DEF RollbackToSavepoint, Broadcast, Elsewhere, Shapes
<1>2. Tracked(e, s)
  BY Zenon, <1>1 DEF Own, Clean
<1>3. CASE e # d
  <2>1. tab'[e] = tab[e] /\ depth'[e] = depth[e] /\ saved'[e] = saved[e] /\ mine'[e] = mine[e]
    BY Zenon, <1>1, <1>3 DEF Shapes
  <2> QED
    BY Zenon, <1>1, <1>2, <2>1 DEF Tracked
<1>4. CASE e = d
  <2> DEFINE n == depth[d]
             m == mine[d][s]
             r == tab[d][s]
             h == Column(saved[d], s)
             g == Column(SubSeq(saved[d], 1, i + 1), s)
             dropped == dropper[s] # Nobody
  <2>1. /\ n \in Nat /\ driver.maxDepth \in Nat /\ Formed(r, n, driver.maxDepth)
        /\ dropped \in BOOLEAN /\ i \in 0..(n - 1) /\ i + 1 \in 1..n
    BY TabType
  <2>2. saved[d] \in Seq([Tables -> Overlays]) /\ Len(saved[d]) = n
    BY Zenon DEF Shapes
  <2>3. Len(SubSeq(saved[d], 1, i + 1)) = i + 1 /\ \A x \in 1..(i + 1) : SubSeq(saved[d], 1, i + 1)[x] = saved[d][x]
    <3>1. n \in Nat /\ i \in Nat /\ i + 1 \in 1..n
      BY <2>1
    <3> HIDE DEF n
    <3> QED BY <2>2, <3>1
  <2>4. ASSUME NEW x \in 1..(i + 1) PROVE g[x] = h[x]
    <3>1. i + 1 \in 1..n /\ n \in Nat /\ i \in Nat
      BY <2>1
    <3>2. x \in 1..n
      <4> HIDE DEF n
      <4> QED BY <3>1
    <3> QED BY Zenon, <2>2, <2>3, <3>2 DEF Column
  <2>5. Tracks(r, m, h, n, dropped)
    BY Zenon, <1>2, <1>4 DEF Tracked
  <2>6. tab'[e][s] = OnRollbackTo(r, i) /\ depth'[e] = i + 1 /\ saved'[e] = SubSeq(saved[d], 1, i + 1)
    BY SMTT(30), <1>1, <1>4 DEF Shapes
  <2>7. mine'[e][s] = h[i + 1]
    BY Zenon, <1>1, <1>4, <2>1, ColumnAt DEF Shapes
  <2> HIDE DEF n, h, g, m, dropped, r
  <2>8. Tracks(OnRollbackTo(r, i), h[i + 1], g, i + 1, dropped)
    BY Zenon, <2>1, <2>4, <2>5, TracksRollback
  <2> QED
    BY ZenonT(30), <1>1, <1>4, <2>6, <2>7, <2>8 DEF Tracked, g, dropped
<1> QED
  BY <1>3, <1>4

\* So does the end of a transaction, for every Database.
LEMMA EndOwn ==
    ASSUME Shapes, NEW d \in Dbs, EndTransaction(d), dropper' = dropper,
           \A e \in Dbs, s \in Tables : Tracked(e, s)
    PROVE  \A e \in Dbs, s \in Tables : Tracked(e, s)'
<1> SUFFICES ASSUME NEW e \in Dbs, NEW s \in Tables PROVE Tracked(e, s)'
  BY Zenon
<1>1. CASE e # d
  <2>1. tab'[e] = tab[e] /\ depth'[e] = depth[e] /\ saved'[e] = saved[e] /\ mine'[e] = mine[e]
    BY Zenon, <1>1 DEF EndTransaction, Shapes
  <2> QED
    BY Zenon, <2>1 DEF Tracked
<1>2. CASE e = d
  <2>1. /\ tab'[e][s] = Cleared(tab[d][s]) /\ depth'[e] = 0 /\ saved'[e] = <<>> /\ mine'[e][s] = Blank
    BY Zenon, <1>2 DEF EndTransaction, Shapes
  <2>2. \A i \in 1..0 : Column(<<>>, s)[i] = Blank
    OBVIOUS
  <2>3. (dropper[s] # Nobody) \in BOOLEAN /\ 0 \in Nat
    OBVIOUS
  <2>4. Tracks(Cleared(tab[d][s]), Blank, Column(<<>>, s), 0, dropper[s] # Nobody)
    BY Zenon, <2>2, <2>3, TabType, TracksCleared
  <2> QED
    BY Zenon, <2>1, <2>4 DEF Tracked
<1> QED
  BY <1>1, <1>2

\* A step that leaves the overlays, what SQL says of them and the lapses alone.
LEMMA QuietOwn ==
    ASSUME Own, UNCHANGED <<tab, mine, saved, depth, dropper>>, lapses \subseteq lapses'
    PROVE  Own'
<1>1. ASSUME NEW d \in Dbs, NEW t \in Tables, Tracked(d, t) PROVE Tracked(d, t)'
  BY <1>1 DEF Tracked
<1>2. Clean' => Clean
  BY DEF Clean
<1> QED
  BY Zenon, <1>1, <1>2 DEF Own

\* The flush, and a rollback, keep the overlays what SQL says.
LEMMA FlushOwn ==
    ASSUME Shapes, Own, NEW d \in Dbs,
           \/ Rollback(d) \/ Commit(d) \/ ApplyOverlay(d) \/ ApplyFails(d)
           \/ CommitUnderlying(d) \/ CommitUnderlyingFails(d) \/ CommitDone(d)
    PROVE  Own'
<1>1. ASSUME EndTransaction(d), dropper' = dropper, lapses \subseteq lapses' PROVE Own'
  <2>1. CASE ~Clean'
    BY Zenon, <2>1 DEF Own
  <2>2. CASE Clean'
    <3>1. \A e \in Dbs, s \in Tables : Tracked(e, s)
      BY Zenon, <1>1, <2>2 DEF Own, Clean
    <3> QED
      BY Zenon, <1>1, <3>1, EndOwn DEF Own
  <2> QED
    BY Zenon, <2>1, <2>2
<1>2. CASE Rollback(d)
  BY <1>1, <1>2 DEF Rollback
<1>3. CASE Commit(d)
  BY Zenon, <1>1, <1>3, QuietOwn DEF Commit
<1>4. CASE ApplyOverlay(d)
  BY Zenon, <1>4, QuietOwn DEF ApplyOverlay, ghosts
<1>5. CASE ApplyFails(d)
  BY Zenon, <1>1, <1>5 DEF ApplyFails
<1>6. CASE CommitUnderlying(d)
  BY Zenon, <1>6, QuietOwn DEF CommitUnderlying, ghosts
<1>7. CASE CommitUnderlyingFails(d)
  BY Zenon, <1>1, <1>7 DEF CommitUnderlyingFails
<1>8. CASE CommitDone(d)
  BY <1>1, <1>8 DEF CommitDone
<1> QED
  BY Zenon, <1>2, <1>3, <1>4, <1>5, <1>6, <1>7, <1>8

\* A poisoned overlay keeps its rows until the commit is refused.
LEMMA TracksPoison ==
    ASSUME NEW r \in TableStates, NEW m, NEW h, NEW n, r.created, Tracks(r, m, h, n, FALSE)
    PROVE  Tracks([r EXCEPT !.poison = TRUE], m, h, n, TRUE)
<1> DEFINE q == [r EXCEPT !.poison = TRUE]
<1>1. /\ q.overlay = r.overlay /\ q.created = r.created /\ q.stack = r.stack /\ q.pre = r.pre
      /\ q.registered = r.registered
  BY Zenon DEF TableStates
<1> HIDE DEF q
<1>2. Tracks(q, m, h, n, TRUE)
  BY Zenon, <1>1 DEF Tracks
<1> QED
  BY Zenon, <1>2 DEF q

\* DROP TABLE keeps the overlays what SQL says: the dropper's own is gone, and another
\* Database's stays, to be refused at its commit.
LEMMA DropOwn ==
    ASSUME Shapes, Own, NEW d \in Dbs, NEW t \in Tables, DropTable(d, t)
    PROVE  Own'
<1> SUFFICES ASSUME Clean', NEW e \in Dbs, NEW s \in Tables PROVE Tracked(e, s)'
  BY Zenon DEF Own
<1> DEFINE r == tab[e][t]
           n == depth[e]
           history == [i \in DOMAIN saved[d] |-> [saved[d][i] EXCEPT ![t] = Blank]]
<1>1. /\ dropper' = [dropper EXCEPT ![t] = d] /\ dropper[t] = Nobody /\ d # Nobody
      /\ mine' = [mine EXCEPT ![d][t] = Blank]
      /\ saved' = [saved EXCEPT ![d] = history]
      /\ tab'[e] = [tab[e] EXCEPT ![t] = IF e # d /\ r.created THEN [r EXCEPT !.poison = TRUE] ELSE Cleared(r)]
      /\ UNCHANGED <<depth, lapses>>
  BY Zenon, ConstantsAssumption DEF DropTable, Usable, Shapes
<1>2. Tracked(e, s)
  BY Zenon, <1>1 DEF Own, Clean
<1>3. /\ saved[d] \in Seq([Tables -> Overlays]) /\ Len(saved[d]) \in Nat /\ Len(saved[d]) = depth[d]
      /\ DOMAIN saved[d] = 1..Len(saved[d])
  BY DEF Shapes
<1>4. \A i \in 1..depth[d] : history[i] = [saved[d][i] EXCEPT ![t] = Blank] /\ saved[d][i] \in [Tables -> Overlays]
  BY <1>3
<1>5. Len(history) = depth[d]
  <2>1. history = [i \in 1..depth[d] |-> history[i]] /\ depth[d] \in Nat
    BY Zenon, <1>3
  <2> HIDE DEF history
  <2> QED
    BY <2>1
<1> HIDE DEF history
<1>6. Formed(r, n, driver.maxDepth) /\ n \in Nat /\ driver.maxDepth \in Nat /\ r \in TableStates
  BY Zenon, TabType
<1>7. CASE s # t
  <2>1. tab'[e][s] = tab[e][s] /\ mine'[e][s] = mine[e][s] /\ dropper'[s] = dropper[s]
    BY Zenon, <1>1, <1>7 DEF Shapes
  <2>2. Column(saved'[e], s) = Column(saved[e], s)
    <3>1. CASE e # d
      BY Zenon, <1>1, <3>1 DEF Shapes
    <3>2. CASE e = d
      <4>1. saved'[e] = history
        BY Zenon, <1>1, <3>2 DEF Shapes
      <4>2. \A i \in 1..depth[d] : history[i][s] = saved[d][i][s]
        BY Zenon, <1>4, <1>7
      <4> QED
        BY Zenon, <1>3, <1>5, <3>2, <4>1, <4>2 DEF Column
    <3> QED
      BY Zenon, <3>1, <3>2
  <2> QED
    BY Zenon, <1>1, <1>2, <2>1, <2>2 DEF Tracked
<1>8. CASE s = t
  <2>1. dropper'[s] # Nobody /\ dropper[s] = Nobody
    BY Zenon, <1>1, <1>8 DEF Shapes
  <2>2. Tracks(r, mine[e][t], Column(saved[e], t), n, FALSE)
    BY Zenon, <1>2, <1>8, <2>1 DEF Tracked
  <2>3. CASE e # d /\ r.created
    <3>1. tab'[e][s] = [r EXCEPT !.poison = TRUE] /\ mine'[e][s] = mine[e][t] /\ saved'[e] = saved[e]
      BY Zenon, <1>1, <1>8, <2>3 DEF Shapes
    <3>2. Tracks([r EXCEPT !.poison = TRUE], mine[e][t], Column(saved[e], t), n, TRUE)
      BY Zenon, <1>6, <2>2, <2>3, TracksPoison
    <3> QED
      BY Zenon, <1>1, <1>8, <2>1, <3>1, <3>2 DEF Tracked
  <2>4. CASE e # d /\ ~r.created
    <3>1. tab'[e][s] = Cleared(r) /\ mine'[e][s] = mine[e][t] /\ saved'[e] = saved[e]
      BY Zenon, <1>1, <1>8, <2>4 DEF Shapes
    <3>2. mine[e][t] = Blank /\ \A i \in 1..n : Column(saved[e], t)[i] = Blank
      BY Zenon, <1>6, <2>2, <2>4 DEF Tracks, Formed
    <3>3. Tracks(Cleared(r), Blank, Column(saved[e], t), n, TRUE)
      BY Zenon, <1>6, <3>2, TracksCleared
    <3> QED
      BY Zenon, <1>1, <1>8, <2>1, <3>1, <3>2, <3>3 DEF Tracked
  <2>5. CASE e = d
    <3>1. tab'[e][s] = Cleared(r) /\ mine'[e][s] = Blank /\ saved'[e] = history
      BY Zenon, <1>1, <1>8, <2>5 DEF Shapes
    <3>2. \A i \in 1..n : Column(history, t)[i] = Blank
      BY Zenon, <1>4, <1>5, <2>5 DEF Column
    <3>3. Tracks(Cleared(r), Blank, Column(history, t), n, TRUE)
      BY Zenon, <1>6, <3>2, TracksCleared
    <3> QED
      BY Zenon, <1>1, <1>8, <2>1, <3>1, <3>3 DEF Tracked
  <2> QED
    BY Zenon, <2>3, <2>4, <2>5
<1> QED
  BY Zenon, <1>7, <1>8

\* In the first state nothing is written.
LEMMA InitOwn ==
    ASSUME Init
    PROVE  Own
<1> SUFFICES ASSUME NEW d \in Dbs, NEW t \in Tables PROVE Tracked(d, t)
  BY ZenonT(30) DEF Own
<1>1. tab[d][t] = NoOverlay /\ mine[d][t] = Blank /\ depth[d] = 0
  BY DEF Init
<1>2. 1..0 = {} /\ 0..(0 - 1) = {}
  OBVIOUS
<1> QED
  BY Zenon, <1>1, <1>2, NoOverlayFields DEF Tracked, Tracks

\* Every step keeps the overlays what SQL says.
LEMMA NextOwn ==
    ASSUME Shapes, Own, [Next]_vars
    PROVE  Own'
<1>1. CASE Next
  BY SMTT(30), <1>1, InsertOwn, UpdateOwn, DeleteOwn, DropOwn, SavepointOwn, ReleaseOwn, RollbackToOwn, FlushOwn DEF Next
<1>2. CASE UNCHANGED vars
  BY <1>2, QuietOwn DEF vars, ghosts
<1> QED
  BY Zenon, <1>1, <1>2

\* The overlays are what SQL says throughout.
LEMMA OwnInvariant == Spec => []Own
<1>1. Init => Own
  BY InitOwn
<1>2. Shapes /\ Own /\ [Next]_vars => Own'
  BY NextOwn
<1> QED
  BY <1>1, <1>2, ShapesInvariant, PTL DEF Spec

\* A transaction reads what SQL says it wrote over the committed rows, through any number
\* of statements, savepoints, rollbacks to them and concurrent flushes (ReadsOwnWrites).
THEOREM TransactionReadsItsWrites == Spec => []ReadsOwnWrites
<1>1. Own => ReadsOwnWrites
  BY Zenon DEF Own, Clean, ReadsOwnWrites, ReadsExpected, Tracked, Tracks, View, Expected
<1> QED
  BY <1>1, OwnInvariant, PTL
-----------------------------------------------------------------------------
(* The flush is all or nothing. *)

\* A Database whose flush and overlays do not change is as far as it was.
LEMMA SameProgress ==
    ASSUME NEW e \in Dbs, Progress(e), tab'[e] = tab[e], phase'[e] = phase[e], todo'[e] = todo[e],
           applied'[e] = applied[e], dropper' = dropper
    PROVE  Progress(e)'
BY DEF Progress, HasOverlay, Refused

\* What its flush has moved stays moved.
LEMMA SameMoved ==
    ASSUME NEW e \in Dbs, Moved(e), tab'[e] = tab[e], phase'[e] = phase[e], todo'[e] = todo[e],
           applied'[e] = applied[e], UNCHANGED <<driver, under, pending, promised>>
    PROVE  Moved(e)'
BY Zenon DEF Moved, Landed

\* A step of a Database that is not flushing: statements, savepoints, rollbacks, and a
\* commit that is refused.
LEMMA QuietWhole ==
    ASSUME Shapes, Whole, NEW d \in Dbs, phase[d] = "body", phase' = phase, todo' = todo, applied' = applied,
           \A e \in Dbs \ {d} : tab'[e] = tab[e],
           UNCHANGED <<driver, under, pending, promised, dropper>>, lapses \subseteq lapses'
    PROVE  Whole'
<1>1. ASSUME NEW e \in Dbs PROVE Progress(e)'
  <2>1. CASE e = d
    BY Zenon, <2>1 DEF Progress, Whole
  <2>2. CASE e # d
    BY Zenon, <2>2, SameProgress DEF Whole
  <2> QED
    BY Zenon, <2>1, <2>2
<1>2. ASSUME lapses' = {} PROVE lapses = {}
  BY Zenon, <1>2
<1>3. ASSUME lapses' = {}, NEW e \in Dbs, phase'[e] # "body" PROVE Moved(e)'
  <2>1. e # d /\ Moved(e)
    BY Zenon, <1>2, <1>3 DEF Whole
  <2> QED
    BY Zenon, <2>1, SameMoved
<1>4. ASSUME lapses' = {}, \A e \in Dbs : phase'[e] = "body" PROVE Calm'
  BY Zenon, <1>2, <1>4 DEF Whole, Calm
<1>5. lapses' = {} => \A c, e \in Dbs : phase'[c] # "body" /\ phase'[e] # "body" => c = e
  BY Zenon, <1>2 DEF Whole
<1> QED
  BY Zenon, <1>1, <1>3, <1>4, <1>5 DEF Whole

\* The end of d's transaction, flushed or not, with the underlying tables as promised.
LEMMA EndWhole ==
    ASSUME Shapes, Whole, NEW d \in Dbs, EndTransaction(d), UNCHANGED <<driver, dropper>>,
           lapses \subseteq lapses', phase[d] # "body", lapses' = {} => Calm'
    PROVE  Whole'
<1>0. ASSUME NEW e \in Dbs \ {d}
      PROVE  tab'[e] = tab[e] /\ phase'[e] = phase[e] /\ todo'[e] = todo[e] /\ applied'[e] = applied[e]
  BY Zenon DEF EndTransaction, Shapes
<1>1. phase'[d] = "body" /\ todo'[d] = {} /\ applied'[d] = {}
  BY DEF EndTransaction, Shapes
<1>2. ASSUME NEW e \in Dbs PROVE Progress(e)'
  <2>1. CASE e = d
    BY Zenon, <1>1, <2>1 DEF Progress
  <2>2. CASE e # d
    BY Zenon, <1>0, <2>2, SameProgress DEF Whole
  <2> QED
    BY Zenon, <2>1, <2>2
<1>3. ASSUME lapses' = {}, NEW e \in Dbs PROVE phase'[e] = "body"
  <2>1. lapses = {}
    BY Zenon, <1>3
  <2> QED
    BY Zenon, <1>0, <1>1, <2>1 DEF Whole
<1> QED
  BY Zenon, <1>2, <1>3 DEF Whole

\* Outside its flush a transaction ends without a trace.
LEMMA BodyEndWhole ==
    ASSUME Shapes, Whole, NEW d \in Dbs, EndTransaction(d), phase[d] = "body",
           UNCHANGED <<driver, under, pending, promised, dropper, lapses>>
    PROVE  Whole'
<1>1. todo[d] = {} /\ applied[d] = {}
  BY Zenon DEF Whole, Progress
<1>2. phase' = phase /\ todo' = todo /\ applied' = applied /\ \A e \in Dbs \ {d} : tab'[e] = tab[e]
  BY Zenon, <1>1 DEF EndTransaction, Shapes
<1> QED
  BY Zenon, <1>2, QuietWhole

\* Statements, savepoints and rollbacks.
LEMMA BodyWhole ==
    ASSUME Shapes, Whole, NEW d \in Dbs,
           \/ \E t \in Tables : Insert(d, t) \/ Update(d, t) \/ Delete(d, t)
           \/ Savepoint(d) \/ ReleaseSavepoint(d) \/ RollbackToSavepoint(d) \/ Rollback(d)
    PROVE  Whole'
<1>1. ASSUME NEW t \in Tables, NEW results, NEW writes, Statement(d, t, results, writes), lapses \subseteq lapses'
      PROVE  Whole'
  <2>1. PICK f : tab' = [tab EXCEPT ![d] = f]
    BY Zenon, <1>1 DEF Statement
  <2>2. \A e \in Dbs \ {d} : tab'[e] = tab[e]
    BY Zenon, <2>1 DEF Shapes
  <2> QED
    BY Zenon, <1>1, <2>2, QuietWhole DEF Statement, Usable, flush
<1>2. ASSUME NEW f, Broadcast(d, f), UNCHANGED <<driver, under, pending, dropper, phase, todo, applied, promised>>,
             lapses \subseteq lapses', phase[d] = "body"
      PROVE  Whole'
  <2>1. \A e \in Dbs \ {d} : tab'[e] = tab[e]
    BY Zenon, <1>2 DEF Shapes, Broadcast
  <2> QED
    BY Zenon, <1>2, <2>1, QuietWhole
<1>3. CASE \E t \in Tables : Insert(d, t)
  BY Zenon, <1>1, <1>3 DEF Insert
<1>4. CASE \E t \in Tables : Update(d, t)
  BY Zenon, <1>1, <1>4 DEF Update
<1>5. CASE \E t \in Tables : Delete(d, t)
  BY Zenon, <1>1, <1>5 DEF Delete
<1>6. CASE Savepoint(d)
  BY Zenon, <1>2, <1>6 DEF Savepoint, Elsewhere, flush
<1>7. CASE ReleaseSavepoint(d)
  BY Zenon, <1>2, <1>7 DEF ReleaseSavepoint, Elsewhere, flush
<1>8. CASE RollbackToSavepoint(d)
  BY Zenon, <1>2, <1>8 DEF RollbackToSavepoint, Elsewhere, flush
<1>9. CASE Rollback(d)
  BY <1>9, BodyEndWhole DEF Rollback
<1> QED
  BY Zenon, <1>3, <1>4, <1>5, <1>6, <1>7, <1>8, <1>9

\* COMMIT: refused before anything is applied, or the only flush under way.
LEMMA CommitWhole ==
    ASSUME Shapes, Whole, NEW d \in Dbs, Commit(d)
    PROVE  Whole'
<1>1. phase[d] = "body" /\ UNCHANGED <<driver, under, pending, promised, dropper>>
  BY DEF Commit
<1>2. CASE Refused(d) /\ EndTransaction(d) /\ UNCHANGED lapses
  BY Zenon, <1>1, <1>2, BodyEndWhole
<1>3. CASE /\ ~Refused(d)
           /\ todo' = [todo EXCEPT ![d] = HasOverlay(d)]
           /\ phase' = [phase EXCEPT ![d] = IF todo'[d] = {} THEN "commit" ELSE "apply"]
           /\ lapses' = lapses \cup LapseIf("overlapped", \E e \in Dbs : phase[e] # "body")
           /\ UNCHANGED <<tab, depth, applied, mine, saved>>
  <2>1. applied'[d] = {} /\ todo'[d] = HasOverlay(d) /\ phase'[d] = IF HasOverlay(d) = {} THEN "commit" ELSE "apply"
    BY Zenon, <1>1, <1>3 DEF Whole, Progress, Shapes
  <2>2. ASSUME NEW e \in Dbs \ {d} PROVE phase'[e] = phase[e] /\ todo'[e] = todo[e] /\ applied'[e] = applied[e]
    BY Zenon, <1>3 DEF Shapes
  <2>3. HasOverlay(d)' = HasOverlay(d) /\ ~Refused(d)'
    BY Zenon, <1>1, <1>3 DEF HasOverlay, Refused
  <2>4. ASSUME NEW e \in Dbs PROVE Progress(e)'
    <3>1. CASE e = d
      BY Zenon, <2>1, <2>3, <3>1 DEF Progress
    <3>2. CASE e # d
      BY Zenon, <1>1, <1>3, <2>2, <3>2, SameProgress DEF Whole
    <3> QED
      BY Zenon, <3>1, <3>2
  <2>5. ASSUME lapses' = {}
        PROVE  Calm /\ \A e \in Dbs \ {d} : phase'[e] = "body"
    BY Zenon, <1>3, <2>2, <2>5 DEF LapseIf, Whole
  <2>6. Landed(d)' = {}
    <3>1. CASE HasOverlay(d) = {}
      BY <2>1, <3>1 DEF Landed
    <3>2. CASE HasOverlay(d) # {}
      BY Zenon, <2>1, <3>2 DEF Landed
    <3> QED
      BY <3>1, <3>2
  <2>7. lapses' = {} => Moved(d)'
    BY Zenon, <1>1, <2>1, <2>5, <2>6 DEF Moved, Calm
  <2>8. phase'[d] # "body"
    BY ZenonT(30), <2>1
  <2> QED
    BY Zenon, <2>4, <2>5, <2>7, <2>8 DEF Whole
<1> QED
  BY Zenon, <1>2, <1>3 DEF Commit, HasOverlay

\* Phase 1 puts one more overlay into the open transaction of its table.
LEMMA ApplyWhole ==
    ASSUME Shapes, Whole, NEW d \in Dbs, ApplyOverlay(d)
    PROVE  Whole'
<1>1. PICK t \in todo[d] :
        /\ phase[d] = "apply"
        /\ pending' = [pending EXCEPT ![t] = Stack(pending[t], tab[d][t].overlay)]
        /\ applied' = [applied EXCEPT ![d] = applied[d] \cup {t}]
        /\ todo' = [todo EXCEPT ![d] = IF todo[d] = {t} THEN applied'[d] ELSE todo[d] \ {t}]
        /\ phase' = [phase EXCEPT ![d] = IF todo[d] = {t} THEN "commit" ELSE phase[d]]
        /\ UNCHANGED <<driver, under, dropper, tab, promised, lapses>>
  BY Zenon DEF ApplyOverlay, ghosts, Shapes
<1>2. /\ applied'[d] = applied[d] \cup {t}
      /\ todo'[d] = IF todo[d] = {t} THEN applied'[d] ELSE todo[d] \ {t}
      /\ phase'[d] = IF todo[d] = {t} THEN "commit" ELSE "apply"
  BY Zenon, <1>1 DEF Shapes
<1>3. ASSUME NEW e \in Dbs \ {d} PROVE phase'[e] = phase[e] /\ todo'[e] = todo[e] /\ applied'[e] = applied[e]
  BY Zenon, <1>1 DEF Shapes
<1>4. /\ applied[d] = HasOverlay(d) \ todo[d] /\ todo[d] \subseteq HasOverlay(d) /\ ~Refused(d)
      /\ t \in Tables /\ t \notin applied[d]
  BY <1>1 DEF Whole, Progress, Shapes
<1>5. HasOverlay(d)' = HasOverlay(d) /\ ~Refused(d)'
  BY Zenon, <1>1, <1>4 DEF HasOverlay, Refused
<1>6. ASSUME NEW e \in Dbs PROVE Progress(e)'
  <2>1. CASE e = d /\ todo[d] = {t}
    BY Zenon, <1>2, <1>4, <1>5, <2>1 DEF Progress
  <2>2. CASE e = d /\ todo[d] # {t}
    <3>1. applied'[d] = applied[d] \cup {t} /\ todo'[d] = todo[d] \ {t} /\ phase'[d] = "apply"
      BY Zenon, <1>2, <2>2
    <3>2. todo'[d] # {} /\ todo'[d] \subseteq HasOverlay(d)
      BY Zenon, <1>4, <2>2, <3>1
    <3>3. applied'[d] = HasOverlay(d) \ todo'[d]
      BY Zenon, <1>4, <3>1
    <3>4. phase'[d] # "commit" /\ phase'[d] # "body"
      BY <3>1
    <3> QED BY Zenon, <1>5, <2>2, <3>2, <3>3, <3>4 DEF Progress
  <2>3. CASE e # d
    BY Zenon, <1>1, <1>3, <2>3, SameProgress DEF Whole
  <2> QED
    BY Zenon, <2>1, <2>2, <2>3
<1>7. Landed(d) = {}
  BY Zenon, <1>1 DEF Landed
<1>8. Landed(d)' = {}
  <2>1. CASE todo[d] = {t}
    BY <1>2, <2>1 DEF Landed
  <2>2. CASE todo[d] # {t}
    BY Zenon, <1>2, <2>2 DEF Landed
  <2> QED
    BY Zenon, <2>1, <2>2
<1>9. ASSUME lapses' = {} PROVE Moved(d)'
  <2>0. lapses = {} /\ phase[d] # "body"
    BY Zenon, <1>1, <1>9
  <2>1. Moved(d)
    BY Zenon, <2>0 DEF Whole
  <2>2. pending[t] = Blank /\ Stack(pending[t], tab[d][t].overlay) = tab[d][t].overlay
    BY Zenon, <1>4, <2>1, TabType, Blanks DEF Moved
  <2> QED
    BY SMTT(30), <1>1, <1>2, <1>7, <1>8, <2>1, <2>2 DEF Moved, Shapes
<1>10. ASSUME lapses' = {}, NEW e \in Dbs \ {d} PROVE phase'[e] = "body"
  BY Zenon, <1>1, <1>3, <1>10 DEF Whole
<1>11. phase'[d] # "body"
  BY Zenon, <1>2
<1> QED
  BY SMTT(30), <1>6, <1>9, <1>10, <1>11 DEF Whole

\* A table's transaction ends with that of its domain.
LEMMA DomainHolds == \A t \in Tables : t \in Domain(t)
BY Zenon DEF Domain

\* An error in phase 1 leaves nothing of the flush behind.
LEMMA ApplyFailsWhole ==
    ASSUME Shapes, Whole, NEW d \in Dbs, ApplyFails(d)
    PROVE  Whole'
<1>1. PICK t \in todo[d] :
        /\ phase[d] = "apply"
        /\ pending' = Discarded(UNION {Domain(s) : s \in applied[d] \cup {t}})
        /\ EndTransaction(d)
        /\ UNCHANGED <<driver, under, dropper, promised, lapses>>
  BY Zenon DEF ApplyFails
<1>2. ASSUME lapses' = {} PROVE Calm'
  <2>1. Moved(d) /\ Landed(d) = {}
    BY Zenon, <1>1, <1>2 DEF Whole, Landed
  <2>2. \A s \in Tables : under[s] = promised[s]
    BY Zenon, <2>1 DEF Moved
  <2>3. under = promised
    BY <2>2 DEF Shapes
  <2>4. ASSUME NEW s \in Tables PROVE pending'[s] = Blank
    <3>1. CASE s \in applied[d]
      <4>1. s \in UNION {Domain(q) : q \in applied[d] \cup {t}}
        BY Zenon, <3>1, DomainHolds
      <4> QED
        BY Zenon, <1>1, <4>1 DEF Discarded
    <3>2. CASE s \notin applied[d]
      BY Zenon, <1>1, <2>1, <3>2 DEF Moved, Discarded
    <3> QED
      BY Zenon, <3>1, <3>2
  <2>5. pending' = [s \in Tables |-> Blank]
    BY Zenon, <1>1, <2>4 DEF Discarded
  <2> QED
    BY Zenon, <1>1, <2>3, <2>5 DEF Calm
<1> QED
  BY Zenon, <1>1, <1>2, EndWhole

\* A refusal in phase 2 leaves nothing of the flush behind where the tables commit together.
LEMMA CommitFailsWhole ==
    ASSUME Shapes, Whole, NEW d \in Dbs, CommitUnderlyingFails(d)
    PROVE  Whole'
<1>1. PICK t \in todo[d] :
        /\ phase[d] = "commit"
        /\ driver.shared => todo[d] = applied[d]
        /\ pending' = Discarded(Domain(t))
        /\ lapses' = lapses \cup LapseIf("torn", ~driver.shared)
        /\ EndTransaction(d)
        /\ UNCHANGED <<driver, under, dropper, promised>>
  BY Zenon DEF CommitUnderlyingFails
<1>2. ASSUME lapses' = {} PROVE Calm'
  <2>0. driver.shared /\ lapses = {}
    BY <1>1, <1>2 DEF LapseIf
  <2>1. Moved(d) /\ Landed(d) = {}
    BY Zenon, <1>1, <2>0 DEF Whole, Landed
  <2>2. \A s \in Tables : under[s] = promised[s]
    BY <2>1 DEF Moved
  <2>3. under = promised
    BY <2>2 DEF Shapes
  <2>4. pending' = [s \in Tables |-> Blank]
    BY Zenon, <1>1, <2>0 DEF Discarded, Domain
  <2> QED
    BY Zenon, <1>1, <2>3, <2>4 DEF Calm
<1> QED
  BY Zenon, <1>1, <1>2, EndWhole

\* Phase 2 commits one underlying table, and with it all that share its transaction.
LEMMA CommitUnderlyingWhole ==
    ASSUME Shapes, Whole, NEW d \in Dbs, CommitUnderlying(d)
    PROVE  Whole'
<1>1. PICK t \in todo[d] :
        /\ phase[d] = "commit"
        /\ under' = [s \in Tables |-> IF s \in Domain(t) THEN Underlying(s) ELSE under[s]]
        /\ pending' = Discarded(Domain(t))
        /\ todo' = [todo EXCEPT ![d] = todo[d] \ {t}]
        /\ UNCHANGED <<driver, dropper, tab, phase, applied, promised, lapses>>
  BY Zenon DEF CommitUnderlying, ghosts, Shapes
<1>2. todo'[d] = todo[d] \ {t} /\ \A e \in Dbs \ {d} : todo'[e] = todo[e]
  BY Zenon, <1>1 DEF Shapes
<1>3. applied[d] = HasOverlay(d) /\ todo[d] \subseteq applied[d] /\ ~Refused(d) /\ t \in applied[d] /\ t \in Tables
  BY Zenon, <1>1 DEF Whole, Progress, Shapes
<1>4. HasOverlay(d)' = HasOverlay(d) /\ ~Refused(d)'
  BY Zenon, <1>1, <1>3 DEF HasOverlay, Refused
<1>5. ASSUME NEW e \in Dbs PROVE Progress(e)'
  <2>1. CASE e = d
    BY ZenonT(30), <1>1, <1>2, <1>3, <1>4, <2>1 DEF Progress
  <2>2. CASE e # d
    BY SMTT(30), <1>1, <1>2, <2>2, SameProgress DEF Whole
  <2> QED
    BY Zenon, <2>1, <2>2
<1>6. ASSUME lapses' = {}, NEW s \in Tables
      PROVE  /\ under'[s] = IF s \in Landed(d)' THEN Over(promised[s], tab[d][s].overlay) ELSE promised[s]
             /\ pending'[s] = IF s \in applied[d] \ Landed(d)' THEN tab[d][s].overlay ELSE Blank
  <2>1. /\ under[s] = IF s \in Landed(d) THEN Over(promised[s], tab[d][s].overlay) ELSE promised[s]
        /\ pending[s] = IF s \in applied[d] \ Landed(d) THEN tab[d][s].overlay ELSE Blank
    BY Zenon, <1>1, <1>6 DEF Whole, Moved
  <2>2. /\ under'[s] = IF s \in Domain(t) THEN Over(under[s], pending[s]) ELSE under[s]
        /\ pending'[s] = IF s \in Domain(t) THEN Blank ELSE pending[s]
    BY Zenon, <1>1 DEF Discarded, Underlying
  <2>3. under[s] \in [Keys -> Rows]
    BY Zenon DEF Shapes
  <2>4. Over(under[s], Blank) = under[s]
    BY Zenon, <2>3, Blanks
  <2>5. CASE driver.shared
    <3>1. s \in Domain(t)
      BY Zenon, <2>5 DEF Domain
    <3>2. Landed(d)' = applied[d]
      BY Zenon, <1>1, <1>2, <1>3, <2>5 DEF Landed
    <3>3. CASE todo[d] = applied[d]
      <4>1. Landed(d) = {}
        BY ZenonT(30), <1>1, <2>5, <3>3 DEF Landed
      <4> QED
        BY Zenon, <2>1, <2>2, <2>4, <3>1, <3>2, <4>1
    <3>4. CASE todo[d] # applied[d]
      <4>1. Landed(d) = applied[d]
        BY Zenon, <1>1, <2>5, <3>4 DEF Landed
      <4> QED
        BY Zenon, <2>1, <2>2, <2>4, <3>1, <3>2, <4>1
    <3> QED
      BY Zenon, <3>3, <3>4
  <2>6. CASE ~driver.shared
    <3>1. s \in Domain(t) <=> s = t
      BY Zenon, <2>6 DEF Domain
    <3>2. Landed(d) = applied[d] \ todo[d] /\ Landed(d)' = applied[d] \ (todo[d] \ {t})
      BY Zenon, <1>1, <1>2, <2>6 DEF Landed
    <3>3. s # t => (s \in Landed(d) <=> s \in Landed(d)')
      BY Zenon, <3>2
    <3>4. t \notin Landed(d) /\ t \in Landed(d)' /\ t \in applied[d]
      BY Zenon, <1>3, <3>2
    <3> QED
      BY Zenon, <2>1, <2>2, <3>1, <3>3, <3>4
  <2> QED
    BY Zenon, <2>5, <2>6
<1>7. lapses' = {} => Moved(d)'
  BY Zenon, <1>1, <1>6 DEF Moved
<1>8. ASSUME lapses' = {}, NEW e \in Dbs \ {d} PROVE phase'[e] = "body"
  BY Zenon, <1>1, <1>8 DEF Whole
<1>9. phase'[d] # "body"
  BY Zenon, <1>1
<1> QED
  BY Zenon, <1>5, <1>7, <1>8, <1>9 DEF Whole

\* When the flush is done all of its rows are in, and none of another.
LEMMA CommitDoneWhole ==
    ASSUME Shapes, Own, Whole, NEW d \in Dbs, CommitDone(d)
    PROVE  Whole'
<1>1. /\ phase[d] = "commit" /\ todo[d] = {}
      /\ promised' = [t \in Tables |-> Over(promised[t], mine[d][t])]
      /\ EndTransaction(d)
      /\ UNCHANGED <<driver, under, pending, dropper, lapses>>
  BY Zenon DEF CommitDone
<1>2. applied[d] = HasOverlay(d)
  BY <1>1 DEF Whole, Progress
<1>3. Landed(d) = applied[d]
  BY <1>1 DEF Landed
<1>4. ASSUME lapses' = {} PROVE Calm'
  <2>1. Moved(d)
    BY Zenon, <1>1, <1>4 DEF Whole
  <2>2. ASSUME NEW t \in Tables PROVE under[t] = Over(promised[t], mine[d][t]) /\ pending[t] = Blank
    <3>1. tab[d][t].overlay = mine[d][t]
      BY Zenon, <1>1, <1>4 DEF Own, Clean, Tracked, Tracks
    <3>2. t \in HasOverlay(d) <=> tab[d][t].created
      BY Zenon DEF HasOverlay
    <3>3. ~tab[d][t].created => tab[d][t].overlay = Blank
      BY Zenon, TabType DEF Formed
    <3>4. Over(promised[t], Blank) = promised[t]
      BY Zenon, Blanks DEF Shapes
    <3> QED
      BY SMTT(30), <1>2, <1>3, <2>1, <3>1, <3>2, <3>3, <3>4 DEF Moved
  <2>3. under' = promised'
    BY Zenon, <1>1, <2>2 DEF Shapes
  <2>4. pending' = [t \in Tables |-> Blank]
    BY Zenon, <1>1, <2>2 DEF Shapes
  <2> QED
    BY Zenon, <2>3, <2>4 DEF Calm
<1> QED
  BY Zenon, <1>1, <1>4, EndWhole

\* DROP TABLE, between flushes, takes the table's promised rows with it.
LEMMA DropWhole ==
    ASSUME Shapes, Whole, NEW d \in Dbs, NEW t \in Tables, DropTable(d, t)
    PROVE  Whole'
<1>1. /\ \A e \in Dbs : phase[e] = "body"
      /\ under' = [under EXCEPT ![t] = Blank] /\ pending' = [pending EXCEPT ![t] = Blank]
      /\ promised' = [promised EXCEPT ![t] = Blank]
      /\ UNCHANGED <<phase, todo, applied, lapses>>
  BY Zenon DEF DropTable, flush
<1>2. \A e \in Dbs : Progress(e)'
  BY Zenon, <1>1 DEF Whole, Progress
<1>3. lapses' = {} => Calm'
  BY Zenon, <1>1 DEF Whole, Calm, Shapes
<1> QED
  BY Zenon, <1>1, <1>2, <1>3 DEF Whole

\* In the first state nothing is promised but the rows there are.
LEMMA InitWhole ==
    ASSUME Init
    PROVE  Whole
<1>1. \A d \in Dbs : phase[d] = "body" /\ todo[d] = {} /\ applied[d] = {}
  BY ZenonT(30) DEF Init
<1>2. Calm
  BY DEF Init, Calm
<1> QED
  BY Zenon, <1>1, <1>2 DEF Whole, Progress

\* Every step preserves it.
LEMMA NextWhole ==
    ASSUME Shapes, Own, Whole, [Next]_vars
    PROVE  Whole'
<1>1. CASE Next
  BY SMTT(30), <1>1, BodyWhole, CommitWhole, ApplyWhole, ApplyFailsWhole, CommitUnderlyingWhole, CommitFailsWhole,
     CommitDoneWhole, DropWhole DEF Next
<1>2. CASE UNCHANGED vars
  <2>1. UNCHANGED <<driver, under, pending, dropper, tab, phase, todo, applied, promised, lapses>>
    BY Zenon, <1>2 DEF vars, flush, ghosts
  <2>2. \A e \in Dbs : Progress(e)'
    BY Zenon, <2>1, SameProgress DEF Whole
  <2>3. \A e \in Dbs : Moved(e) => Moved(e)'
    BY Zenon, <2>1, SameMoved
  <2>4. Calm => Calm'
    BY <2>1 DEF Calm
  <2> QED
    BY Zenon, <2>1, <2>2, <2>3, <2>4 DEF Whole
<1> QED
  BY Zenon, <1>1, <1>2

\* A commit over several tables is all or nothing, whichever table fails at whichever step,
\* and whoever else drops or commits meanwhile (AllOrNothing).
THEOREM CommitIsAtomic == Spec => []AllOrNothing
<1>1. Init => Whole
  BY InitWhole
<1>2. Shapes /\ Own /\ Whole /\ [Next]_vars => Whole'
  BY Zenon, NextWhole
<1>3. Whole => AllOrNothing
  BY DEF Whole, Calm, AllOrNothing
<1> QED
  BY <1>1, <1>2, <1>3, ShapesInvariant, OwnInvariant, PTL DEF Spec

-----------------------------------------------------------------------------
\* Unique rows.

\* A Database that takes no part stays as it began.
Idle == \A d \in Dbs \ driver.dbs :
            depth[d] = 0 /\ phase[d] = "body" /\ \A t \in Tables : ~tab[d][t].created

\* The rows are unique now, after the flush, and after a rollback to any savepoint.
AllUnique(u, r, body) ==
    /\ Unique(Over(u, r.overlay))
    /\ body => \A i \in 1..Len(r.stack) : Unique(Over(u, r.stack[i]))

Distinct ==
    OneDatabase =>
        \A t \in Tables :
            /\ Unique(under[t]) /\ Unique(Underlying(t))
            /\ \A d \in Dbs : AllUnique(Underlying(t), tab[d][t], phase[d] = "body")

-----------------------------------------------------------------------------
(* The committed rows are unique while one Database uses the module. *)

\* What the savepoints of a table can bring back stays unique: a savepoint ...
LEMMA UniqueSavepoint ==
    ASSUME NEW u, NEW r, NEW n \in Nat, NEW max \in Nat, Formed(r, n, max), AllUnique(u, r, TRUE)
    PROVE  AllUnique(u, OnSavepoint(r, n), TRUE)
<1> DEFINE q == OnSavepoint(r, n)
<1>0. r \in TableStates /\ r.stack \in Seq(Overlays) /\ r.overlay \in Overlays
  BY DEF Formed, TableStates
<1>1. CASE r.created
  <2>1. q = [r EXCEPT !.stack = Append(@, r.overlay)]
    BY <1>1 DEF OnSavepoint
  <2>2. q.overlay = r.overlay /\ q.stack = Append(r.stack, r.overlay)
    BY Zenon, <1>0, <2>1 DEF TableStates
  <2>3. \A i \in 1..Len(q.stack) : q.stack[i] = r.overlay \/ (i \in 1..Len(r.stack) /\ q.stack[i] = r.stack[i])
    BY <1>0, <2>2
  <2> HIDE DEF q
  <2>4. AllUnique(u, q, TRUE)
    BY <2>2, <2>3 DEF AllUnique
  <2> QED
    BY Zenon, <2>4 DEF q
<1>2. CASE ~r.created
  <2>1. q.overlay = r.overlay /\ q.stack = r.stack
    BY Zenon, <1>0, <1>2 DEF OnSavepoint, TableStates
  <2> QED
    BY <2>1 DEF AllUnique
<1> QED
  BY Zenon, <1>1, <1>2

\* ... its release ...
LEMMA UniqueRelease ==
    ASSUME NEW u, NEW r, NEW n \in Nat, NEW max \in Nat, Formed(r, n, max), AllUnique(u, r, TRUE),
           NEW i \in 0..(n - 1)
    PROVE  AllUnique(u, OnRelease(r, i), TRUE)
<1> DEFINE q == OnRelease(r, i)
<1>0. r \in TableStates /\ r.stack \in Seq(Overlays)
  BY DEF Formed, TableStates
<1>1. q.overlay = r.overlay /\ q.stack = IF r.created THEN SubSeq(r.stack, 1, i) ELSE r.stack
  BY <1>0 DEF OnRelease, TableStates
<1>2. r.created => Len(r.stack) = n
  BY DEF Formed
<1>3. \A x \in 1..Len(q.stack) : x \in 1..Len(r.stack) /\ q.stack[x] = r.stack[x]
  BY <1>0, <1>1, <1>2
<1> QED
  BY Zenon, <1>1, <1>3 DEF AllUnique

\* ... a rollback to it, whatever has been written since ...
LEMMA UniqueRollback ==
    ASSUME NEW u, NEW r, NEW n \in Nat, NEW max \in Nat, Formed(r, n, max), NEW i \in 0..(n - 1),
           \A x \in 1..Len(r.stack) : Unique(Over(u, r.stack[x])), Unique(Over(u, Blank))
    PROVE  AllUnique(u, OnRollbackTo(r, i), TRUE)
<1> DEFINE q == OnRollbackTo(r, i)
<1>0. r \in TableStates /\ r.stack \in Seq(Overlays) /\ r.pre \subseteq Nat
  BY DEF Formed, TableStates
<1>1. CASE i \in r.pre
  <2> DEFINE p == {j \in r.pre : j <= i}
  <2>0. p \in SUBSET (0..max)
    BY DEF Formed
  <2>1. q.overlay = Blank /\ q.stack = <<>>
    <3>1. q = [NoOverlay EXCEPT !.registered = TRUE, !.pre = p]
      BY <1>1 DEF OnRollbackTo
    <3> HIDE DEF p, q
    <3> QED
      BY Zenon, <2>0, <3>1, BareFormed
  <2>2. 1..Len(<<>>) = {}
    OBVIOUS
  <2> QED
    BY Zenon, <2>1, <2>2 DEF AllUnique
<1>2. CASE i \notin r.pre /\ r.created
  <2>1. q = [r EXCEPT !.overlay = r.stack[i + 1], !.stack = SubSeq(@, 1, i + 1)]
    BY <1>2 DEF OnRollbackTo
  <2>2. q.overlay = r.stack[i + 1] /\ q.stack = SubSeq(r.stack, 1, i + 1)
    BY Zenon, <1>0, <1>2, <2>1 DEF TableStates
  <2>3. Len(r.stack) = n
    BY <1>2 DEF Formed
  <2>4. i + 1 \in 1..Len(r.stack) /\ \A x \in 1..Len(q.stack) : x \in 1..Len(r.stack) /\ q.stack[x] = r.stack[x]
    BY <1>0, <2>2, <2>3
  <2> QED
    BY Zenon, <2>2, <2>4 DEF AllUnique
<1>3. CASE i \notin r.pre /\ ~r.created
  <2>1. q = r
    BY <1>3 DEF OnRollbackTo
  <2>2. r.overlay = Blank
    BY <1>3 DEF Formed
  <2> QED
    BY Zenon, <2>1, <2>2 DEF AllUnique
<1> QED
  BY Zenon, <1>1, <1>2, <1>3

\* ... and a new overlay.
LEMMA UniqueEnsure ==
    ASSUME NEW u, NEW r, NEW n \in Nat, NEW max \in Nat, Formed(r, n, max), AllUnique(u, r, TRUE),
           Unique(Over(u, Blank))
    PROVE  AllUnique(u, EnsureOverlay(EnsureConnection(r, n), n), TRUE)
<1> DEFINE c == EnsureConnection(r, n)
           q == EnsureOverlay(c, n)
<1>0. r \in TableStates /\ 0..(n - 1) \in SUBSET Nat
  BY DEF Formed
<1>1. c \in TableStates /\ c.overlay = r.overlay /\ c.stack = r.stack /\ c.created = r.created
  <2>1. CASE r.registered
    BY Zenon, <1>0, <2>1 DEF EnsureConnection
  <2>2. CASE ~r.registered
    <3>1. c = [r EXCEPT !.registered = TRUE, !.pre = 0..(n - 1)]
      BY <2>2 DEF EnsureConnection
    <3> QED
      BY Zenon, <1>0, <3>1 DEF TableStates
  <2> QED
    BY Zenon, <2>1, <2>2
<1> HIDE DEF c
<1>2. CASE c.created
  <2>1. q = c
    BY <1>2 DEF EnsureOverlay
  <2> HIDE DEF q
  <2>2. AllUnique(u, q, TRUE)
    BY Zenon, <1>1, <2>1 DEF AllUnique
  <2> QED
    BY Zenon, <2>2 DEF q, c
<1>3. CASE ~c.created
  <2>1. q = [c EXCEPT !.created = TRUE, !.stack = [i \in 1..n |-> Blank]]
    BY <1>3 DEF EnsureOverlay
  <2>2. q.overlay = c.overlay /\ q.stack = [i \in 1..n |-> Blank]
    BY Zenon, <1>1, <2>1 DEF TableStates
  <2>3. Len(q.stack) = n /\ \A i \in 1..n : q.stack[i] = Blank
    BY <2>2
  <2> QED
    BY Zenon, <1>1, <2>2, <2>3 DEF AllUnique, c
<1> QED
  BY Zenon, <1>2, <1>3 DEF c

\* So does a statement whose results leave the rows unique.
LEMMA UniqueStatement ==
    ASSUME Shapes, NEW d \in Dbs, NEW t \in Tables, NEW r \in Outcomes, NEW s \in Tables, NEW u,
           Unique(Over(u, Blank)), AllUnique(u, tab[d][s], TRUE),
           s = t /\ r.outcome # "constraint" => Unique(Over(u, r.overlay))
    PROVE  AllUnique(u, Settled(Staged(d, t, r, s), depth[d], r), TRUE)
<1> DEFINE n == depth[d]
           max == driver.maxDepth
           x == OnSavepoint(tab[d][s], n)
           y == Staged(d, t, r, s)
<1>1. n \in Nat /\ max \in Nat /\ Formed(tab[d][s], n, max)
  BY Zenon, TabType
<1>2. Formed(x, n + 1, max) /\ Formed(y, n + 1, max)
  BY Zenon, ReadyFormed, StagedFormed
<1>3. s = t => y = [Ready(d, t) EXCEPT !.overlay = r.overlay]
  BY DEF Staged
<1>4. s # t => y = x
  BY DEF Staged
<1>5. s = t => Ready(d, t) = EnsureOverlay(EnsureConnection(x, n + 1), n + 1)
  BY ZenonT(30), ReadyFormed DEF Ready
<1>6. s = t => Formed(Ready(d, t), n + 1, max) /\ Ready(d, t).created
  BY ReadyFormed
<1>7. AllUnique(u, x, TRUE)
  BY Zenon, <1>1, UniqueSavepoint
<1>8. n \in 0..((n + 1) - 1) /\ n + 1 \in Nat
  BY <1>1
<1> HIDE DEF n, max, x, y
<1>9. s = t => AllUnique(u, Ready(d, t), TRUE)
  BY Zenon, <1>1, <1>2, <1>5, <1>7, <1>8, UniqueEnsure
<1>10. s = t => y.stack = Ready(d, t).stack /\ y.overlay = r.overlay
  BY Zenon, <1>3, <1>6 DEF Formed, TableStates
<1>11. \A i \in 1..Len(y.stack) : Unique(Over(u, y.stack[i]))
  <2>1. CASE s = t
    BY Zenon, <1>9, <1>10, <2>1 DEF AllUnique
  <2>2. CASE s # t
    BY Zenon, <1>4, <1>7, <2>2 DEF AllUnique
  <2> QED
    BY Zenon, <2>1, <2>2
<1>12. CASE r.outcome # "constraint"
  <2>1. Unique(Over(u, y.overlay))
    BY Zenon, <1>4, <1>7, <1>10, <1>12 DEF AllUnique
  <2>2. AllUnique(u, y, TRUE)
    BY Zenon, <1>11, <2>1 DEF AllUnique
  <2>3. AllUnique(u, OnRelease(y, n), TRUE)
    BY Zenon, <1>1, <1>2, <1>8, <2>2, UniqueRelease
  <2> QED
    BY Zenon, <1>12, <2>3 DEF Settled, n, y
<1>13. CASE r.outcome = "constraint"
  <2> DEFINE z == OnRollbackTo(y, n)
  <2>1. AllUnique(u, z, TRUE)
    BY Zenon, <1>1, <1>2, <1>8, <1>11, UniqueRollback
  <2>2. Formed(z, n + 1, max)
    BY Zenon, <1>1, <1>2, <1>8, OnRollbackToFormed
  <2> HIDE DEF z
  <2>3. AllUnique(u, OnRelease(z, n), TRUE)
    BY Zenon, <1>1, <1>8, <2>1, <2>2, UniqueRelease
  <2> QED
    BY Zenon, <1>13, <2>3 DEF Settled, n, y, z
<1> QED
  BY Zenon, <1>12, <1>13

\* The statement of the one Database of the module.
LEMMA StatementDistinct ==
    ASSUME Shapes, Distinct, NEW d \in Dbs, NEW t \in Tables, NEW results, NEW writes,
           Statement(d, t, results, writes), OneDatabase,
           \A r \in results : /\ r \in Outcomes
                              /\ r.outcome # "constraint" => Unique(Over(Underlying(t), r.overlay))
    PROVE  Distinct'
<1>1. PICK r \in results :
           tab' = [tab EXCEPT ![d] = [s \in Tables |-> Settled(Staged(d, t, r, s), depth[d], r)]]
  BY StatementTab
<1>2. phase[d] = "body" /\ UNCHANGED <<driver, under, pending, phase>>
  BY DEF Statement, Usable, flush
<1>3. \A s \in Tables : Underlying(s)' = Underlying(s) /\ Unique(under[s]) /\ Unique(Underlying(s))
  BY Zenon, <1>2 DEF Underlying, Distinct
<1>4. ASSUME NEW s \in Tables, NEW e \in Dbs PROVE AllUnique(Underlying(s), tab'[e][s], phase'[e] = "body")
  <2>1. AllUnique(Underlying(s), tab[e][s], phase[e] = "body")
    BY DEF Distinct
  <2>2. CASE e # d
    <3>1. tab'[e][s] = tab[e][s] /\ phase'[e] = phase[e]
      BY Zenon, <1>1, <1>2, <2>2 DEF Shapes
    <3> QED
      BY Zenon, <2>1, <3>1
  <2>3. CASE e = d
    <3>1. tab'[e][s] = Settled(Staged(d, t, r, s), depth[d], r)
      BY Zenon, <1>1, <2>3 DEF Shapes
    <3>2. (phase[d] = "body") = TRUE /\ (phase'[d] = "body") = TRUE
      BY Zenon, <1>2
    <3>3. Unique(Over(Underlying(s), Blank))
      BY Zenon, <1>3, Blanks, TabType
    <3>4. AllUnique(Underlying(s), tab[d][s], TRUE)
      BY Zenon, <2>1, <2>3, <3>2
    <3>5. AllUnique(Underlying(s), Settled(Staged(d, t, r, s), depth[d], r), TRUE)
      BY Zenon, <3>3, <3>4, UniqueStatement
    <3> QED
      BY Zenon, <2>3, <3>1, <3>2, <3>5
  <2> QED
    BY Zenon, <2>2, <2>3
<1> QED
  BY Zenon, <1>2, <1>3, <1>4 DEF Distinct

\* The statements.
LEMMA StatementsDistinct ==
    ASSUME Shapes, Distinct, NEW d \in Dbs, NEW t \in Tables, Insert(d, t) \/ Update(d, t) \/ Delete(d, t)
    PROVE  Distinct'
<1> DEFINE o == tab[d][t].overlay
           u == Underlying(t)
<1>0. o \in Overlays /\ u \in [Keys -> Rows] /\ Ready(d, t).overlay = o /\ driver.keys \subseteq Keys
  BY Zenon, TabType, ReadyFormed, DriverType
<1>1. driver' = driver
  BY Zenon DEF Insert, Update, Delete, Statement
<1>2. CASE ~OneDatabase
  BY Zenon, <1>1, <1>2 DEF OneDatabase, Distinct
<1>3. CASE OneDatabase
  <2>0. Unique(Over(u, o))
    BY Zenon, <1>3 DEF Distinct, AllUnique
  <2>1. CASE Insert(d, t)
    <3>0. PICK k \in driver.keys, v \in Values, or \in Actions \cup {"none"} :
            \E writes : LET pk == IF or = "none" THEN driver.pk ELSE or
                           uc == IF or = "none" THEN driver.uc ELSE or
                       IN Statement(d, t, InsertRow(Ready(d, t).overlay, u, k, v, pk, uc), writes)
      BY Zenon, <2>1 DEF Insert
    <3>1. PICK writes :
            LET pk == IF or = "none" THEN driver.pk ELSE or
                uc == IF or = "none" THEN driver.uc ELSE or
            IN Statement(d, t, InsertRow(Ready(d, t).overlay, u, k, v, pk, uc), writes)
      BY Zenon, <3>0
    <3> DEFINE pk == IF or = "none" THEN driver.pk ELSE or
               uc == IF or = "none" THEN driver.uc ELSE or
    <3>2. pk \in Actions /\ uc \in Actions
      BY Zenon, InsertActions
    <3>3. Statement(d, t, InsertRow(o, u, k, v, pk, uc), writes)
      BY Zenon, <1>0, <3>1
    <3> HIDE DEF pk, uc, o, u
    <3>4. \A r \in InsertRow(o, u, k, v, pk, uc) : r \in Outcomes /\ (r.outcome # "constraint" => Unique(Over(u, r.overlay)))
      BY Zenon, <1>0, <2>0, <3>2, InsertFaithful, InsertUnique
    <3> QED
      BY Zenon, <1>3, <3>3, <3>4, StatementDistinct DEF u
  <2>2. CASE Update(d, t)
    <3>0. PICK j \in driver.keys, k \in driver.keys, v \in Values :
            \E writes : Statement(d, t, UpdateRow(Ready(d, t).overlay, u, j, k, v, driver.pk, driver.uc), writes)
      BY Zenon, <2>2 DEF Update
    <3>1. PICK writes :
            Statement(d, t, UpdateRow(Ready(d, t).overlay, u, j, k, v, driver.pk, driver.uc), writes)
      BY Zenon, <3>0
    <3>2. driver.pk \in Actions /\ driver.uc \in Actions
      BY Zenon, DriverType
    <3> HIDE DEF o, u
    <3>4. \A r \in UpdateRow(o, u, j, k, v, driver.pk, driver.uc) :
            r \in Outcomes /\ (r.outcome # "constraint" => Unique(Over(u, r.overlay)))
      BY Zenon, <1>0, <2>0, <3>2, UpdateFaithful, UpdateUnique
    <3> QED
      BY Zenon, <1>0, <1>3, <3>1, <3>4, StatementDistinct DEF u
  <2>3. CASE Delete(d, t)
    <3>0. PICK k \in Keys : \E writes : Statement(d, t, DeleteRow(Ready(d, t).overlay, k), writes)
      BY Zenon, <2>3 DEF Delete
    <3>1. PICK writes : Statement(d, t, DeleteRow(Ready(d, t).overlay, k), writes)
      BY <3>0
    <3> HIDE DEF o, u
    <3>4. \A r \in DeleteRow(o, k) : r \in Outcomes /\ (r.outcome # "constraint" => Unique(Over(u, r.overlay)))
      BY Zenon, <1>0, <2>0, DeleteFaithful, DeleteUnique
    <3> QED
      BY Zenon, <1>0, <1>3, <3>1, <3>4, StatementDistinct DEF u
  <2> QED
    BY Zenon, <2>1, <2>2, <2>3
<1> QED
  BY Zenon, <1>2, <1>3

\* The broadcast of an event of the savepoints.
LEMMA BroadcastDistinct ==
    ASSUME Shapes, Distinct, NEW d \in Dbs, Savepoint(d) \/ ReleaseSavepoint(d) \/ RollbackToSavepoint(d)
    PROVE  Distinct'
<1>1. phase[d] = "body" /\ UNCHANGED <<driver, under, pending, phase>>
  BY Zenon DEF Savepoint, ReleaseSavepoint, RollbackToSavepoint, Elsewhere, flush
<1>2. PICK f : /\ tab' = [tab EXCEPT ![d] = [s \in Tables |-> f[s]]]
               /\ \/ \A s \in Tables : f[s] = OnSavepoint(tab[d][s], depth[d])
                  \/ \E i \in 0..(depth[d] - 1) : \A s \in Tables : f[s] = OnRelease(tab[d][s], i)
                  \/ \E i \in 0..(depth[d] - 1) : \A s \in Tables : f[s] = OnRollbackTo(tab[d][s], i)
  <2>1. CASE Savepoint(d)
    <3> DEFINE f == [s \in Tables |-> OnSavepoint(tab[d][s], depth[d])]
    <3>1. tab' = [tab EXCEPT ![d] = [s \in Tables |-> f[s]]] /\ \A s \in Tables : f[s] = OnSavepoint(tab[d][s], depth[d])
      BY Zenon, <2>1 DEF Savepoint, Broadcast, Entered
    <3> QED
      BY Zenon, <3>1
  <2>2. CASE ReleaseSavepoint(d)
    <3>1. PICK i \in 0..(depth[d] - 1) : tab' = [tab EXCEPT ![d] = [s \in Tables |-> OnRelease(tab[d][s], i)]]
      BY Zenon, <2>2 DEF ReleaseSavepoint, Broadcast
    <3> DEFINE f == [s \in Tables |-> OnRelease(tab[d][s], i)]
    <3>2. tab' = [tab EXCEPT ![d] = [s \in Tables |-> f[s]]] /\ \A s \in Tables : f[s] = OnRelease(tab[d][s], i)
      BY Zenon, <3>1
    <3> QED
      BY Zenon, <3>2
  <2>3. CASE RollbackToSavepoint(d)
    <3>1. PICK i \in 0..(depth[d] - 1) : tab' = [tab EXCEPT ![d] = [s \in Tables |-> OnRollbackTo(tab[d][s], i)]]
      BY Zenon, <2>3 DEF RollbackToSavepoint, Broadcast
    <3> DEFINE f == [s \in Tables |-> OnRollbackTo(tab[d][s], i)]
    <3>2. tab' = [tab EXCEPT ![d] = [s \in Tables |-> f[s]]] /\ \A s \in Tables : f[s] = OnRollbackTo(tab[d][s], i)
      BY Zenon, <3>1
    <3> QED
      BY Zenon, <3>2
  <2> QED
    BY Zenon, <2>1, <2>2, <2>3
<1>3. \A s \in Tables : Underlying(s)' = Underlying(s)
  BY Zenon, <1>1 DEF Underlying
<1>4. ASSUME OneDatabase, NEW s \in Tables, NEW e \in Dbs
      PROVE  AllUnique(Underlying(s), tab'[e][s], phase'[e] = "body")
  <2>1. AllUnique(Underlying(s), tab[e][s], phase[e] = "body")
    BY Zenon, <1>4 DEF Distinct
  <2>2. CASE e # d
    <3>1. tab'[e][s] = tab[e][s] /\ phase'[e] = phase[e]
      BY Zenon, <1>1, <1>2, <2>2 DEF Shapes
    <3> QED
      BY Zenon, <2>1, <3>1
  <2>3. CASE e = d
    <3>1. tab'[e][s] = f[s]
      BY Zenon, <1>2, <2>3 DEF Shapes
    <3>2. (phase[d] = "body") = TRUE /\ (phase'[d] = "body") = TRUE
      BY Zenon, <1>1
    <3>3. Unique(Over(Underlying(s), Blank))
      BY Zenon, <1>4, Blanks, TabType DEF Distinct
    <3>4. AllUnique(Underlying(s), tab[d][s], TRUE)
      BY Zenon, <2>1, <2>3, <3>2
    <3>5. \A i \in 1..Len(tab[d][s].stack) : Unique(Over(Underlying(s), tab[d][s].stack[i]))
      BY Zenon, <3>4 DEF AllUnique
    <3>6. AllUnique(Underlying(s), f[s], TRUE)
      BY Zenon, <1>2, <3>3, <3>4, <3>5, TabType, UniqueSavepoint, UniqueRelease, UniqueRollback
    <3> QED
      BY Zenon, <2>3, <3>1, <3>2, <3>6
  <2> QED
    BY Zenon, <2>2, <2>3
<1> QED
  BY Zenon, <1>1, <1>3, <1>4 DEF OneDatabase, Distinct

\* The other Databases of a module that one Database uses have nothing staged.
LEMMA OthersIdle ==
    ASSUME Shapes, Idle, OneDatabase, NEW d \in driver.dbs, NEW e \in Dbs, e # d,
           NEW t \in Tables
    PROVE  phase[e] = "body" /\ ~tab[e][t].created /\ tab[e][t].overlay = Blank /\ Len(tab[e][t].stack) = 0
<1>4. e \in Dbs \ driver.dbs
  BY Zenon DEF OneDatabase
<1>5. phase[e] = "body" /\ ~tab[e][t].created
  BY Zenon, <1>4 DEF Idle
<1> QED
  BY Zenon, <1>5, TabType DEF Formed

\* Only a Database that takes part acts.
LEMMA ActorTakesPart ==
    ASSUME Shapes, Idle, NEW d \in Dbs,
           \/ \E t \in Tables : Insert(d, t) \/ Update(d, t) \/ Delete(d, t) \/ DropTable(d, t)
           \/ Savepoint(d) \/ ReleaseSavepoint(d) \/ RollbackToSavepoint(d) \/ Rollback(d)
           \/ Commit(d) \/ ApplyOverlay(d) \/ ApplyFails(d)
           \/ CommitUnderlying(d) \/ CommitUnderlyingFails(d) \/ CommitDone(d)
    PROVE  d \in driver.dbs
<1>0. SUFFICES ASSUME d \notin driver.dbs PROVE FALSE
  BY Zenon
<1>1. depth[d] = 0 /\ phase[d] = "body" /\ \A t \in Tables : ~tab[d][t].created
  BY Zenon, <1>0 DEF Idle
<1>2. ~Dirty(d) /\ 0..(depth[d] - 1) = {}
  <2>1. ~(depth[d] > 0) /\ 0..(depth[d] - 1) = {}
    <3>1. depth[d] = 0
      BY Zenon, <1>1
    <3> QED BY <3>1
  <2> QED BY Zenon, <1>1, <2>1 DEF Dirty
<1>3. ASSUME NEW t \in Tables PROVE ~Usable(d, t)
  BY Zenon, <1>0 DEF Usable
<1>4. ~ \E t \in Tables : Insert(d, t) \/ Update(d, t) \/ Delete(d, t) \/ DropTable(d, t)
  <2>1. ASSUME NEW t \in Tables, NEW results, NEW writes PROVE ~Statement(d, t, results, writes)
    BY Zenon, <1>3 DEF Statement
  <2>2. ASSUME NEW t \in Tables PROVE ~Insert(d, t)
    BY Zenon, <2>1 DEF Insert
  <2>3. ASSUME NEW t \in Tables PROVE ~Update(d, t)
    BY Zenon, <2>1 DEF Update
  <2>4. ASSUME NEW t \in Tables PROVE ~Delete(d, t)
    BY Zenon, <2>1 DEF Delete
  <2>5. ASSUME NEW t \in Tables PROVE ~DropTable(d, t)
    BY Zenon, <1>3 DEF DropTable
  <2> QED
    BY Zenon, <2>2, <2>3, <2>4, <2>5
<1>5. ~Savepoint(d) /\ ~ReleaseSavepoint(d) /\ ~RollbackToSavepoint(d)
  BY Zenon, <1>0, <1>2 DEF Savepoint, ReleaseSavepoint, RollbackToSavepoint
<1>6. ~Rollback(d) /\ ~Commit(d)
  BY Zenon, <1>2 DEF Rollback, Commit
<1>7. ~ApplyOverlay(d) /\ ~ApplyFails(d) /\ ~CommitUnderlying(d) /\ ~CommitUnderlyingFails(d) /\ ~CommitDone(d)
  BY Zenon, <1>1 DEF ApplyOverlay, ApplyFails, CommitUnderlying, CommitUnderlyingFails, CommitDone
<1> QED
  BY Zenon, <1>4, <1>5, <1>6, <1>7

\* A record without rows leaves the table as it is.
LEMMA BareUnique ==
    ASSUME NEW u \in [Keys -> Rows], NEW r, r.overlay = Blank, Len(r.stack) = 0, NEW body
    PROVE  AllUnique(u, r, body) <=> Unique(u)
<1>1. Over(u, r.overlay) = u /\ 1..Len(r.stack) = {}
  BY Blanks
<1> QED
  BY Zenon, <1>1 DEF AllUnique

\* A Database that takes no part stays as it began.
LEMMA NextIdle ==
    ASSUME Shapes, Idle, [Next]_vars
    PROVE  Idle'
<1>1. ASSUME NEW d \in Dbs, d \in driver.dbs, driver' = driver, EndTransaction(d) PROVE Idle'
  BY Zenon, <1>1 DEF Idle, EndTransaction, Shapes
<1>2. ASSUME NEW d \in Dbs, d \in driver.dbs, driver' = driver, NEW f, tab' = [tab EXCEPT ![d] = f],
             NEW n, depth' = [depth EXCEPT ![d] = n], NEW p, phase' = [phase EXCEPT ![d] = p]
      PROVE  Idle'
  BY Zenon, <1>2 DEF Idle, Shapes
<1>3. ASSUME NEW d \in Dbs, d \in driver.dbs, driver' = driver, tab' = tab, depth' = depth,
             NEW p, phase' = [phase EXCEPT ![d] = p]
      PROVE  Idle'
  BY Zenon, <1>3 DEF Idle, Shapes
<1>4. ASSUME NEW d \in Dbs PROVE depth = [depth EXCEPT ![d] = depth[d]] /\ phase = [phase EXCEPT ![d] = phase[d]]
  BY DEF Shapes
<1>5. ASSUME NEW d \in Dbs, NEW t \in Tables, Insert(d, t) \/ Update(d, t) \/ Delete(d, t) PROVE Idle'
  <2>1. d \in driver.dbs
    BY Zenon, <1>5, ActorTakesPart
  <2>2. driver' = driver /\ depth' = depth /\ phase' = phase /\ \E f : tab' = [tab EXCEPT ![d] = f]
    BY Zenon, <1>5 DEF Insert, Update, Delete, Statement, flush
  <2> QED
    BY Zenon, <1>2, <1>4, <2>1, <2>2
<1>6. ASSUME NEW d \in Dbs, NEW t \in Tables, DropTable(d, t) PROVE Idle'
  <2>1. /\ UNCHANGED <<driver, depth, phase>>
        /\ tab' = [e \in Dbs |-> [tab[e] EXCEPT ![t] =
                     IF e # d /\ tab[e][t].created THEN [tab[e][t] EXCEPT !.poison = TRUE] ELSE Cleared(tab[e][t])]]
    BY Zenon, <1>6 DEF DropTable, flush, Shapes
  <2>2. ASSUME NEW e \in Dbs, NEW s \in Tables, ~tab[e][s].created PROVE ~tab'[e][s].created
    <3>1. CASE s = t
      <4>1. tab'[e][s] = Cleared(tab[e][t])
        BY Zenon, <2>1, <2>2, <3>1 DEF Shapes
      <4> QED
        BY Zenon, <4>1, TabType, ClearedFormed
    <3>2. CASE s # t
      BY Zenon, <2>1, <2>2, <3>2 DEF Shapes
    <3> QED
      BY Zenon, <3>1, <3>2
  <2> QED
    BY Zenon, <2>1, <2>2 DEF Idle
<1>7. ASSUME NEW d \in Dbs, Savepoint(d) \/ ReleaseSavepoint(d) \/ RollbackToSavepoint(d) PROVE Idle'
  <2>1. d \in driver.dbs
    BY Zenon, <1>7, ActorTakesPart
  <2>2. /\ driver' = driver /\ phase' = phase
        /\ (\E f : tab' = [tab EXCEPT ![d] = f]) /\ \E n : depth' = [depth EXCEPT ![d] = n]
    BY Zenon, <1>7 DEF Savepoint, ReleaseSavepoint, RollbackToSavepoint, Broadcast, Elsewhere, flush, Shapes
  <2> QED
    BY Zenon, <1>2, <1>4, <2>1, <2>2
<1>8. ASSUME NEW d \in Dbs, Rollback(d) \/ ApplyFails(d) \/ CommitUnderlyingFails(d) \/ CommitDone(d) PROVE Idle'
  <2>1. d \in driver.dbs
    BY Zenon, <1>8, ActorTakesPart
  <2> QED
    BY Zenon, <1>1, <1>8, <2>1 DEF Rollback, ApplyFails, CommitUnderlyingFails, CommitDone
<1>9. ASSUME NEW d \in Dbs, Commit(d) \/ ApplyOverlay(d) \/ CommitUnderlying(d) PROVE Idle'
  <2>1. d \in driver.dbs
    BY Zenon, <1>9, ActorTakesPart
  <2>2. CASE Commit(d)
    BY Zenon, <1>1, <1>3, <2>1, <2>2 DEF Commit
  <2>3. CASE ApplyOverlay(d)
    BY Zenon, <1>3, <2>1, <2>3 DEF ApplyOverlay
  <2>4. CASE CommitUnderlying(d)
    BY ZenonT(30), <1>3, <1>4, <2>1, <2>4 DEF CommitUnderlying
  <2> QED
    BY Zenon, <1>9, <2>2, <2>3, <2>4
<1>10. CASE UNCHANGED vars
  BY Zenon, <1>10 DEF vars, flush, Idle
<1> QED
  BY Zenon, <1>5, <1>6, <1>7, <1>8, <1>9, <1>10 DEF Next

\* A step of d that changes the underlying tables and leaves their rows, with d's overlays
\* over them, unique.
LEMMA FlushDistinct ==
    ASSUME Shapes, Shapes', Idle, NEW d \in driver.dbs, driver' = driver,
           \A e \in Dbs \ {d} : tab'[e] = tab[e],
           OneDatabase =>
               \A t \in Tables : /\ Unique(under'[t]) /\ Unique(Underlying(t)')
                                 /\ AllUnique(Underlying(t)', tab'[d][t], phase'[d] = "body")
    PROVE  Distinct'
<1> SUFFICES ASSUME OneDatabase, NEW t \in Tables, NEW e \in Dbs
             PROVE  /\ Unique(under'[t]) /\ Unique(Underlying(t)')
                    /\ AllUnique(Underlying(t)', tab'[e][t], phase'[e] = "body")
  BY Zenon DEF OneDatabase, Distinct
<1>1. CASE e = d
  BY Zenon, <1>1
<1>2. CASE e # d
  <2>1. tab'[e][t].overlay = Blank /\ Len(tab'[e][t].stack) = 0
    BY <1>2, OthersIdle
  <2>2. Underlying(t)' \in [Keys -> Rows]
    BY Zenon, OverType DEF Underlying, Shapes
  <2>3. Unique(Underlying(t)')
    BY Zenon
  <2> DEFINE u == Underlying(t)'
             r == tab'[e][t]
             b == phase'[e] = "body"
  <2> HIDE DEF u, r, b
  <2>4. AllUnique(u, r, b)
    BY Zenon, <2>1, <2>2, <2>3, BareUnique DEF u, r
  <2> QED
    BY Zenon, <2>4 DEF u, r, b
<1> QED
  BY Zenon, <1>1, <1>2

\* The end of a transaction in which the open transactions of some underlying tables may
\* be discarded.
LEMMA EndDistinct ==
    ASSUME Shapes, Shapes', Idle, Distinct, NEW d \in driver.dbs, EndTransaction(d),
           UNCHANGED <<driver, under>>, pending' = pending \/ \E ts : pending' = Discarded(ts)
    PROVE  Distinct'
<1>0. d \in Dbs
  BY Zenon, DriverType
<1>1. \A e \in Dbs \ {d} : tab'[e] = tab[e]
  BY Zenon DEF EndTransaction, Shapes
<1>2. ASSUME NEW t \in Tables PROVE Underlying(t)' = Underlying(t) \/ Underlying(t)' = under[t]
  <2>1. pending'[t] = pending[t] \/ pending'[t] = Blank
    BY Zenon DEF Discarded
  <2> QED
    BY Zenon, <2>1, Blanks DEF Underlying, Shapes
<1>3. ASSUME OneDatabase, NEW t \in Tables
      PROVE  /\ Unique(under'[t]) /\ Unique(Underlying(t)')
             /\ AllUnique(Underlying(t)', tab'[d][t], phase'[d] = "body")
  <2>1. Unique(under'[t]) /\ Unique(Underlying(t)')
    BY Zenon, <1>2, <1>3 DEF Distinct
  <2>2. tab'[d][t] = Cleared(tab[d][t])
    BY ZenonT(30), <1>0 DEF EndTransaction, Shapes
  <2>3. tab'[d][t].overlay = Blank /\ Len(tab'[d][t].stack) = 0
    BY SMTT(30), <1>0, <2>2, TabType, ClearedFormed
  <2>4. Underlying(t)' \in [Keys -> Rows]
    BY Zenon, OverType DEF Underlying, Shapes
  <2> DEFINE u == Underlying(t)'
             r == tab'[d][t]
             b == phase'[d] = "body"
  <2> HIDE DEF u, r, b
  <2>5. AllUnique(u, r, b)
    BY Zenon, <2>1, <2>3, <2>4, BareUnique DEF u, r
  <2> QED
    BY Zenon, <2>1, <2>5 DEF u, r, b
<1> QED
  BY Zenon, <1>1, <1>3, FlushDistinct

\* COMMIT up to the flush.
LEMMA CommitDistinct ==
    ASSUME Shapes, Shapes', Idle, Distinct, NEW d \in driver.dbs, Commit(d)
    PROVE  Distinct'
<1>0. d \in Dbs /\ UNCHANGED <<driver, under, pending>>
  BY Zenon, DriverType DEF Commit
<1>1. CASE EndTransaction(d)
  BY Zenon, <1>0, <1>1, EndDistinct
<1>2. CASE UNCHANGED tab /\ \E p : p # "body" /\ phase' = [phase EXCEPT ![d] = p]
  <2>1. \A t \in Tables : Underlying(t)' = Underlying(t)
    BY Zenon, <1>0 DEF Underlying
  <2>2. \A e \in Dbs : phase'[e] = "body" => phase[e] = "body"
    BY Zenon, <1>2 DEF Shapes
  <2>3. ASSUME NEW t \in Tables, NEW e \in Dbs, AllUnique(Underlying(t), tab[e][t], phase[e] = "body")
        PROVE  AllUnique(Underlying(t), tab'[e][t], phase'[e] = "body")
    BY Zenon, <1>2, <2>2, <2>3 DEF AllUnique
  <2> QED
    BY Zenon, <1>0, <2>1, <2>3 DEF OneDatabase, Distinct
<1> QED
  BY Zenon, <1>1, <1>2 DEF Commit

\* Applying an overlay: the rows the transaction saw become those of the underlying table.
LEMMA ApplyDistinct ==
    ASSUME Shapes, Shapes', Idle, Distinct, NEW d \in driver.dbs, ApplyOverlay(d)
    PROVE  Distinct'
<1>1. PICK t \in todo[d] :
        /\ phase[d] = "apply"
        /\ pending' = [pending EXCEPT ![t] = Stack(pending[t], tab[d][t].overlay)]
        /\ phase' = [phase EXCEPT ![d] = IF todo[d] = {t} THEN "commit" ELSE phase[d]]
        /\ UNCHANGED <<driver, under, tab>>
  BY Zenon DEF ApplyOverlay, Shapes
<1>2. d \in Dbs /\ t \in Tables /\ phase'[d] # "body"
  BY Zenon, <1>1, DriverType DEF Shapes
<1>3. ASSUME OneDatabase, NEW s \in Tables
      PROVE  /\ Unique(under'[s]) /\ Unique(Underlying(s)')
             /\ AllUnique(Underlying(s)', tab'[d][s], phase'[d] = "body")
  <2> DEFINE u == Underlying(s)
             o == tab[d][s].overlay
  <2>0. u \in [Keys -> Rows] /\ o \in Overlays
    BY Zenon, <1>2, TabType
  <2>1. Unique(under[s]) /\ Unique(u) /\ Unique(Over(u, o))
    BY Zenon, <1>2, <1>3 DEF Distinct, AllUnique
  <2>2. CASE s = t
    <3>1. Underlying(s)' = Over(u, o)
      <4>1. under'[s] = under[s] /\ pending'[s] = Stack(pending[s], o)
        BY Zenon, <1>1, <1>2, <2>2 DEF Shapes
      <4>2. under[s] \in [Keys -> Rows] /\ pending[s] \in Overlays
        BY Zenon DEF Shapes
      <4>3. Over(under[s], Stack(pending[s], o)) = Over(Over(under[s], pending[s]), o)
        BY Zenon, <2>0, <4>2, OverStack
      <4> QED
        BY Zenon, <4>1, <4>3 DEF Underlying
    <3>2. Over(Over(u, o), o) = Over(u, o)
      BY Zenon, <2>0, OverTwice
    <3> QED
      BY Zenon, <1>1, <1>2, <2>1, <3>1, <3>2 DEF AllUnique
  <2>3. CASE s # t
    <3>1. Underlying(s)' = u
      BY Zenon, <1>1, <2>3 DEF Underlying, Shapes
    <3> QED
      BY Zenon, <1>1, <1>2, <2>1, <3>1 DEF AllUnique
  <2> QED
    BY Zenon, <2>2, <2>3
<1> QED
  BY SMTT(30), <1>1, <1>3, FlushDistinct

\* Committing it changes nothing that is read.
LEMMA CommitUnderlyingDistinct ==
    ASSUME Shapes, Shapes', Idle, Distinct, NEW d \in driver.dbs, CommitUnderlying(d)
    PROVE  Distinct'
<1>1. PICK t \in todo[d] :
        /\ under' = [s \in Tables |-> IF s \in Domain(t) THEN Underlying(s) ELSE under[s]]
        /\ pending' = Discarded(Domain(t))
        /\ UNCHANGED <<driver, tab, phase>>
  BY Zenon DEF CommitUnderlying
<1>2. ASSUME NEW s \in Tables PROVE Underlying(s)' = Underlying(s) /\ (under'[s] = Underlying(s) \/ under'[s] = under[s])
  <2>1. Underlying(s) \in [Keys -> Rows]
    BY Zenon, OverType DEF Underlying, Shapes
  <2>2. CASE s \in Domain(t)
    <3>1. under'[s] = Underlying(s) /\ pending'[s] = Blank
      BY Zenon, <1>1, <2>2 DEF Discarded
    <3>2. Underlying(s)' = Over(under'[s], pending'[s])
      BY Zenon DEF Underlying
    <3> QED
      BY Zenon, <2>1, <3>1, <3>2, Blanks
  <2>3. CASE s \notin Domain(t)
    <3>1. under'[s] = under[s] /\ pending'[s] = pending[s]
      BY Zenon, <1>1, <2>3 DEF Discarded
    <3> QED
      BY Zenon, <3>1 DEF Underlying
  <2> QED
    BY SMTT(30), <2>2, <2>3
<1> QED
  BY Zenon, <1>1, <1>2 DEF OneDatabase, Distinct

\* DROP TABLE leaves no rows of the table.
LEMMA DropDistinct ==
    ASSUME Shapes, Shapes', Idle, Distinct, NEW d \in driver.dbs, NEW t \in Tables, DropTable(d, t)
    PROVE  Distinct'
<1>0. d \in Dbs /\ driver' = driver
  BY Zenon, DriverType DEF DropTable
<1>1. /\ under' = [under EXCEPT ![t] = Blank] /\ pending' = [pending EXCEPT ![t] = Blank]
      /\ UNCHANGED phase
      /\ tab' = [e \in Dbs |-> [tab[e] EXCEPT ![t] =
                   IF e # d /\ tab[e][t].created THEN [tab[e][t] EXCEPT !.poison = TRUE] ELSE Cleared(tab[e][t])]]
  BY Zenon DEF DropTable, flush, Shapes
<1>2. Blank \in [Keys -> Rows] /\ Unique(Blank)
  BY Zenon DEF Blank, Rows, Unique
<1>3. ASSUME OneDatabase, NEW s \in Tables, NEW e \in Dbs
      PROVE  /\ Unique(under'[s]) /\ Unique(Underlying(s)')
             /\ AllUnique(Underlying(s)', tab'[e][s], phase'[e] = "body")
  <2>1. CASE s = t
    <3>1. under'[s] = Blank /\ pending'[s] = Blank
      BY ZenonT(30), <1>1, <2>1 DEF Shapes
    <3>2. Underlying(s)' = Blank
      BY Zenon, <1>2, <3>1, Blanks DEF Underlying
    <3>3. tab'[e][s] = Cleared(tab[e][t])
      <4>1. e # d => ~tab[e][t].created
        BY Zenon, <1>3, OthersIdle
      <4> QED
        BY <1>1, <2>1, <4>1 DEF Shapes
    <3>4. tab'[e][s].overlay = Blank /\ Len(tab'[e][s].stack) = 0
      BY <3>3, TabType, ClearedFormed
    <3> DEFINE r == tab'[e][s]
               b == phase'[e] = "body"
    <3> HIDE DEF r, b
    <3>5. AllUnique(Blank, r, b)
      BY Zenon, <1>2, <3>4, BareUnique DEF r
    <3> QED
      BY Zenon, <1>2, <3>1, <3>2, <3>5 DEF r, b
  <2>2. CASE s # t
    <3>1. under'[s] = under[s] /\ Underlying(s)' = Underlying(s) /\ tab'[e][s] = tab[e][s]
      BY <1>1, <2>2 DEF Shapes, Underlying
    <3> QED
      BY Zenon, <1>1, <1>3, <3>1 DEF Distinct
  <2> QED
    BY Zenon, <2>1, <2>2
<1> QED
  BY Zenon, <1>0, <1>3 DEF OneDatabase, Distinct

\* In the first state the rows are unique.
LEMMA InitDistinct ==
    ASSUME Init
    PROVE  Idle /\ Distinct
<1>1. \A d \in Dbs, t \in Tables : tab[d][t] = NoOverlay /\ depth[d] = 0 /\ phase[d] = "body"
  BY Zenon DEF Init
<1>2. Idle
  BY Zenon, <1>1, NoOverlayFields DEF Idle, Init
<1>3. ASSUME NEW t \in Tables PROVE under[t] \in [Keys -> Rows] /\ Unique(under[t]) /\ Underlying(t) = under[t]
  BY Zenon, Blanks DEF Init, Underlying
<1>4. \A t \in Tables, b \in BOOLEAN : AllUnique(under[t], NoOverlay, b)
  BY Zenon, <1>3, NoOverlayFields, BareUnique
<1>5. Distinct
  BY Zenon, <1>1, <1>3, <1>4 DEF Distinct
<1> QED
  BY Zenon, <1>2, <1>5

\* Every step keeps the rows unique.
LEMMA NextDistinct ==
    ASSUME Shapes, Shapes', Idle, Distinct, [Next]_vars
    PROVE  Distinct'
<1>1. ASSUME NEW d \in Dbs, \E t \in Tables : Insert(d, t) \/ Update(d, t) \/ Delete(d, t) PROVE Distinct'
  BY Zenon, <1>1, StatementsDistinct
<1>2. ASSUME NEW d \in Dbs, NEW t \in Tables, DropTable(d, t) PROVE Distinct'
  BY Zenon, <1>2, ActorTakesPart, DropDistinct
<1>3. ASSUME NEW d \in Dbs, Savepoint(d) \/ ReleaseSavepoint(d) \/ RollbackToSavepoint(d) PROVE Distinct'
  BY Zenon, <1>3, BroadcastDistinct
<1>4. ASSUME NEW d \in Dbs, Rollback(d) \/ ApplyFails(d) \/ CommitUnderlyingFails(d) \/ CommitDone(d) PROVE Distinct'
  <2>1. d \in driver.dbs
    BY Zenon, <1>4, ActorTakesPart
  <2>2. /\ EndTransaction(d) /\ UNCHANGED <<driver, under>>
        /\ pending' = pending \/ \E ts : pending' = Discarded(ts)
    BY ZenonT(30), <1>4 DEF Rollback, ApplyFails, CommitUnderlyingFails, CommitDone
  <2> QED
    BY Zenon, <2>1, <2>2, EndDistinct
<1>5. ASSUME NEW d \in Dbs, Commit(d) \/ ApplyOverlay(d) \/ CommitUnderlying(d) PROVE Distinct'
  <2>1. d \in driver.dbs
    BY Zenon, <1>5, ActorTakesPart
  <2> QED
    BY Zenon, <1>5, <2>1, CommitDistinct, ApplyDistinct, CommitUnderlyingDistinct
<1>6. CASE UNCHANGED vars
  BY Zenon, <1>6 DEF OneDatabase, vars, flush, Distinct, Underlying
<1> QED
  BY Zenon, <1>1, <1>2, <1>3, <1>4, <1>5, <1>6 DEF Next

\* The committed rows satisfy the UNIQUE constraint while one Database uses the module
\* (CommittedUnique).
THEOREM CommittedRowsUnique == Spec => []CommittedUnique
<1>1. Init => Idle /\ Distinct
  BY Zenon, InitDistinct
<1>2. Shapes /\ Idle /\ [Next]_vars => Idle'
  BY Zenon, NextIdle
<1>3. Shapes /\ Shapes' /\ Idle /\ Distinct /\ [Next]_vars => Distinct'
  BY Zenon, NextDistinct
<1>4. Distinct => CommittedUnique
  BY DEF Distinct, CommittedUnique
<1> QED
  BY <1>1, <1>2, <1>3, <1>4, ShapesInvariant, PTL DEF Spec
=============================================================================
