------------------------- MODULE MemoryTableProofs --------------------------
(***************************************************************************)
(* The layers of one in-memory table, part one of the proofs: TypeOK and   *)
(* WritableIsPrivate, for any connections, drivers, keys, values and       *)
(* number of writes.                                                       *)
(*                                                                         *)
(* The invariant is Safe: the layers are a tree in which only frozen       *)
(* layers have others over them, connections refer to layers that exist,   *)
(* and what they share is frozen.                                          *)
(***************************************************************************)
EXTENDS MemoryTable, WellFoundedInduction, TLAPS

-----------------------------------------------------------------------------
\* Numbers, and the walk up the layers.

\* A non-empty set of numbers has a least element.
LEMMA Least ==
    ASSUME NEW T \in SUBSET Nat, T # {}
    PROVE  \E n \in T : \A m \in T : n <= m
<1> DEFINE R == {ss \in Nat \X Nat : ss[1] < ss[2]}
<1>0. OpToRel(<, Nat) = R
  BY Zenon DEF OpToRel
<1>1. IsWellFoundedOn(R, Nat)
  BY Zenon, <1>0, NatLessThanWellFounded
<1>2. \E x \in T : \A y \in T : ~(<<y, x>> \in R)
  BY <1>1, WFMin, Zenon
<1>3. \A x, y \in Nat : y < x => <<y, x>> \in R
  OBVIOUS
<1> HIDE DEF R
<1>4. PICK x \in T : \A y \in T : ~(<<y, x>> \in R)
  BY <1>2, Zenon
<1>5. \A y \in T : y \in Nat /\ x \in Nat /\ ~(y < x)
  BY <1>3, <1>4, Zenon
<1> QED
  BY <1>5

\* A non-empty set of numbers that some number bounds has a greatest element.
LEMMA Greatest ==
    ASSUME NEW N \in Nat, NEW T \in SUBSET (0..N), T # {}
    PROVE  \E n \in T : \A m \in T : m <= n
<1> DEFINE D == {N - m : m \in T}
<1>1. D \in SUBSET Nat /\ D # {}
  <2>1. \A m \in T : N - m \in Nat
    OBVIOUS
  <2> QED BY Zenon, <2>1
<1>2. PICK d \in D : \A e \in D : d <= e
  BY Zenon, <1>1, Least
<1>3. PICK n \in T : d = N - n
  BY <1>2
<1>4. ASSUME NEW m \in T PROVE m <= n
  <2>1. N - m \in D
    OBVIOUS
  <2>2. d <= N - m /\ m \in 0..N /\ n \in 0..N
    BY <2>1, <1>2
  <2> HIDE DEF D
  <2> QED BY <2>2, <1>3
<1> QED BY <1>4

\* The layers form a tree: a layer is made over one that was there before it.
Tree(ls) == \A n \in 1..Len(ls) : ls[n].parent \in 0..(n - 1)

\* What the walk up from a layer computes (layerChainSet): the layer and the walk up from
\* its parent.
LEMMA ChainWalk ==
    ASSUME NEW ls, Len(ls) \in Nat, Tree(ls)
    PROVE  /\ Chain(ls, NoLayer) = {}
           /\ \A n \in 1..Len(ls) : Chain(ls, n) = {n} \cup Chain(ls, ls[n].parent)
<1> DEFINE N == Len(ls)
           Walks(g, k) == \A m \in 0..k : g[m] = IF m = NoLayer THEN {} ELSE {m} \cup g[ls[m].parent]
           Missing == {k \in 0..N : ~\E g \in [0..k -> SUBSET (0..N)] : Walks(g, k)}
           up == CHOOSE u : u = [n \in 0..N |-> IF n = NoLayer THEN {} ELSE {n} \cup u[ls[n].parent]]
<1>1. Missing = {}
  <2> SUFFICES ASSUME Missing # {} PROVE FALSE
    OBVIOUS
  <2>1. PICK k \in Missing : \A m \in Missing : k <= m
    <3>1. Missing \in SUBSET Nat
      OBVIOUS
    <3> HIDE DEF Missing
    <3> QED BY <3>1, Least
  <2>2. k # 0
    <3>1. [m \in 0..0 |-> {}] \in [0..0 -> SUBSET (0..N)] /\ Walks([m \in 0..0 |-> {}], 0)
      BY DEF NoLayer
    <3> QED BY Zenon, <3>1
  <2>3. k - 1 \in 0..N /\ k - 1 \notin Missing
    <3>1. k \in 1..N
      BY <2>2
    <3>2. ~(k <= k - 1)
      BY <3>1
    <3> HIDE DEF Missing
    <3> QED BY <2>1, <3>1, <3>2
  <2>4. PICK g \in [0..(k - 1) -> SUBSET (0..N)] : Walks(g, k - 1)
    BY Zenon, <2>3
  <2> DEFINE h == [m \in 0..k |-> IF m = k THEN {k} \cup g[ls[k].parent] ELSE g[m]]
  <2>5. ls[k].parent \in 0..(k - 1)
    BY <2>2 DEF Tree
  <2>6. h \in [0..k -> SUBSET (0..N)]
    BY <2>4, <2>5
  <2>7. Walks(h, k)
    <3> SUFFICES ASSUME NEW m \in 0..k PROVE h[m] = IF m = NoLayer THEN {} ELSE {m} \cup h[ls[m].parent]
      BY Zenon
    <3>1. CASE m = k
      BY <3>1, <2>2, <2>5 DEF NoLayer
    <3>2. CASE m # k /\ m # 0
      <4>1. m \in 0..(k - 1) /\ ls[m].parent \in 0..(k - 1)
        BY <3>2 DEF Tree
      <4> QED BY <4>1, <3>2, <2>4
    <3>3. CASE m = 0
      BY <3>3, <2>2, <2>4 DEF NoLayer
    <3> QED BY <3>1, <3>2, <3>3
  <2> QED BY Zenon, <2>6, <2>7
<1>2. PICK g \in [0..N -> SUBSET (0..N)] : Walks(g, N)
  <2>1. N \in 0..N /\ N \notin Missing
    BY <1>1
  <2> QED BY <2>1
<1>3. g = [n \in 0..N |-> IF n = NoLayer THEN {} ELSE {n} \cup g[ls[n].parent]]
  BY <1>2
<1>4. up = [n \in 0..N |-> IF n = NoLayer THEN {} ELSE {n} \cup up[ls[n].parent]]
  BY Zenon, <1>3
<1>5. \A l : Chain(ls, l) = up[l]
  BY DEF Chain
<1> HIDE DEF up
<1>6. Chain(ls, NoLayer) = {}
  BY <1>4, <1>5 DEF NoLayer
<1>7. ASSUME NEW n \in 1..N PROVE Chain(ls, n) = {n} \cup Chain(ls, ls[n].parent)
  <2>1. up[n] = IF n = NoLayer THEN {} ELSE {n} \cup up[ls[n].parent]
    BY <1>4
  <2> QED BY <2>1, <1>5 DEF NoLayer
<1> QED BY <1>6, <1>7

\* LastTouch is the greatest of the positions a log touches the key at.
LEMMA LastTouchIs ==
    ASSUME NEW log \in Seq(Change), NEW k, NEW i \in Touches(log, k), \A j \in Touches(log, k) : j <= i
    PROVE  LastTouch(log, k) = i
<1>1. Touches(log, k) \subseteq 1..Len(log)
  BY DEF Touches
<1>2. LastTouch(log, k) \in Touches(log, k) /\ \A j \in Touches(log, k) : j <= LastTouch(log, k)
  BY Zenon DEF LastTouch
<1>3. LastTouch(log, k) <= i /\ i <= LastTouch(log, k)
  BY <1>2
<1> QED BY <1>1, <1>2, <1>3

\* A log that touches a key has a last change to it.
LEMMA LastTouchExists ==
    ASSUME NEW log \in Seq(Change), NEW k, Touches(log, k) # {}
    PROVE  /\ LastTouch(log, k) \in 1..Len(log) /\ log[LastTouch(log, k)].key = k
           /\ \A j \in Touches(log, k) : j <= LastTouch(log, k)
<1>1. Len(log) \in Nat /\ Touches(log, k) \subseteq 1..Len(log)
  BY DEF Touches
<1>2. Touches(log, k) \in SUBSET (0..Len(log))
  BY <1>1
<1>3. PICK i \in Touches(log, k) : \A j \in Touches(log, k) : j <= i
  BY Zenon, <1>1, <1>2, Greatest
<1>4. LastTouch(log, k) = i
  BY <1>3, LastTouchIs
<1> QED BY <1>1, <1>3, <1>4 DEF Touches

\* Applying a log gives a table.
LEMMA ApplyType ==
    ASSUME NEW rows \in Table, NEW log \in Seq(Change)
    PROVE  Apply(rows, log) \in Table
<1>1. ASSUME NEW k \in Keys, Touches(log, k) # {} PROVE log[LastTouch(log, k)].row \in Rows
  <2>1. log[LastTouch(log, k)] \in Change
    BY <1>1, LastTouchExists
  <2> QED BY <2>1 DEF Change
<1>2. \A k \in Keys : rows[k] \in Rows
  BY DEF Table
<1> QED BY <1>1, <1>2 DEF Apply, Table

\* Applying nothing changes nothing.
LEMMA ApplyNothing ==
    ASSUME NEW rows \in Table
    PROVE  Apply(rows, <<>>) = rows
<1>1. \A k : Touches(<<>>, k) = {}
  BY DEF Touches
<1> QED BY <1>1 DEF Apply, Table

\* Applying one log after another is applying the two in a row.
LEMMA ApplyBoth ==
    ASSUME NEW rows \in Table, NEW a \in Seq(Change), NEW b \in Seq(Change)
    PROVE  Apply(rows, a \o b) = Apply(Apply(rows, a), b)
<1> DEFINE ab == a \o b
<1>1. /\ ab \in Seq(Change) /\ Len(ab) = Len(a) + Len(b) /\ Len(a) \in Nat /\ Len(b) \in Nat
      /\ \A i \in 1..Len(a) : ab[i] = a[i]
      /\ \A i \in 1..Len(b) : ab[Len(a) + i] = b[i]
  OBVIOUS
<1>2. \A i \in 1..Len(ab) : i \in 1..Len(a) \/ (i - Len(a) \in 1..Len(b) /\ i = Len(a) + (i - Len(a)))
  BY <1>1
<1>d. DOMAIN ab = 1..Len(ab) /\ DOMAIN a = 1..Len(a) /\ DOMAIN b = 1..Len(b)
  BY <1>1
<1> HIDE DEF ab
<1>3. ASSUME NEW k \in Keys
      PROVE  (IF Touches(ab, k) = {} THEN rows[k] ELSE ab[LastTouch(ab, k)].row)
                = IF Touches(b, k) = {} THEN Apply(rows, a)[k] ELSE b[LastTouch(b, k)].row
  <2>0. Apply(rows, a)[k] = IF Touches(a, k) = {} THEN rows[k] ELSE a[LastTouch(a, k)].row
    BY DEF Apply
  <2>1. CASE Touches(b, k) # {}
    <3> DEFINE i == LastTouch(b, k)
    <3>1. i \in 1..Len(b) /\ b[i].key = k /\ \A j \in Touches(b, k) : j <= i
      BY <2>1, LastTouchExists
    <3> HIDE DEF i
    <3>2. Len(a) + i \in Touches(ab, k)
      BY <1>1, <1>d, <3>1 DEF Touches
    <3>3. ASSUME NEW j \in Touches(ab, k) PROVE j <= Len(a) + i
      <4>1. j \in 1..Len(ab) /\ ab[j].key = k
        BY <1>d DEF Touches
      <4>2. CASE j \in 1..Len(a)
        BY <4>2, <1>1, <3>1
      <4>3. CASE j - Len(a) \in 1..Len(b) /\ j = Len(a) + (j - Len(a))
        <5>1. b[j - Len(a)].key = k
          BY <4>3, <4>1, <1>1
        <5>2. j - Len(a) \in Touches(b, k)
          BY <5>1, <4>3, <1>d DEF Touches
        <5> QED BY <5>2, <3>1, <4>1, <1>1
      <4> QED BY <4>1, <4>2, <4>3, <1>2
    <3>4. LastTouch(ab, k) = Len(a) + i
      BY <3>2, <3>3, <1>1, LastTouchIs
    <3>5. ab[Len(a) + i] = b[i]
      BY <3>1, <1>1
    <3>6. Touches(ab, k) # {}
      BY <3>2
    <3> QED BY <2>1, <3>4, <3>5, <3>6, Zenon DEF i
  <2>2. CASE Touches(b, k) = {} /\ Touches(a, k) # {}
    <3> DEFINE i == LastTouch(a, k)
    <3>1. i \in 1..Len(a) /\ a[i].key = k /\ \A j \in Touches(a, k) : j <= i
      BY <2>2, LastTouchExists
    <3> HIDE DEF i
    <3>2. i \in Touches(ab, k)
      BY <1>1, <1>d, <3>1 DEF Touches
    <3>3. ASSUME NEW j \in Touches(ab, k) PROVE j <= i
      <4>1. j \in 1..Len(ab) /\ ab[j].key = k
        BY <1>d DEF Touches
      <4>2. CASE j \in 1..Len(a)
        BY <4>2, <4>1, <1>1, <1>d, <3>1 DEF Touches
      <4>3. CASE j - Len(a) \in 1..Len(b) /\ j = Len(a) + (j - Len(a))
        <5>1. b[j - Len(a)].key = k
          BY <4>3, <4>1, <1>1
        <5> QED BY <5>1, <4>3, <1>d, <2>2 DEF Touches
      <4> QED BY <4>1, <4>2, <4>3, <1>2
    <3>4. LastTouch(ab, k) = i
      BY <3>2, <3>3, <1>1, LastTouchIs
    <3>5. ab[i] = a[i] /\ Touches(ab, k) # {}
      BY <3>1, <3>2, <1>1
    <3> QED BY <2>0, <2>2, <3>4, <3>5, Zenon DEF i
  <2>3. CASE Touches(b, k) = {} /\ Touches(a, k) = {}
    <3>1. ASSUME NEW j \in Touches(ab, k) PROVE FALSE
      <4>1. j \in 1..Len(ab) /\ ab[j].key = k
        BY <1>d DEF Touches
      <4>2. CASE j \in 1..Len(a)
        BY <4>2, <4>1, <1>1, <1>d, <2>3 DEF Touches
      <4>3. CASE j - Len(a) \in 1..Len(b) /\ j = Len(a) + (j - Len(a))
        <5>1. b[j - Len(a)].key = k
          BY <4>3, <4>1, <1>1
        <5> QED BY <5>1, <4>3, <1>d, <2>3 DEF Touches
      <4> QED BY <4>1, <4>2, <4>3, <1>2
    <3> QED BY <2>0, <2>3, <3>1
  <2> QED BY <2>1, <2>2, <2>3
<1>4. Apply(rows, ab) = Apply(Apply(rows, a), b)
  BY <1>3, Zenon DEF Apply
<1> QED BY <1>4 DEF ab

\* Every layer's writes are a log of changes.
Logged(ls) == \A n \in 1..Len(ls) : ls[n].writes \in Seq(Change)

\* What collectPendingChanges computes: nothing at the boundary, and above it the walk up
\* from the parent and then the layer's own writes.
LEMMA WritesWalk ==
    ASSUME NEW ls, Len(ls) \in Nat, Tree(ls), Logged(ls), NEW b
    PROVE  /\ WritesAbove(ls, NoLayer, b) = <<>>
           /\ b \in 0..Len(ls) => WritesAbove(ls, b, b) = <<>>
           /\ \A n \in 1..Len(ls) :
                n # b => WritesAbove(ls, n, b) = WritesAbove(ls, ls[n].parent, b) \o ls[n].writes
           /\ \A n \in 0..Len(ls) : WritesAbove(ls, n, b) \in Seq(Change)
<1> DEFINE N == Len(ls)
           Walks(g, k) == \A m \in 0..k : g[m] = IF m \in {b, NoLayer} THEN <<>> ELSE g[ls[m].parent] \o ls[m].writes
           Missing == {k \in 0..N : ~\E g \in [0..k -> Seq(Change)] : Walks(g, k)}
           up == CHOOSE u : u = [n \in 0..N |-> IF n \in {b, NoLayer} THEN <<>> ELSE u[ls[n].parent] \o ls[n].writes]
<1>1. Missing = {}
  <2> SUFFICES ASSUME Missing # {} PROVE FALSE
    OBVIOUS
  <2>1. PICK k \in Missing : \A m \in Missing : k <= m
    <3>1. Missing \in SUBSET Nat
      OBVIOUS
    <3> HIDE DEF Missing
    <3> QED BY <3>1, Least
  <2>2. k # 0
    <3>1. [m \in 0..0 |-> <<>>] \in [0..0 -> Seq(Change)] /\ Walks([m \in 0..0 |-> <<>>], 0)
      BY DEF NoLayer
    <3> QED BY Zenon, <3>1
  <2>3. k - 1 \in 0..N /\ k - 1 \notin Missing
    <3>1. k \in 1..N
      BY <2>2
    <3>2. ~(k <= k - 1)
      BY <3>1
    <3> HIDE DEF Missing
    <3> QED BY <2>1, <3>1, <3>2
  <2>4. PICK g \in [0..(k - 1) -> Seq(Change)] : Walks(g, k - 1)
    BY <2>3
  <2> DEFINE e == IF k \in {b, NoLayer} THEN <<>> ELSE g[ls[k].parent] \o ls[k].writes
             h == [m \in 0..k |-> IF m = k THEN e ELSE g[m]]
  <2>5. k \in 1..N /\ ls[k].parent \in 0..(k - 1) /\ ls[k].writes \in Seq(Change)
    BY <2>2 DEF Tree, Logged
  <2>6. e \in Seq(Change)
    <3>1. g[ls[k].parent] \in Seq(Change)
      BY <2>5
    <3> QED BY <3>1, <2>5
  <2>7. \A m \in 0..(k - 1) : h[m] = g[m]
    <3>1. \A m \in 0..(k - 1) : m \in 0..k /\ m # k
      BY <2>5
    <3> HIDE DEF e
    <3> QED BY <3>1
  <2>8. h[k] = e
    BY <2>5
  <2>9. h \in [0..k -> Seq(Change)]
    BY <2>4, <2>6
  <2>10. Walks(h, k)
    <3> SUFFICES ASSUME NEW m \in 0..k
                 PROVE  h[m] = IF m \in {b, NoLayer} THEN <<>> ELSE h[ls[m].parent] \o ls[m].writes
      BY Zenon
    <3> HIDE DEF h
    <3>1. CASE m = k
      BY <3>1, <2>5, <2>7, <2>8
    <3>2. CASE m # k /\ m # 0
      <4>1. m \in 0..(k - 1) /\ m \in 1..N /\ m <= k
        BY <3>2, <2>5
      <4>2. ls[m].parent \in 0..(m - 1)
        BY Zenon, <4>1 DEF Tree
      <4>3. ls[m].parent \in 0..(k - 1)
        BY <4>1, <4>2
      <4> QED BY Zenon, <4>1, <4>3, <3>2, <2>4, <2>7
    <3>3. CASE m = 0
      <4>1. m \in 0..(k - 1)
        BY <3>3, <2>5
      <4> QED BY Zenon, <4>1, <3>3, <2>4, <2>7 DEF NoLayer
    <3> QED BY <3>1, <3>2, <3>3
  <2> QED BY Zenon, <2>9, <2>10
<1>2. PICK g \in [0..N -> Seq(Change)] : Walks(g, N)
  <2>1. N \in 0..N /\ N \notin Missing
    <3> HIDE DEF Missing
    <3> QED BY <1>1
  <2> QED BY <2>1
<1>3. g = [n \in 0..N |-> IF n \in {b, NoLayer} THEN <<>> ELSE g[ls[n].parent] \o ls[n].writes]
  BY Zenon, <1>2
<1>4. up = [n \in 0..N |-> IF n \in {b, NoLayer} THEN <<>> ELSE up[ls[n].parent] \o ls[n].writes]
  BY <1>3, Zenon
<1>5. \A l : WritesAbove(ls, l, b) = up[l]
  BY DEF WritesAbove
<1> HIDE DEF up
<1>6. \A n \in 0..N : up[n] = IF n \in {b, NoLayer} THEN <<>> ELSE up[ls[n].parent] \o ls[n].writes
  BY Zenon, <1>4
<1>7. \A n \in 0..N : up[n] \in Seq(Change)
  <2> DEFINE Bad == {n \in 0..N : up[n] \notin Seq(Change)}
  <2> SUFFICES ASSUME Bad # {} PROVE FALSE
    OBVIOUS
  <2>1. PICK k \in Bad : \A m \in Bad : k <= m
    <3>1. Bad \in SUBSET Nat
      OBVIOUS
    <3> HIDE DEF Bad
    <3> QED BY <3>1, Least
  <2>2. k \notin {b, NoLayer}
    <3>1. k \in 0..N /\ up[k] \notin Seq(Change) /\ <<>> \in Seq(Change)
      BY <2>1
    <3> QED BY <1>6, <3>1, Zenon
  <2>3. k \in 1..N /\ ls[k].parent \in 0..(k - 1) /\ ls[k].writes \in Seq(Change)
    BY <2>2 DEF Tree, Logged, NoLayer
  <2>4. ~(k <= ls[k].parent) /\ ls[k].parent \in 0..N
    BY <2>3
  <2>5. up[ls[k].parent] \in Seq(Change)
    BY <2>1, <2>4
  <2>6. up[ls[k].parent] \o ls[k].writes \in Seq(Change)
    BY <2>5, <2>3
  <2> QED BY Zenon, <1>6, <2>1, <2>2, <2>6
<1>8. NoLayer \in 0..N /\ \A n \in 1..N : n # NoLayer /\ n \in 0..N
  BY DEF NoLayer
<1> QED BY Zenon, <1>5, <1>6, <1>7, <1>8

\* The chain of a layer: the layer itself, and only layers made before it.
LEMMA ChainBelow ==
    ASSUME NEW ls, Len(ls) \in Nat, Tree(ls)
    PROVE  \A l \in 1..Len(ls) : l \in Chain(ls, l) /\ Chain(ls, l) \subseteq 1..l
<1> DEFINE Bad == {n \in 0..Len(ls) : ~(Chain(ls, n) \subseteq 1..n)}
<1>1. Bad = {}
  <2> SUFFICES ASSUME Bad # {} PROVE FALSE
    OBVIOUS
  <2>1. PICK k \in Bad : \A m \in Bad : k <= m
    <3>1. Bad \in SUBSET Nat
      OBVIOUS
    <3> HIDE DEF Bad
    <3> QED BY <3>1, Least
  <2>2. k # 0
    BY <2>1, ChainWalk DEF NoLayer
  <2>3. k \in 1..Len(ls) /\ ls[k].parent \in 0..(k - 1)
    BY <2>2 DEF Tree
  <2>4. ~(k <= ls[k].parent) /\ ls[k].parent \in 0..Len(ls)
    BY <2>3
  <2>5. Chain(ls, ls[k].parent) \subseteq 1..ls[k].parent
    BY <2>1, <2>4
  <2>6. Chain(ls, k) = {k} \cup Chain(ls, ls[k].parent)
    BY <2>3, ChainWalk
  <2>7. Chain(ls, k) \subseteq 1..k
    BY <2>3, <2>5, <2>6
  <2> QED BY <2>1, <2>7
<1>2. \A l \in 1..Len(ls) : l \in Chain(ls, l)
  BY ChainWalk
<1> QED BY <1>1, <1>2

\* The chain of a layer has the chains of all its members.
LEMMA ChainClosed ==
    ASSUME NEW ls, Len(ls) \in Nat, Tree(ls), NEW l \in 1..Len(ls), NEW m \in Chain(ls, l)
    PROVE  Chain(ls, m) \subseteq Chain(ls, l)
<1> DEFINE Bad == {n \in 0..Len(ls) : \E x \in Chain(ls, n) : ~(Chain(ls, x) \subseteq Chain(ls, n))}
<1>1. Bad = {}
  <2> SUFFICES ASSUME Bad # {} PROVE FALSE
    OBVIOUS
  <2>1. PICK k \in Bad : \A n \in Bad : k <= n
    <3>1. Bad \in SUBSET Nat
      OBVIOUS
    <3> HIDE DEF Bad
    <3> QED BY <3>1, Least
  <2>2. k # 0
    BY <2>1, ChainWalk DEF NoLayer
  <2>3. k \in 1..Len(ls) /\ ls[k].parent \in 0..(k - 1)
    BY <2>2 DEF Tree
  <2>4. ~(k <= ls[k].parent) /\ ls[k].parent \in 0..Len(ls)
    BY <2>3
  <2>5. \A x \in Chain(ls, ls[k].parent) : Chain(ls, x) \subseteq Chain(ls, ls[k].parent)
    BY <2>1, <2>4
  <2>6. Chain(ls, k) = {k} \cup Chain(ls, ls[k].parent)
    BY <2>3, ChainWalk
  <2>7. \A x \in Chain(ls, k) : Chain(ls, x) \subseteq Chain(ls, k)
    BY <2>5, <2>6
  <2> QED BY <2>1, <2>7
<1>2. l \in 0..Len(ls)
  OBVIOUS
<1> QED BY <1>1, <1>2

\* Layers are only added, and of the old ones only p's writes and rows may differ.
Grown(ls, lt, p) ==
    /\ Len(ls) <= Len(lt)
    /\ \A n \in 1..Len(ls) :
        /\ lt[n].parent = ls[n].parent
        /\ n # p => lt[n].writes = ls[n].writes /\ lt[n].rows = ls[n].rows

\* A layer's chain stays what it was when it was made.
LEMMA ChainKept ==
    ASSUME NEW ls, Len(ls) \in Nat, Tree(ls), NEW lt, Len(lt) \in Nat, Tree(lt), NEW p, Grown(ls, lt, p)
    PROVE  \A l \in 0..Len(ls) : Chain(lt, l) = Chain(ls, l)
<1> DEFINE Bad == {n \in 0..Len(ls) : Chain(lt, n) # Chain(ls, n)}
<1> SUFFICES ASSUME Bad # {} PROVE FALSE
  OBVIOUS
<1>1. PICK k \in Bad : \A m \in Bad : k <= m
  <2>1. Bad \in SUBSET Nat
    OBVIOUS
  <2> HIDE DEF Bad
  <2> QED BY <2>1, Least
<1>2. k # 0
  BY Zenon, <1>1, ChainWalk DEF NoLayer
<1>3. k \in 1..Len(ls) /\ k \in 1..Len(lt) /\ ls[k].parent \in 0..(k - 1) /\ lt[k].parent = ls[k].parent
  BY <1>2 DEF Tree, Grown
<1>4. ~(k <= ls[k].parent) /\ ls[k].parent \in 0..Len(ls)
  BY <1>3
<1>5. Chain(lt, ls[k].parent) = Chain(ls, ls[k].parent)
  BY <1>1, <1>4
<1>6. Chain(ls, k) = {k} \cup Chain(ls, ls[k].parent) /\ Chain(lt, k) = {k} \cup Chain(lt, lt[k].parent)
  BY <1>3, ChainWalk
<1> QED BY Zenon, <1>1, <1>3, <1>5, <1>6

\* A layer nothing derives from is in no other layer's chain.
LEMMA LeafAlone ==
    ASSUME NEW ls, Len(ls) \in Nat, Tree(ls), NEW p, \A m \in 1..Len(ls) : ls[m].parent # p,
           NEW l \in 1..Len(ls), l # p
    PROVE  p \notin Chain(ls, l)
<1> DEFINE Bad == {n \in 0..Len(ls) : n # p /\ p \in Chain(ls, n)}
<1>0. Bad = {}
  <2> SUFFICES ASSUME Bad # {} PROVE FALSE
    OBVIOUS
  <2>1. PICK k \in Bad : \A m \in Bad : k <= m
    <3>1. Bad \in SUBSET Nat
      OBVIOUS
    <3> HIDE DEF Bad
    <3> QED BY <3>1, Least
  <2>2. k # 0
    BY <2>1, ChainWalk DEF NoLayer
  <2>3. k \in 1..Len(ls) /\ ls[k].parent \in 0..(k - 1)
    BY <2>2 DEF Tree
  <2>4. ~(k <= ls[k].parent) /\ ls[k].parent \in 0..Len(ls)
    BY <2>3
  <2>5. Chain(ls, k) = {k} \cup Chain(ls, ls[k].parent)
    BY <2>3, ChainWalk
  <2>6. p \in Chain(ls, ls[k].parent) /\ ls[k].parent # p
    BY <2>1, <2>3, <2>5
  <2> QED BY <2>1, <2>4, <2>6
<1>1. l \in 0..Len(ls)
  OBVIOUS
<1> QED BY <1>0, <1>1

\* What a chain without p wrote stays what it was.
LEMMA WritesKept ==
    ASSUME NEW ls, Len(ls) \in Nat, Tree(ls), Logged(ls), NEW lt, Len(lt) \in Nat, Tree(lt), Logged(lt),
           NEW p, Grown(ls, lt, p), NEW b, NEW l \in 0..Len(ls), p \notin Chain(ls, l)
    PROVE  WritesAbove(lt, l, b) = WritesAbove(ls, l, b)
<1> DEFINE Bad == {n \in 0..Len(ls) : p \notin Chain(ls, n) /\ WritesAbove(lt, n, b) # WritesAbove(ls, n, b)}
<1> SUFFICES ASSUME Bad # {} PROVE FALSE
  OBVIOUS
<1>1. PICK k \in Bad : \A m \in Bad : k <= m
  <2>1. Bad \in SUBSET Nat
    OBVIOUS
  <2> HIDE DEF Bad
  <2> QED BY <2>1, Least
<1>2. k # 0
  BY Zenon, <1>1, WritesWalk DEF NoLayer
<1>3. k \in 1..Len(ls) /\ k \in 1..Len(lt) /\ ls[k].parent \in 0..(k - 1) /\ lt[k].parent = ls[k].parent
  BY <1>2 DEF Tree, Grown
<1>4. k # b
  <2>1. k \in 0..Len(ls) /\ k \in 0..Len(lt)
    BY <1>3
  <2> QED BY Zenon, <1>1, <2>1, WritesWalk
<1>5. ~(k <= ls[k].parent) /\ ls[k].parent \in 0..Len(ls)
  BY <1>3
<1>6. Chain(ls, k) = {k} \cup Chain(ls, ls[k].parent)
  BY <1>3, ChainWalk
<1>7. p \notin Chain(ls, ls[k].parent) /\ k # p
  BY <1>1, <1>6
<1>8. WritesAbove(lt, ls[k].parent, b) = WritesAbove(ls, ls[k].parent, b)
  BY <1>1, <1>5, <1>7
<1>9. lt[k].writes = ls[k].writes
  BY <1>3, <1>7 DEF Grown
<1>10. WritesAbove(ls, k, b) = WritesAbove(ls, ls[k].parent, b) \o ls[k].writes
  BY Zenon, <1>3, <1>4, WritesWalk
<1>11. WritesAbove(lt, k, b) = WritesAbove(lt, lt[k].parent, b) \o lt[k].writes
  BY Zenon, <1>3, <1>4, WritesWalk
<1> QED BY Zenon, <1>1, <1>3, <1>8, <1>9, <1>10, <1>11

\* What a replay records is a log of changes.
LEMMA RecordedType ==
    ASSUME NEW rows, NEW log \in Seq(Change)
    PROVE  Recorded(rows, log) \in Seq(Change)
<1> DEFINE N == Len(log)
           Lasts(i) == log[i].row # NoRow \/ Apply(rows, SubSeq(log, 1, i - 1))[log[i].key] # NoRow
           Round(i, w) == IF Lasts(i) THEN Append(w, log[i]) ELSE w
           Replays(g, k) == \A i \in 0..k : g[i] = IF i = 0 THEN <<>> ELSE Round(i, g[i - 1])
           Missing == {k \in 0..N : ~\E g \in [0..k -> Seq(Change)] : Replays(g, k)}
           kept == CHOOSE u : u = [i \in 0..N |-> IF i = 0 THEN <<>> ELSE Round(i, u[i - 1])]
<1>0. N \in Nat
  OBVIOUS
<1>1. Recorded(rows, log) = kept[N]
  BY Zenon DEF Recorded
<1>2. \A i \in 1..N, w \in Seq(Change) : Round(i, w) \in Seq(Change)
  OBVIOUS
<1> HIDE DEF Round, N
<1>3. Missing = {}
  <2> SUFFICES ASSUME Missing # {} PROVE FALSE
    OBVIOUS
  <2>1. PICK k \in Missing : \A m \in Missing : k <= m
    <3>1. Missing \in SUBSET Nat
      OBVIOUS
    <3> HIDE DEF Missing
    <3> QED BY <3>1, Least
  <2>2. k # 0
    <3>1. [m \in 0..0 |-> <<>>] \in [0..0 -> Seq(Change)] /\ Replays([m \in 0..0 |-> <<>>], 0)
      OBVIOUS
    <3> QED BY Zenon, <3>1
  <2>3. k \in 1..N
    BY <1>0, <2>2
  <2>4. k - 1 \notin Missing /\ k - 1 \in 0..N
    <3>1. ~(k <= k - 1) /\ k - 1 \in 0..N
      BY <2>3, <1>0
    <3> HIDE DEF Missing
    <3> QED BY Zenon, <2>1, <3>1
  <2>5. PICK g \in [0..(k - 1) -> Seq(Change)] : Replays(g, k - 1)
    BY Zenon, <2>4
  <2> DEFINE h == [m \in 0..k |-> IF m = k THEN Round(k, g[k - 1]) ELSE g[m]]
  <2>6. Round(k, g[k - 1]) \in Seq(Change)
    <3>1. g[k - 1] \in Seq(Change)
      BY <2>3, <1>0
    <3> QED BY Zenon, <3>1, <2>3, <1>2
  <2>7. h \in [0..k -> Seq(Change)]
    BY <2>3, <2>6, <1>0
  <2>8. ASSUME NEW i \in 0..k PROVE h[i] = IF i = 0 THEN <<>> ELSE Round(i, h[i - 1])
    <3>1. CASE i = k
      <4>1. h[k] = Round(k, g[k - 1]) /\ k # 0
        BY <2>3, <1>0
      <4>2. h[k - 1] = g[k - 1]
        BY <2>3, <1>0
      <4> QED BY Zenon, <3>1, <4>1, <4>2
    <3>2. CASE i # k
      <4>1. h[i] = g[i] /\ i \in 0..(k - 1)
        BY <3>2, <2>3, <1>0
      <4>2. i # 0 => h[i - 1] = g[i - 1]
        BY <3>2, <2>3, <1>0
      <4> QED BY Zenon, <2>5, <4>1, <4>2
    <3> QED BY Zenon, <3>1, <3>2
  <2> HIDE DEF h
  <2> QED BY Zenon, <2>7, <2>8
<1>4. PICK g \in [0..N -> Seq(Change)] : Replays(g, N)
  <2>1. N \in 0..N
    BY <1>0
  <2> QED BY Zenon, <1>3, <2>1
<1>5. g = [i \in 0..N |-> IF i = 0 THEN <<>> ELSE Round(i, g[i - 1])]
  BY Zenon, <1>4
<1>6. kept = [i \in 0..N |-> IF i = 0 THEN <<>> ELSE Round(i, kept[i - 1])]
  BY Zenon, <1>5
<1> HIDE DEF kept
<1>7. \A i \in 0..N : kept[i] = IF i = 0 THEN <<>> ELSE Round(i, kept[i - 1])
  BY Zenon, <1>6
<1> DEFINE Wrong == {i \in 0..N : kept[i] \notin Seq(Change)}
<1>8. Wrong = {}
  <2> SUFFICES ASSUME Wrong # {} PROVE FALSE
    OBVIOUS
  <2>1. PICK k \in Wrong : \A m \in Wrong : k <= m
    <3>1. Wrong \in SUBSET Nat
      OBVIOUS
    <3> HIDE DEF Wrong
    <3> QED BY <3>1, Least
  <2>2. k \in 1..N /\ k - 1 \in 0..N /\ ~(k <= k - 1)
    <3>0. 0 \in 0..N
      BY <1>0
    <3>1. kept[0] = <<>>
      BY Zenon, <3>0, <1>7
    <3>2. <<>> \in Seq(Change)
      OBVIOUS
    <3>3. k # 0 /\ k \in 0..N
      BY Zenon, <3>1, <3>2
    <3> HIDE DEF Wrong
    <3> QED BY <3>3, <1>0
  <2>3. kept[k - 1] \in Seq(Change)
    BY Zenon, <2>1, <2>2
  <2>4. kept[k] = Round(k, kept[k - 1])
    BY <1>7, <2>2
  <2> QED BY Zenon, <2>1, <2>2, <2>3, <2>4, <1>2
<1> QED BY <1>0, <1>1, <1>8

-----------------------------------------------------------------------------
\* Well-formed layers, and what is done to them.

LayerShape == [parent : Nat, writes : Seq(Change), rows : Table, frozen : BOOLEAN, linked : BOOLEAN]

\* The layers are a tree of well-formed layers, and only frozen layers have others over them.
Sound(ls) ==
    /\ ls \in Seq(LayerShape)
    /\ Tree(ls)
    /\ \A n \in 1..Len(ls) : ls[n].parent # NoLayer => ls[ls[n].parent].frozen

\* Sound layers fit the lemmas on chains and logs.
LEMMA SoundFacts ==
    ASSUME NEW ls, Sound(ls)
    PROVE  /\ Len(ls) \in Nat /\ DOMAIN ls = 1..Len(ls) /\ Tree(ls) /\ Logged(ls)
           /\ \A n \in 1..Len(ls) : ls[n] \in LayerShape /\ ls[n].rows \in Table
<1>1. \A n \in 1..Len(ls) : ls[n] \in LayerShape
  BY DEF Sound
<1>2. \A n \in 1..Len(ls) : ls[n].writes \in Seq(Change) /\ ls[n].rows \in Table
  BY <1>1 DEF LayerShape
<1> QED BY <1>1, <1>2 DEF Sound, Logged

\* A layer made over a frozen one.
LEMMA AddLayer ==
    ASSUME NEW ls, Sound(ls), NEW x \in LayerShape, x.parent \in 1..Len(ls), ls[x.parent].frozen
    PROVE  /\ Sound(Append(ls, x))
           /\ Len(Append(ls, x)) = Len(ls) + 1 /\ Append(ls, x)[Len(ls) + 1] = x
           /\ \A n \in 1..Len(ls) : Append(ls, x)[n] = ls[n]
<1> DEFINE lt == Append(ls, x)
<1>0. Len(ls) \in Nat /\ ls \in Seq(LayerShape)
  BY DEF Sound
<1>1. lt \in Seq(LayerShape) /\ Len(lt) = Len(ls) + 1 /\ lt[Len(ls) + 1] = x /\ \A n \in 1..Len(ls) : lt[n] = ls[n]
  BY <1>0
<1> HIDE DEF lt
<1>2. ASSUME NEW n \in 1..Len(lt)
      PROVE  lt[n].parent \in 0..(n - 1) /\ (lt[n].parent # NoLayer => lt[lt[n].parent].frozen)
  <2>1. CASE n = Len(ls) + 1
    BY <2>1, <1>0, <1>1
  <2>2. CASE n \in 1..Len(ls)
    <3>1. lt[n] = ls[n] /\ ls[n].parent \in 0..(n - 1) /\ (ls[n].parent # NoLayer => ls[ls[n].parent].frozen)
      BY <2>2, <1>1 DEF Sound, Tree
    <3>2. ls[n].parent # NoLayer => ls[n].parent \in 1..Len(ls)
      BY <3>1, <2>2, <1>0 DEF NoLayer
    <3> QED BY <3>1, <3>2, <1>1
  <2> QED BY <2>1, <2>2, <1>0, <1>1
<1>3. Sound(lt)
  BY <1>1, <1>2 DEF Sound, Tree
<1> QED BY <1>1, <1>3 DEF lt

\* lt is ls with another layer at l.
Replaces(ls, lt, l, x) ==
    /\ lt \in Seq(LayerShape) /\ Len(lt) = Len(ls)
    /\ lt[l] = x /\ \A n \in 1..Len(ls) : n # l => lt[n] = ls[n]

\* EXCEPT replaces one layer.
LEMMA ReplaceLayer ==
    ASSUME NEW ls \in Seq(LayerShape), NEW l \in 1..Len(ls), NEW x \in LayerShape
    PROVE  Replaces(ls, [ls EXCEPT ![l] = x], l, x)
BY DEF Replaces

\* A layer with other rows, writes or flags, frozen if it was.
LEMMA ChangeLayer ==
    ASSUME NEW ls, Sound(ls), NEW l \in 1..Len(ls), NEW x, x.parent = ls[l].parent, ls[l].frozen => x.frozen,
           NEW lt, Replaces(ls, lt, l, x)
    PROVE  Sound(lt)
<1>0. Len(ls) \in Nat
  BY DEF Sound
<1>1. lt \in Seq(LayerShape) /\ Len(lt) = Len(ls) /\ lt[l] = x /\ \A n \in 1..Len(ls) : n # l => lt[n] = ls[n]
  BY DEF Replaces
<1>2. \A n \in 1..Len(ls) : lt[n].parent = ls[n].parent /\ (ls[n].frozen => lt[n].frozen)
  BY <1>1
<1>3. ASSUME NEW n \in 1..Len(ls)
      PROVE  lt[n].parent \in 0..(n - 1) /\ (lt[n].parent # NoLayer => lt[lt[n].parent].frozen)
  <2>1. ls[n].parent \in 0..(n - 1) /\ (ls[n].parent # NoLayer => ls[ls[n].parent].frozen)
    BY DEF Sound, Tree
  <2>2. ls[n].parent # NoLayer => ls[n].parent \in 1..Len(ls)
    BY <2>1, <1>0 DEF NoLayer
  <2> QED BY <2>1, <2>2, <1>2
<1> QED BY <1>1, <1>3 DEF Sound, Tree

\* A frozen layer keeps its place, rows and writes; if nothing derives from it, its trees
\* are detached.
LEMMA FreezeLayer ==
    ASSUME NEW ls, Sound(ls), NEW l \in 1..Len(ls)
    PROVE  /\ Sound(Freeze(ls, l)) /\ Len(Freeze(ls, l)) = Len(ls)
           /\ \A n \in 1..Len(ls) : n # l => Freeze(ls, l)[n] = ls[n]
           /\ Freeze(ls, l)[l].parent = ls[l].parent /\ Freeze(ls, l)[l].rows = ls[l].rows
           /\ Freeze(ls, l)[l].writes = ls[l].writes
           /\ Freeze(ls, l)[l].frozen
           /\ ~HasDerivedChildren(ls, l) => ~Freeze(ls, l)[l].linked
<1> DEFINE x == [ls[l] EXCEPT !.frozen = TRUE, !.linked = @ /\ HasDerivedChildren(ls, l)]
           lt == Freeze(ls, l)
<1>1. ls[l] \in LayerShape /\ ls \in Seq(LayerShape) /\ l \in DOMAIN ls
  BY SoundFacts DEF Sound
<1>2. /\ x \in LayerShape /\ x.parent = ls[l].parent /\ x.rows = ls[l].rows /\ x.writes = ls[l].writes /\ x.frozen
      /\ ~HasDerivedChildren(ls, l) => ~x.linked
  BY Zenon, <1>1 DEF LayerShape, HasDerivedChildren
<1>3. lt = [ls EXCEPT ![l] = x]
  BY Zenon, <1>1 DEF Freeze
<1> HIDE DEF x, lt
<1>4. Replaces(ls, lt, l, x)
  BY Zenon, <1>1, <1>2, <1>3, ReplaceLayer
<1>5. Sound(lt)
  BY <1>2, <1>4, ChangeLayer
<1>6. Len(lt) = Len(ls) /\ lt[l] = x /\ \A n \in 1..Len(ls) : n # l => lt[n] = ls[n]
  BY Zenon, <1>4 DEF Replaces
<1> QED BY <1>2, <1>5, <1>6 DEF lt

\* A layer that takes a log of changes.
LEMMA RecordLayer ==
    ASSUME NEW ls, Sound(ls), NEW l \in 1..Len(ls), NEW log \in Seq(Change)
    PROVE  /\ Record(ls[l], log) \in LayerShape
           /\ \A lt : Replaces(ls, lt, l, Record(ls[l], log)) =>
                /\ Sound(lt) /\ Len(lt) = Len(ls) /\ \A n \in 1..Len(ls) : n # l => lt[n] = ls[n]
                /\ lt[l].parent = ls[l].parent /\ lt[l].frozen = ls[l].frozen
                /\ lt[l].writes = ls[l].writes \o log /\ lt[l].rows = Apply(ls[l].rows, log)
<1> DEFINE x == Record(ls[l], log)
<1>1. ls[l] \in LayerShape /\ ls[l].writes \in Seq(Change) /\ ls[l].rows \in Table
  BY SoundFacts DEF Logged
<1>2. Apply(ls[l].rows, log) \in Table /\ ls[l].writes \o log \in Seq(Change)
  BY <1>1, ApplyType
<1>3. /\ x \in LayerShape /\ x.parent = ls[l].parent /\ x.frozen = ls[l].frozen
      /\ x.writes = ls[l].writes \o log /\ x.rows = Apply(ls[l].rows, log)
  BY Zenon, <1>1, <1>2 DEF LayerShape, Record
<1> HIDE DEF x
<1>4. ASSUME NEW lt, Replaces(ls, lt, l, x)
      PROVE  /\ Sound(lt) /\ Len(lt) = Len(ls) /\ \A n \in 1..Len(ls) : n # l => lt[n] = ls[n]
             /\ lt[l].parent = ls[l].parent /\ lt[l].frozen = ls[l].frozen
             /\ lt[l].writes = ls[l].writes \o log /\ lt[l].rows = Apply(ls[l].rows, log)
  <2>1. Sound(lt)
    BY Zenon, <1>3, <1>4, ChangeLayer
  <2> QED BY <1>3, <1>4, <2>1 DEF Replaces
<1> QED BY <1>3, <1>4 DEF x

-----------------------------------------------------------------------------
\* Connections.

EntryShape(n) == [snapshot : 0..n, readLayer : 1..n, readSnapshot : 0..n]
ConnShape(n) ==
    [readLayer : 1..n, pending : 0..n, explicit : BOOLEAN, savepoints : Seq(EntryShape(n)), readSnapshot : 0..n]

\* All variables have their shapes, and layers refer to layers that exist.
Shapes ==
    /\ Sound(layers) /\ head \in 1..Len(layers)
    /\ registered \subseteq Conns
    /\ conn \in [Conns -> ConnShape(Len(layers))]
    /\ phase \in {"idle", "body", "closing"} /\ todo \subseteq registered
    /\ driver \in Drivers /\ depth \in 0..driver.maxDepth /\ written \in 0..MaxWrites
    /\ promised \in Table /\ replica \in Table
    /\ start \in [Conns -> Table] /\ changes \in [Conns -> Seq(Change)] /\ saved \in [Conns -> Seq(Seq(Change))]

\* Inside a transaction every connection has the engine's savepoints; outside there are none.
Lockstep ==
    /\ phase = "body" => \A c \in registered : Len(conn[c].savepoints) = depth /\ Len(saved[c]) = depth
    /\ phase = "idle" => depth = 0

\* The layers a connection reads, or would return to, take no more writes.
Fixed(ls, r) ==
    /\ ls[r.readLayer].frozen
    /\ \A i \in 1..Len(r.savepoints) :
        /\ ls[r.savepoints[i].readLayer].frozen
        /\ r.savepoints[i].snapshot # NoLayer => ls[r.savepoints[i].snapshot].frozen

\* Readers share only frozen layers; a pending layer is not frozen and has one owner.
Private ==
    /\ layers[head].frozen /\ ~layers[head].linked
    /\ \A c \in Conns : Fixed(layers, conn[c])
    /\ \A c \in Conns : conn[c].pending # NoLayer => ~layers[conn[c].pending].frozen
    /\ \A c, b \in Conns : c # b /\ conn[c].pending # NoLayer => conn[c].pending # conn[b].pending

\* References stay valid when layers are added.
LEMMA ConnGrows ==
    ASSUME NEW n \in Nat, NEW m \in Nat, n <= m, NEW r \in ConnShape(n)
    PROVE  r \in ConnShape(m)
<1>1. 0..n \subseteq 0..m /\ 1..n \subseteq 1..m
  OBVIOUS
<1>2. EntryShape(n) \subseteq EntryShape(m)
  BY <1>1 DEF EntryShape
<1>3. r.savepoints \in Seq(EntryShape(n))
  BY DEF ConnShape
<1>4. r.savepoints \in Seq(EntryShape(m))
  <2>1. \A i \in 1..Len(r.savepoints) : r.savepoints[i] \in EntryShape(m)
    BY <1>2, <1>3
  <2> HIDE DEF EntryShape
  <2> QED BY <1>3, <2>1
<1> QED BY <1>1, <1>4 DEF ConnShape

\* A connection outside a transaction, reading a frozen layer.
LEMMA ConnectionShape ==
    ASSUME NEW n \in Nat, NEW h \in 1..n, NEW ls, ls[h].frozen
    PROVE  /\ Connection(h) \in ConnShape(n) /\ Connection(h).pending = NoLayer
           /\ Fixed(ls, Connection(h)) /\ Connection(h).readLayer = h /\ Connection(h).readSnapshot = NoLayer
<1>1. <<>> \in Seq(EntryShape(n)) /\ Len(<<>>) = 0
  OBVIOUS
<1>2. Connection(h) \in ConnShape(n) /\ Connection(h).pending = NoLayer /\ Connection(h).readLayer = h
      /\ Connection(h).savepoints = <<>> /\ Connection(h).readSnapshot = NoLayer
  BY <1>1 DEF Connection, ConnShape, NoLayer
<1> QED BY <1>1, <1>2 DEF Fixed

\* begin, with the savepoints the engine has: the view does not change.
LEMMA BegunShape ==
    ASSUME NEW n \in Nat, NEW r \in ConnShape(n), NEW ls, Fixed(ls, r), depth \in Nat
    PROVE  /\ Begun(r) \in ConnShape(n) /\ Len(Begun(r).savepoints) = depth /\ Fixed(ls, Begun(r))
           /\ Begun(r).pending = r.pending /\ Begun(r).readLayer = r.readLayer
           /\ Begun(r).readSnapshot = r.readSnapshot /\ Begun(r).explicit
           /\ \A i \in 1..depth : Begun(r).savepoints[i] =
                [snapshot |-> NoLayer, readLayer |-> r.readLayer, readSnapshot |-> r.readSnapshot]
<1> DEFINE e == [snapshot |-> NoLayer, readLayer |-> r.readLayer, readSnapshot |-> r.readSnapshot]
           es == [i \in 1..depth |-> e]
<1>1. e \in EntryShape(n)
  BY DEF EntryShape, ConnShape, NoLayer
<1>2. es \in Seq(EntryShape(n)) /\ Len(es) = depth /\ \A i \in 1..depth : es[i] = e
  <2> HIDE DEF e
  <2> QED BY <1>1
<1>3. Begun(r) = [r EXCEPT !.explicit = TRUE, !.savepoints = es]
  BY DEF Begun
<1> HIDE DEF es
<1>4. /\ Begun(r) \in ConnShape(n) /\ Begun(r).savepoints = es
      /\ Begun(r).pending = r.pending /\ Begun(r).readLayer = r.readLayer
      /\ Begun(r).readSnapshot = r.readSnapshot /\ Begun(r).explicit
  BY Zenon, <1>2, <1>3 DEF ConnShape
<1>5. e.snapshot = NoLayer /\ e.readLayer = r.readLayer
  OBVIOUS
<1> HIDE DEF e
<1>6. Fixed(ls, Begun(r))
  BY <1>2, <1>4, <1>5 DEF Fixed
<1> QED BY <1>2, <1>4, <1>6 DEF e

\* createSavepoint: nothing pending is left, and the savepoint points to the view.
LEMMA SavepointShape ==
    ASSUME NEW n \in Nat, NEW r \in ConnShape(n), NEW ls, Fixed(ls, r), r.pending # NoLayer => ls[r.pending].frozen
    PROVE  /\ SavepointCreated(r) \in ConnShape(n) /\ SavepointCreated(r).pending = NoLayer
           /\ Fixed(ls, SavepointCreated(r)) /\ SavepointCreated(r).explicit
           /\ SavepointCreated(r).savepoints = Append(r.savepoints,
                [snapshot |-> r.pending, readLayer |-> r.readLayer, readSnapshot |-> r.readSnapshot])
           /\ SavepointCreated(r).readLayer = IF r.pending = NoLayer THEN r.readLayer ELSE r.pending
           /\ SavepointCreated(r).readSnapshot = IF r.pending = NoLayer THEN r.readSnapshot ELSE r.pending
<1> DEFINE e == [snapshot |-> r.pending, readLayer |-> r.readLayer, readSnapshot |-> r.readSnapshot]
           es == Append(r.savepoints, e)
<1>0. r.savepoints \in Seq(EntryShape(n)) /\ r.pending \in 0..n /\ r.readLayer \in 1..n /\ r.readSnapshot \in 0..n
  BY DEF ConnShape
<1>1. e \in EntryShape(n) /\ e.snapshot = r.pending /\ e.readLayer = r.readLayer
  BY <1>0 DEF EntryShape
<1> HIDE DEF e
<1>2. es \in Seq(EntryShape(n)) /\ Len(es) = Len(r.savepoints) + 1 /\ es[Len(r.savepoints) + 1] = e
      /\ (\A i \in 1..Len(r.savepoints) : es[i] = r.savepoints[i]) /\ Len(r.savepoints) \in Nat
  BY <1>0, <1>1
<1>3. SavepointCreated(r) = IF r.pending = NoLayer THEN [r EXCEPT !.explicit = TRUE, !.savepoints = es]
        ELSE [r EXCEPT !.explicit = TRUE, !.savepoints = es, !.readLayer = r.pending, !.pending = NoLayer,
                       !.readSnapshot = r.pending]
  BY DEF SavepointCreated, ConnShape, e
<1> HIDE DEF es
<1>4. r.pending # NoLayer => r.pending \in 1..n
  BY <1>0 DEF NoLayer
<1>5. /\ SavepointCreated(r) \in ConnShape(n) /\ SavepointCreated(r).pending = NoLayer
      /\ SavepointCreated(r).explicit /\ SavepointCreated(r).savepoints = es
      /\ SavepointCreated(r).readLayer = IF r.pending = NoLayer THEN r.readLayer ELSE r.pending
      /\ SavepointCreated(r).readSnapshot = IF r.pending = NoLayer THEN r.readSnapshot ELSE r.pending
  <2>1. CASE r.pending = NoLayer
    BY Zenon, <2>1, <1>2, <1>3 DEF ConnShape
  <2>2. CASE r.pending # NoLayer
    <3> DEFINE t == [readLayer |-> r.pending, pending |-> NoLayer, explicit |-> TRUE, savepoints |-> es,
                     readSnapshot |-> r.pending]
    <3>1. SavepointCreated(r) = t
      BY Zenon, <2>2, <1>3 DEF ConnShape
    <3>2. NoLayer \in 0..n
      BY DEF NoLayer
    <3>3. t \in ConnShape(n)
      BY Zenon, <3>2, <2>2, <1>0, <1>2, <1>4 DEF ConnShape
    <3> QED BY <3>1, <3>3, <2>2
  <2> QED BY <2>1, <2>2
<1>6. ASSUME NEW i \in 1..Len(es)
      PROVE  ls[es[i].readLayer].frozen /\ (es[i].snapshot # NoLayer => ls[es[i].snapshot].frozen)
  <2>1. CASE i = Len(r.savepoints) + 1
    BY <2>1, <1>1, <1>2 DEF Fixed
  <2>2. CASE i \in 1..Len(r.savepoints)
    BY <2>2, <1>2 DEF Fixed
  <2> QED BY <2>1, <2>2, <1>2
<1>7. Fixed(ls, SavepointCreated(r))
  BY <1>5, <1>6 DEF Fixed
<1> QED BY <1>5, <1>7 DEF es, e

\* releaseSavepoint: only the savepoints from d on go.
LEMMA ReleasedShape ==
    ASSUME NEW n \in Nat, NEW r \in ConnShape(n), NEW ls, Fixed(ls, r), NEW d \in Nat, d < Len(r.savepoints)
    PROVE  /\ SavepointReleased(r, d) \in ConnShape(n) /\ Len(SavepointReleased(r, d).savepoints) = d
           /\ Fixed(ls, SavepointReleased(r, d)) /\ SavepointReleased(r, d).pending = r.pending
           /\ SavepointReleased(r, d).readLayer = r.readLayer
           /\ SavepointReleased(r, d).readSnapshot = r.readSnapshot
           /\ SavepointReleased(r, d).explicit = r.explicit
           /\ \A i \in 1..d : SavepointReleased(r, d).savepoints[i] = r.savepoints[i]
<1> DEFINE es == SubSeq(r.savepoints, 1, d)
<1>0. r.savepoints \in Seq(EntryShape(n))
  BY DEF ConnShape
<1>1. es \in Seq(EntryShape(n)) /\ Len(es) = d /\ \A i \in 1..d : es[i] = r.savepoints[i] /\ i \in 1..Len(r.savepoints)
  BY <1>0
<1>2. SavepointReleased(r, d) = [r EXCEPT !.savepoints = es]
  BY DEF SavepointReleased
<1> HIDE DEF es
<1>3. /\ SavepointReleased(r, d) \in ConnShape(n) /\ SavepointReleased(r, d).savepoints = es
      /\ SavepointReleased(r, d).pending = r.pending /\ SavepointReleased(r, d).readLayer = r.readLayer
      /\ SavepointReleased(r, d).readSnapshot = r.readSnapshot /\ SavepointReleased(r, d).explicit = r.explicit
  BY <1>1, <1>2 DEF ConnShape
<1>4. Fixed(ls, SavepointReleased(r, d))
  BY <1>1, <1>3 DEF Fixed
<1> QED BY <1>1, <1>3, <1>4

\* rollbackToSavepoint: the view the savepoint points to.
LEMMA RolledBackToShape ==
    ASSUME NEW n \in Nat, NEW r \in ConnShape(n), NEW ls, Fixed(ls, r), NEW d \in Nat, d < Len(r.savepoints)
    PROVE  /\ RolledBackTo(r, d) \in ConnShape(n) /\ Len(RolledBackTo(r, d).savepoints) = d + 1
           /\ Fixed(ls, RolledBackTo(r, d)) /\ RolledBackTo(r, d).pending = NoLayer
           /\ RolledBackTo(r, d).explicit = r.explicit
           /\ \A i \in 1..(d + 1) : RolledBackTo(r, d).savepoints[i] = r.savepoints[i]
           /\ RolledBackTo(r, d).readLayer = (IF r.savepoints[d + 1].snapshot = NoLayer
                 THEN r.savepoints[d + 1].readLayer ELSE r.savepoints[d + 1].snapshot)
           /\ RolledBackTo(r, d).readSnapshot = (IF r.savepoints[d + 1].snapshot = NoLayer
                 THEN r.savepoints[d + 1].readSnapshot ELSE r.savepoints[d + 1].snapshot)
<1> DEFINE es == SubSeq(r.savepoints, 1, d + 1)
           e == r.savepoints[d + 1]
           rl == IF e.snapshot = NoLayer THEN e.readLayer ELSE e.snapshot
           rs == IF e.snapshot = NoLayer THEN e.readSnapshot ELSE e.snapshot
<1>0. r.savepoints \in Seq(EntryShape(n)) /\ Len(r.savepoints) \in Nat /\ d + 1 \in 1..Len(r.savepoints)
  BY DEF ConnShape
<1>1. es \in Seq(EntryShape(n)) /\ Len(es) = d + 1
      /\ \A i \in 1..(d + 1) : es[i] = r.savepoints[i] /\ i \in 1..Len(r.savepoints)
  BY <1>0
<1>2. e \in EntryShape(n)
  BY <1>0
<1>3. RolledBackTo(r, d) = [r EXCEPT !.readLayer = rl, !.readSnapshot = rs, !.pending = NoLayer, !.savepoints = es]
  BY DEF RolledBackTo
<1>4. ls[rl].frozen
  BY <1>0 DEF Fixed
<1> HIDE DEF e
<1>5. rl \in 1..n /\ rs \in 0..n
  BY <1>2 DEF EntryShape, NoLayer
<1> HIDE DEF es, rl, rs
<1>6. /\ RolledBackTo(r, d) \in ConnShape(n) /\ RolledBackTo(r, d).savepoints = es
      /\ RolledBackTo(r, d).pending = NoLayer /\ RolledBackTo(r, d).readLayer = rl
      /\ RolledBackTo(r, d).readSnapshot = rs /\ RolledBackTo(r, d).explicit = r.explicit
  <2> DEFINE t == [readLayer |-> rl, pending |-> NoLayer, explicit |-> r.explicit, savepoints |-> es,
                   readSnapshot |-> rs]
  <2>1. RolledBackTo(r, d) = t
    BY Zenon, <1>3 DEF ConnShape
  <2>2. NoLayer \in 0..n
    BY DEF NoLayer
  <2>3. t \in ConnShape(n)
    BY Zenon, <2>2, <1>1, <1>5 DEF ConnShape
  <2> QED BY <2>1, <2>3
<1>7. Fixed(ls, RolledBackTo(r, d))
  BY Zenon, <1>1, <1>4, <1>6 DEF Fixed
<1> QED BY <1>1, <1>6, <1>7 DEF rl, rs, e

\* Layers are only added, only p changes, and frozen layers stay frozen.
Advanced(ls, lt, p) ==
    /\ Len(ls) <= Len(lt)
    /\ \A n \in 1..Len(ls) :
        /\ n # p => lt[n] = ls[n]
        /\ lt[n].parent = ls[n].parent
        /\ ls[n].frozen => lt[n].frozen

\* What a connection shares stays frozen.
LEMMA FixedKept ==
    ASSUME NEW ls, NEW lt, NEW r \in ConnShape(Len(ls)), Fixed(ls, r),
           \A n \in 1..Len(ls) : ls[n].frozen => lt[n].frozen
    PROVE  Fixed(lt, r)
<1>1. r.readLayer \in 1..Len(ls) /\ r.savepoints \in Seq(EntryShape(Len(ls)))
  BY DEF ConnShape
<1>2. ASSUME NEW i \in 1..Len(r.savepoints)
      PROVE  /\ lt[r.savepoints[i].readLayer].frozen
             /\ r.savepoints[i].snapshot # NoLayer => lt[r.savepoints[i].snapshot].frozen
  <2>1. r.savepoints[i] \in EntryShape(Len(ls))
    BY <1>1
  <2>2. r.savepoints[i].readLayer \in 1..Len(ls) /\ r.savepoints[i].snapshot \in 0..Len(ls)
    BY <2>1 DEF EntryShape
  <2>3. r.savepoints[i].snapshot # NoLayer => r.savepoints[i].snapshot \in 1..Len(ls)
    BY <2>2 DEF NoLayer
  <2> QED BY Zenon, <2>2, <2>3 DEF Fixed
<1> QED BY <1>1, <1>2 DEF Fixed

\* Nothing derives from a layer that is not frozen.
LEMMA OpenHasNoChildren ==
    ASSUME NEW ls, Sound(ls), NEW l \in 1..Len(ls), ~ls[l].frozen
    PROVE  ~HasDerivedChildren(ls, l) /\ \A m \in 1..Len(ls) : ls[m].parent # l
<1>1. DOMAIN ls = 1..Len(ls) /\ l # NoLayer
  BY SoundFacts DEF NoLayer
<1>2. \A m \in 1..Len(ls) : ls[m].parent # l
  BY <1>1 DEF Sound
<1> QED BY <1>1, <1>2 DEF HasDerivedChildren

\* A new layer over a frozen one.
LEMMA MadeOver ==
    ASSUME NEW ls, Sound(ls), NEW p \in 1..Len(ls), ls[p].frozen
    PROVE  LET lt == Append(ls, NewLayer(ls, p)) IN
           /\ Sound(lt) /\ Len(lt) = Len(ls) + 1 /\ \A n \in 1..Len(ls) : lt[n] = ls[n]
           /\ lt[Len(ls) + 1].parent = p /\ lt[Len(ls) + 1].writes = <<>>
           /\ lt[Len(ls) + 1].rows = ls[p].rows /\ ~lt[Len(ls) + 1].frozen
<1> DEFINE x == NewLayer(ls, p)
<1>1. ls[p].rows \in Table /\ <<>> \in Seq(Change) /\ p \in Nat
  BY SoundFacts
<1>2. x \in LayerShape /\ x.parent = p /\ x.writes = <<>> /\ x.rows = ls[p].rows /\ ~x.frozen
  BY <1>1 DEF NewLayer, LayerShape
<1> HIDE DEF x
<1>3. /\ Sound(Append(ls, x)) /\ Len(Append(ls, x)) = Len(ls) + 1 /\ Append(ls, x)[Len(ls) + 1] = x
      /\ \A n \in 1..Len(ls) : Append(ls, x)[n] = ls[n]
  BY ZenonT(30), <1>2, AddLayer
<1> QED BY <1>2, <1>3 DEF x

\* The layer a commit publishes is the pending one, or a new one around the read layer.
LEMMA ToPublishFacts ==
    ASSUME Shapes, Private, NEW c \in Conns
    PROVE  LET P == ToPublish(conn[c])
               wraps == conn[c].pending = NoLayer /\ conn[c].readLayer # head
                            /\ head \in Chain(layers, conn[c].readLayer)
           IN  /\ Sound(P.ls) /\ P.l \in 0..Len(P.ls)
               /\ Len(layers) <= Len(P.ls) /\ \A n \in 1..Len(layers) : P.ls[n] = layers[n]
               /\ P.l # NoLayer => ~P.ls[P.l].frozen
               /\ wraps => /\ P.l = Len(layers) + 1 /\ Len(P.ls) = Len(layers) + 1
                           /\ P.ls[P.l].parent = conn[c].readLayer /\ P.ls[P.l].writes = <<>>
                           /\ P.ls[P.l].rows = layers[conn[c].readLayer].rows
               /\ ~wraps => P.l = conn[c].pending /\ P.ls = layers
<1> DEFINE P == ToPublish(conn[c])
           wraps == conn[c].pending = NoLayer /\ conn[c].readLayer # head
                        /\ head \in Chain(layers, conn[c].readLayer)
           lt == Append(layers, NewLayer(layers, conn[c].readLayer))
<1>0. Len(layers) \in Nat /\ Sound(layers) /\ conn[c] \in ConnShape(Len(layers))
  BY Zenon, SoundFacts DEF Shapes
<1>1. conn[c].readLayer \in 1..Len(layers) /\ conn[c].pending \in 0..Len(layers) /\ layers[conn[c].readLayer].frozen
  BY Zenon, <1>0 DEF ConnShape, Private, Fixed
<1>2. CASE wraps
  <2>1. P.ls = lt /\ P.l = Len(layers) + 1
    BY <1>2 DEF ToPublish
  <2>2. /\ Sound(lt) /\ Len(lt) = Len(layers) + 1 /\ \A n \in 1..Len(layers) : lt[n] = layers[n]
        /\ lt[Len(layers) + 1].parent = conn[c].readLayer /\ lt[Len(layers) + 1].writes = <<>>
        /\ lt[Len(layers) + 1].rows = layers[conn[c].readLayer].rows /\ ~lt[Len(layers) + 1].frozen
    BY <1>0, <1>1, MadeOver
  <2>3. Len(layers) + 1 \in 0..(Len(layers) + 1) /\ Len(layers) <= Len(layers) + 1
    BY <1>0
  <2> HIDE DEF P, lt
  <2> QED BY <1>2, <2>1, <2>2, <2>3 DEF P
<1>3. CASE ~wraps
  <2>1. P.ls = layers /\ P.l = conn[c].pending
    BY <1>3 DEF ToPublish
  <2>2. conn[c].pending # NoLayer => ~layers[conn[c].pending].frozen
    BY DEF Private
  <2>3. Len(layers) <= Len(layers)
    BY <1>0
  <2> HIDE DEF P
  <2> QED BY Zenon, <1>0, <1>1, <1>3, <2>1, <2>2, <2>3 DEF P
<1> QED BY <1>2, <1>3

\* A published layer is the frozen and detached head; a rebase puts a new one over the head.
LEMMA PublishFacts ==
    ASSUME NEW ls, Sound(ls), head \in 1..Len(ls), ls[head].frozen, NEW l \in 1..Len(ls), ~ls[l].frozen
    PROVE  LET out == Publish(ls, l) IN
           /\ Sound(out.ls) /\ Advanced(ls, out.ls, l) /\ out.head \in 1..Len(out.ls)
           /\ out.ls[out.head].frozen /\ ~out.ls[out.head].linked /\ out.events \in Seq(Change)
           /\ out.ls[l].rows = ls[l].rows /\ out.ls[l].writes = ls[l].writes
<1> DEFINE out == Publish(ls, l)
           fork == Newest(Chain(ls, ls[l].parent) \cap Chain(ls, head))
           log == WritesAbove(ls, l, fork)
           x == Rebased(ls, l, fork)
<1>0. Len(ls) \in Nat /\ Tree(ls) /\ Logged(ls) /\ ls[head] \in LayerShape /\ ls[head].rows \in Table /\ l \in 0..Len(ls)
  BY SoundFacts
<1>1. CASE head \in Chain(ls, l)
  <2>1. out.ls = Freeze(ls, l) /\ out.head = l /\ out.events = WritesAbove(ls, l, head)
    BY <1>1 DEF Publish
  <2>2. WritesAbove(ls, l, head) \in Seq(Change)
    BY Zenon, <1>0, WritesWalk
  <2>3. /\ Sound(Freeze(ls, l)) /\ Len(Freeze(ls, l)) = Len(ls)
        /\ \A n \in 1..Len(ls) : n # l => Freeze(ls, l)[n] = ls[n]
        /\ Freeze(ls, l)[l].parent = ls[l].parent /\ Freeze(ls, l)[l].rows = ls[l].rows
        /\ Freeze(ls, l)[l].writes = ls[l].writes
        /\ Freeze(ls, l)[l].frozen /\ ~Freeze(ls, l)[l].linked
    BY Zenon, FreezeLayer, OpenHasNoChildren
  <2>4. Len(ls) <= Len(ls)
    BY <1>0
  <2>5. Advanced(ls, Freeze(ls, l), l)
    BY <2>3, <2>4 DEF Advanced
  <2> HIDE DEF out
  <2> QED BY Zenon, <2>1, <2>2, <2>3, <2>5 DEF out
<1>2. CASE head \notin Chain(ls, l)
  <2>1. out.ls = Append(ls, x) /\ out.head = Len(ls) + 1 /\ out.events = log
    BY <1>2 DEF Publish
  <2>2. log \in Seq(Change)
    BY Zenon, <1>0, WritesWalk
  <2>3. Apply(ls[head].rows, log) \in Table /\ Recorded(ls[head].rows, log) \in Seq(Change)
    <3> HIDE DEF log
    <3> QED BY <1>0, <2>2, ApplyType, RecordedType
  <2>4. x = [parent |-> head, writes |-> Recorded(ls[head].rows, log), rows |-> Apply(ls[head].rows, log),
             frozen |-> TRUE, linked |-> FALSE]
    <3> DEFINE y == NewLayer(ls, head)
    <3>1. y = [parent |-> head, writes |-> <<>>, rows |-> ls[head].rows, frozen |-> FALSE, linked |-> TRUE]
      BY DEF NewLayer
    <3>2. x = [y EXCEPT !.rows = Apply(y.rows, log), !.writes = Recorded(ls[head].rows, log),
                        !.frozen = TRUE, !.linked = FALSE]
      BY Zenon DEF Rebased
    <3> HIDE DEF y, log, x
    <3> QED BY Zenon, <3>1, <3>2
  <2> HIDE DEF log, x
  <2>5. x \in LayerShape /\ x.parent = head /\ x.frozen /\ ~x.linked
    BY <2>3, <2>4 DEF LayerShape
  <2>6. /\ Sound(Append(ls, x)) /\ Len(Append(ls, x)) = Len(ls) + 1 /\ Append(ls, x)[Len(ls) + 1] = x
        /\ \A n \in 1..Len(ls) : Append(ls, x)[n] = ls[n]
    BY <2>5, AddLayer
  <2>7. Len(ls) <= Len(ls) + 1 /\ Len(ls) + 1 \in 1..(Len(ls) + 1)
    BY <1>0
  <2>8. Advanced(ls, Append(ls, x), l)
    BY Zenon, <2>6, <2>7 DEF Advanced
  <2> HIDE DEF out
  <2> QED BY Zenon, <2>1, <2>2, <2>5, <2>6, <2>7, <2>8 DEF out
<1> QED BY <1>1, <1>2

\* A commit leaves a sound tree, touches no layer but its own, and its head is frozen.
LEMMA CommitFacts ==
    ASSUME Shapes, Private, NEW c \in Conns
    PROVE  LET out == CommitTransaction(conn[c]) IN
           /\ Sound(out.ls) /\ Advanced(layers, out.ls, conn[c].pending) /\ out.head \in 1..Len(out.ls)
           /\ out.ls[out.head].frozen /\ ~out.ls[out.head].linked /\ out.events \in Seq(Change)
<1> DEFINE out == CommitTransaction(conn[c])
           P == ToPublish(conn[c])
<1>0. Sound(layers) /\ Len(layers) \in Nat /\ head \in 1..Len(layers) /\ layers[head].frozen /\ ~layers[head].linked
  BY Zenon, SoundFacts DEF Shapes, Private
<1>1. /\ Sound(P.ls) /\ P.l \in 0..Len(P.ls)
      /\ Len(layers) <= Len(P.ls) /\ \A n \in 1..Len(layers) : P.ls[n] = layers[n]
      /\ P.l # NoLayer => ~P.ls[P.l].frozen
      /\ (P.l = conn[c].pending /\ P.ls = layers) \/ P.l = Len(layers) + 1
  BY Zenon, ToPublishFacts
<1>2. CASE P.l = NoLayer
  <2>1. out.ls = layers /\ out.head = head /\ out.events = <<>>
    BY <1>2 DEF CommitTransaction
  <2>2. Advanced(layers, layers, conn[c].pending) /\ <<>> \in Seq(Change)
    BY <1>0 DEF Advanced
  <2> HIDE DEF out
  <2> QED BY <1>0, <2>1, <2>2 DEF out
<1>3. CASE P.l # NoLayer
  <2>1. out = Publish(P.ls, P.l)
    BY <1>3 DEF CommitTransaction
  <2> HIDE DEF out, P
  <2>2. P.l \in 1..Len(P.ls) /\ head \in 1..Len(P.ls) /\ P.ls[head].frozen /\ Len(P.ls) \in Nat
    BY <1>0, <1>1, <1>3, SoundFacts DEF NoLayer
  <2>3. /\ Sound(out.ls) /\ Advanced(P.ls, out.ls, P.l) /\ out.head \in 1..Len(out.ls)
        /\ out.ls[out.head].frozen /\ ~out.ls[out.head].linked /\ out.events \in Seq(Change)
    BY Zenon, <1>1, <1>3, <2>1, <2>2, PublishFacts
  <2>4. Advanced(layers, out.ls, conn[c].pending)
    <3>0. Len(out.ls) \in Nat
      BY Zenon, <2>3, SoundFacts
    <3>1. Len(layers) <= Len(out.ls)
      BY <2>3, <3>0, <1>0, <1>1, <2>2 DEF Advanced
    <3>2. ASSUME NEW n \in 1..Len(layers)
          PROVE  /\ n # conn[c].pending => out.ls[n] = layers[n]
                 /\ out.ls[n].parent = layers[n].parent
                 /\ layers[n].frozen => out.ls[n].frozen
      <4>1. n \in 1..Len(P.ls) /\ P.ls[n] = layers[n]
        BY <1>0, <1>1, <2>2
      <4>2. n # conn[c].pending => n # P.l
        BY <1>0, <1>1
      <4> QED BY <4>1, <4>2, <2>3 DEF Advanced
    <3> QED BY <3>1, <3>2 DEF Advanced
  <2> QED BY <2>3, <2>4 DEF out
<1> QED BY <1>2, <1>3

-----------------------------------------------------------------------------
\* Each call keeps Safe.

Safe == Shapes /\ Lockstep /\ Private

\* Initially the base layer is all there is.
LEMMA InitSafe == Init => Safe
<1> SUFFICES ASSUME Init PROVE Safe
  OBVIOUS
<1> DEFINE x == [parent |-> NoLayer, writes |-> <<>>, rows |-> [k \in Keys |-> NoRow], frozen |-> TRUE, linked |-> FALSE]
<1>0. layers = <<x>> /\ head = Base /\ conn = [c \in Conns |-> Connection(Base)]
  BY Zenon DEF Init
<1>1. x \in LayerShape /\ x.rows \in Table
  <2>1. [k \in Keys |-> NoRow] \in Table
    BY DEF Table, Rows
  <2>2. <<>> \in Seq(Change)
    OBVIOUS
  <2> QED BY <2>1, <2>2 DEF LayerShape, NoLayer
<1>2. x.parent = NoLayer /\ x.frozen /\ ~x.linked
  OBVIOUS
<1> HIDE DEF x
<1>3. layers \in Seq(LayerShape) /\ Len(layers) = 1 /\ layers[1] = x
  BY <1>0, <1>1
<1>4. Sound(layers)
  <2>1. \A n \in 1..Len(layers) : n = 1
    BY <1>3
  <2> QED BY <2>1, <1>2, <1>3 DEF Sound, Tree, NoLayer
<1>5. \A c \in Conns : conn[c] \in ConnShape(1) /\ Fixed(layers, conn[c]) /\ conn[c].pending = NoLayer
  <2>1. ASSUME NEW c \in Conns PROVE conn[c] = Connection(1)
    BY Zenon, <1>0 DEF Base
  <2>2. 1 \in 1..1 /\ 1 \in Nat
    OBVIOUS
  <2>3. layers[1].frozen
    BY Zenon, <1>2, <1>3
  <2>4. Connection(1) \in ConnShape(1) /\ Fixed(layers, Connection(1)) /\ Connection(1).pending = NoLayer
    BY <2>2, <2>3, ConnectionShape
  <2> QED BY Zenon, <2>1, <2>4
<1>6. driver \in Drivers /\ driver.maxDepth \in Nat
  BY ConstantsAssumption DEF Init
<1>7. MaxWrites \in Nat
  BY ConstantsAssumption
<1>8. Shapes
  <2>1. promised \in Table /\ replica \in Table /\ start \in [Conns -> Table]
    BY <1>1, <1>3 DEF Init, Base
  <2>2. conn \in [Conns -> ConnShape(Len(layers))]
    BY <1>0, <1>3, <1>5
  <2>3. changes \in [Conns -> Seq(Change)] /\ saved \in [Conns -> Seq(Seq(Change))]
    BY DEF Init
  <2>4. head \in 1..Len(layers) /\ depth \in 0..driver.maxDepth /\ written \in 0..MaxWrites
    BY <1>0, <1>3, <1>6, <1>7 DEF Init, Base
  <2> QED BY Zenon, <1>4, <1>6, <2>1, <2>2, <2>3, <2>4 DEF Init, Shapes
<1>9. Lockstep
  BY DEF Init, Lockstep
<1>10. Private
  BY Zenon, <1>0, <1>2, <1>3, <1>5 DEF Private, Base
<1> QED BY <1>8, <1>9, <1>10 DEF Safe

\* Calls that make or change no layer keep pending layers private.
LEMMA SameLayers ==
    ASSUME Private, layers' = layers, head' = head,
           \A c \in Conns : Fixed(layers, conn'[c]) /\ conn'[c].pending \in {NoLayer, conn[c].pending}
    PROVE  Private'
<1>1. \A c \in Conns : Fixed(layers', conn'[c])
  BY DEF Fixed
<1>2. \A c \in Conns : conn'[c].pending # NoLayer => conn'[c].pending = conn[c].pending /\ ~layers'[conn'[c].pending].frozen
  BY DEF Private
<1>3. \A c, b \in Conns : c # b /\ conn'[c].pending # NoLayer => conn'[c].pending # conn'[b].pending
  BY DEF Private
<1>4. layers'[head'].frozen /\ ~layers'[head'].linked
  BY Zenon DEF Private
<1> QED BY Zenon, <1>1, <1>2, <1>3, <1>4 DEF Private

\* The facts every step starts from.
LEMMA SafeFacts ==
    ASSUME Safe
    PROVE  /\ Sound(layers) /\ Len(layers) \in Nat /\ DOMAIN layers = 1..Len(layers) /\ head \in 1..Len(layers)
           /\ layers[head].frozen /\ depth \in Nat /\ driver.maxDepth \in Nat /\ layers[head].rows \in Table
           /\ \A c \in Conns : /\ conn[c] \in ConnShape(Len(layers)) /\ Fixed(layers, conn[c])
                               /\ conn[c].readLayer \in 1..Len(layers) /\ layers[conn[c].readLayer].rows \in Table
                               /\ conn[c].pending \in 0..Len(layers)
                               /\ conn[c].readSnapshot \in 0..Len(layers)
                               /\ conn[c].savepoints \in Seq(EntryShape(Len(layers)))
<1>1. Sound(layers) /\ head \in 1..Len(layers) /\ layers[head].frozen
  BY DEF Safe, Shapes, Private
<1>2. Len(layers) \in Nat /\ DOMAIN layers = 1..Len(layers) /\ \A n \in 1..Len(layers) : layers[n].rows \in Table
  BY <1>1, SoundFacts
<1>3. driver \in Drivers /\ depth \in 0..driver.maxDepth
  BY DEF Safe, Shapes
<1>4. driver.maxDepth \in Nat
  BY <1>3, ConstantsAssumption
<1>5. \A c \in Conns : conn[c] \in ConnShape(Len(layers)) /\ Fixed(layers, conn[c])
  BY Zenon DEF Safe, Shapes, Private
<1>6. \A c \in Conns : /\ conn[c].readLayer \in 1..Len(layers) /\ conn[c].pending \in 0..Len(layers)
                       /\ conn[c].readSnapshot \in 0..Len(layers)
                       /\ conn[c].savepoints \in Seq(EntryShape(Len(layers)))
  BY Zenon, <1>5 DEF ConnShape
<1> QED BY <1>1, <1>2, <1>3, <1>4, <1>5, <1>6

\* Empty logs for the savepoints that are open.
LEMMA Blanks ==
    ASSUME NEW d \in Nat
    PROVE  /\ [i \in 1..d |-> <<>>] \in Seq(Seq(Change)) /\ Len([i \in 1..d |-> <<>>]) = d
           /\ \A i \in 1..d : [j \in 1..d |-> <<>>][i] = <<>>
<1>1. <<>> \in Seq(Change)
  OBVIOUS
<1> QED BY <1>1

\* A connection that registers.
LEMMA ConnectSafe == ASSUME Safe, NEW c \in Conns, Connect(c) PROVE Safe'
<1> USE SafeFacts
<1> DEFINE r == IF phase = "body" THEN Begun(Connection(head)) ELSE Connection(head)
<1>1. Connection(head) \in ConnShape(Len(layers)) /\ Fixed(layers, Connection(head)) /\ Connection(head).pending = NoLayer
  BY ConnectionShape
<1>2. Begun(Connection(head)) \in ConnShape(Len(layers)) /\ Len(Begun(Connection(head)).savepoints) = depth
      /\ Fixed(layers, Begun(Connection(head))) /\ Begun(Connection(head)).pending = NoLayer
  BY Zenon, <1>1, BegunShape
<1>3. r \in ConnShape(Len(layers)) /\ Fixed(layers, r) /\ r.pending = NoLayer /\ (phase = "body" => Len(r.savepoints) = depth)
  BY Zenon, <1>1, <1>2
<1>4. conn' = [conn EXCEPT ![c] = r] /\ layers' = layers /\ head' = head /\ registered' = registered \cup {c}
      /\ phase' = phase /\ depth' = depth
  BY Zenon DEF Connect, engine
<1> HIDE DEF r
<1> DEFINE es == [i \in 1..depth |-> <<>>]
<1>5. es \in Seq(Seq(Change)) /\ Len(es) = depth
  BY Zenon, Blanks
<1>6. saved' = [saved EXCEPT ![c] = es]
  BY Zenon DEF Connect
<1> HIDE DEF es
<1>7. Shapes'
  <2>1. conn' \in [Conns -> ConnShape(Len(layers))]
    BY Zenon, <1>3, <1>4 DEF Safe, Shapes
  <2>2. start' \in [Conns -> Table] /\ changes' \in [Conns -> Seq(Change)]
    BY DEF Safe, Shapes, Connect
  <2>3. saved' \in [Conns -> Seq(Seq(Change))]
    BY <1>5, <1>6 DEF Safe, Shapes
  <2> QED BY Zenon, <1>4, <2>1, <2>2, <2>3 DEF Safe, Shapes, Connect, engine
<1>8. Lockstep'
  <2>1. ASSUME NEW b \in registered', phase = "body" PROVE Len(conn'[b].savepoints) = depth /\ Len(saved'[b]) = depth
    <3>1. CASE b = c
      BY Zenon, <3>1, <2>1, <1>3, <1>4, <1>5, <1>6 DEF Safe, Shapes
    <3>2. CASE b # c
      BY Zenon, <3>2, <2>1, <1>4, <1>6 DEF Safe, Shapes, Lockstep
    <3> QED BY Zenon, <3>1, <3>2
  <2> QED BY Zenon, <2>1, <1>4 DEF Safe, Lockstep
<1>9. Private'
  <2>1. \A b \in Conns : Fixed(layers, conn'[b]) /\ conn'[b].pending \in {NoLayer, conn[b].pending}
    BY <1>3, <1>4 DEF Safe, Shapes
  <2> QED BY Zenon, <2>1, <1>4, SameLayers DEF Safe
<1> QED BY Zenon, <1>7, <1>8, <1>9 DEF Safe

\* A connection that is reused.
LEMMA ReuseSafe == ASSUME Safe, NEW c \in Conns, Reuse(c) PROVE Safe'
<1> USE SafeFacts
<1> DEFINE r == [conn[c] EXCEPT !.readLayer = head]
<1>1. r \in ConnShape(Len(layers)) /\ r.pending = conn[c].pending /\ r.savepoints = conn[c].savepoints /\ r.readLayer = head
  BY Zenon DEF ConnShape
<1>2. Fixed(layers, r)
  BY Zenon, <1>1 DEF Fixed
<1>3. conn' = [conn EXCEPT ![c] = r] /\ layers' = layers /\ head' = head
  BY DEF Reuse, Safe, Shapes
<1> HIDE DEF r
<1>4. Shapes'
  <2>1. conn' \in [Conns -> ConnShape(Len(layers))]
    BY <1>1, <1>3 DEF Safe, Shapes
  <2> QED BY <1>3, <2>1 DEF Safe, Shapes, Reuse, engine, ghosts
<1>5. Lockstep'
  <2>1. \A b \in Conns : conn'[b].savepoints = conn[b].savepoints
    BY Zenon, <1>1, <1>3 DEF Safe, Shapes
  <2>2. registered \subseteq Conns
    BY DEF Safe, Shapes
  <2> QED BY Zenon, <2>1, <2>2 DEF Safe, Lockstep, Reuse, engine, ghosts
<1>6. Private'
  <2>1. \A b \in Conns : Fixed(layers, conn'[b]) /\ conn'[b].pending \in {NoLayer, conn[b].pending}
    BY Zenon, <1>1, <1>2, <1>3 DEF Safe, Shapes
  <2> QED BY Zenon, <2>1, <1>3, SameLayers DEF Safe
<1> QED BY <1>4, <1>5, <1>6 DEF Safe

\* A transaction begins.
LEMMA BeginSafe == ASSUME Safe, Begin PROVE Safe'
<1> USE SafeFacts
<1>0. layers' = layers /\ head' = head /\ registered' = registered /\ depth' = depth /\ depth = 0 /\ phase' = "body"
  BY Zenon DEF Begin, Safe, Lockstep
<1>1. ASSUME NEW c \in Conns
      PROVE  /\ conn'[c] \in ConnShape(Len(layers)) /\ Fixed(layers, conn'[c]) /\ conn'[c].pending = conn[c].pending
             /\ c \in registered => Len(conn'[c].savepoints) = depth
  <2>1. conn'[c] = IF c \in registered THEN Begun(conn[c]) ELSE conn[c]
    BY DEF Begin
  <2>2. Begun(conn[c]) \in ConnShape(Len(layers)) /\ Fixed(layers, Begun(conn[c]))
        /\ Begun(conn[c]).pending = conn[c].pending /\ Len(Begun(conn[c]).savepoints) = depth
    BY Zenon, BegunShape
  <2> QED BY Zenon, <2>1, <2>2
<1>2. Shapes'
  <2>1. conn' \in [Conns -> ConnShape(Len(layers))]
    BY Zenon, <1>1 DEF Begin
  <2>2. start' \in [Conns -> Table]
    BY Zenon DEF Begin
  <2>3. changes' \in [Conns -> Seq(Change)] /\ saved' \in [Conns -> Seq(Seq(Change))]
    BY DEF Begin
  <2> QED BY Zenon, <1>0, <2>1, <2>2, <2>3 DEF Safe, Shapes, Begin
<1>3. Lockstep'
  <2>1. \A c \in Conns : saved'[c] = <<>>
    BY Zenon DEF Begin
  <2>2. registered \subseteq Conns /\ Len(<<>>) = 0
    BY Zenon DEF Safe, Shapes
  <2> QED BY Zenon, <1>0, <1>1, <2>1, <2>2 DEF Lockstep
<1>4. Private'
  BY Zenon, <1>0, <1>1, SameLayers DEF Safe
<1> QED BY ZenonT(30), <1>2, <1>3, <1>4 DEF Safe

\* A savepoint is released.
LEMMA ReleaseSafe == ASSUME Safe, NEW d \in Nat, ReleaseSavepoint(d) PROVE Safe'
<1> USE SafeFacts
<1>0. layers' = layers /\ head' = head /\ registered' = registered /\ depth' = d /\ d < depth /\ phase = "body"
      /\ phase' = "body"
  BY Zenon DEF ReleaseSavepoint
<1>1. ASSUME NEW c \in Conns
      PROVE  /\ conn'[c] \in ConnShape(Len(layers)) /\ Fixed(layers, conn'[c]) /\ conn'[c].pending = conn[c].pending
             /\ c \in registered => Len(conn'[c].savepoints) = d
  <2>1. conn'[c] = IF c \in registered THEN SavepointReleased(conn[c], d) ELSE conn[c]
    BY Zenon DEF ReleaseSavepoint
  <2>2. ASSUME c \in registered
        PROVE  /\ SavepointReleased(conn[c], d) \in ConnShape(Len(layers))
               /\ Len(SavepointReleased(conn[c], d).savepoints) = d
               /\ Fixed(layers, SavepointReleased(conn[c], d))
               /\ SavepointReleased(conn[c], d).pending = conn[c].pending
    <3>1. d < Len(conn[c].savepoints)
      BY Zenon, <2>2, <1>0 DEF Safe, Lockstep
    <3> QED BY <3>1, ReleasedShape
  <2> QED BY Zenon, <2>1, <2>2
<1>2. ASSUME NEW c \in Conns
      PROVE  saved'[c] \in Seq(Seq(Change)) /\ (c \in registered => Len(saved'[c]) = d)
  <2>1. saved'[c] = IF c \in registered THEN SubSeq(saved[c], 1, d) ELSE saved[c]
    BY Zenon DEF ReleaseSavepoint
  <2>2. saved[c] \in Seq(Seq(Change)) /\ (c \in registered => Len(saved[c]) = depth)
    BY Zenon, <1>0 DEF Safe, Shapes, Lockstep
  <2> DEFINE S == Seq(Change)
  <2> HIDE DEF S
  <2>3. saved[c] \in Seq(S)
    BY Zenon, <2>2 DEF S
  <2>4. c \in registered => SubSeq(saved[c], 1, d) \in Seq(S) /\ Len(SubSeq(saved[c], 1, d)) = d
    BY <2>2, <2>3, <1>0
  <2> QED BY Zenon, <2>1, <2>2, <2>4 DEF S
<1>3. Shapes'
  <2>1. conn' \in [Conns -> ConnShape(Len(layers))]
    BY Zenon, <1>1 DEF ReleaseSavepoint
  <2>2. saved' \in [Conns -> Seq(Seq(Change))]
    BY Zenon, <1>2 DEF ReleaseSavepoint
  <2>3. depth' \in 0..driver.maxDepth
    BY <1>0 DEF Safe, Shapes
  <2> QED BY <1>0, <2>1, <2>2, <2>3 DEF Safe, Shapes, ReleaseSavepoint
<1>4. Lockstep'
  <2>1. registered \subseteq Conns
    BY Zenon DEF Safe, Shapes
  <2> QED BY Zenon, <1>0, <1>1, <1>2, <2>1 DEF Lockstep
<1>5. Private'
  BY Zenon, <1>0, <1>1, SameLayers DEF Safe
<1> QED BY Zenon, <1>3, <1>4, <1>5 DEF Safe

\* A rollback to a savepoint.
LEMMA RollbackToSafe == ASSUME Safe, NEW d \in Nat, RollbackToSavepoint(d) PROVE Safe'
<1> USE SafeFacts
<1>0. layers' = layers /\ head' = head /\ registered' = registered /\ depth' = d + 1 /\ d < depth /\ phase = "body"
      /\ phase' = "body"
  BY Zenon DEF RollbackToSavepoint
<1>1. ASSUME NEW c \in Conns
      PROVE  /\ conn'[c] \in ConnShape(Len(layers)) /\ Fixed(layers, conn'[c])
             /\ conn'[c].pending \in {NoLayer, conn[c].pending}
             /\ c \in registered => Len(conn'[c].savepoints) = d + 1
  <2>1. conn'[c] = IF c \in registered THEN RolledBackTo(conn[c], d) ELSE conn[c]
    BY Zenon DEF RollbackToSavepoint
  <2>2. ASSUME c \in registered
        PROVE  /\ RolledBackTo(conn[c], d) \in ConnShape(Len(layers))
               /\ Len(RolledBackTo(conn[c], d).savepoints) = d + 1
               /\ Fixed(layers, RolledBackTo(conn[c], d))
               /\ RolledBackTo(conn[c], d).pending = NoLayer
    <3>1. d < Len(conn[c].savepoints)
      BY Zenon, <2>2, <1>0 DEF Safe, Lockstep
    <3> QED BY <3>1, RolledBackToShape
  <2> QED BY <2>1, <2>2
<1>2. ASSUME NEW c \in Conns
      PROVE  /\ saved'[c] \in Seq(Seq(Change)) /\ (c \in registered => Len(saved'[c]) = d + 1)
             /\ changes'[c] \in Seq(Change)
  <2>1. saved'[c] = (IF c \in registered THEN SubSeq(saved[c], 1, d + 1) ELSE saved[c])
        /\ changes'[c] = (IF c \in registered THEN saved[c][d + 1] ELSE changes[c])
    BY Zenon DEF RollbackToSavepoint
  <2>2. saved[c] \in Seq(Seq(Change)) /\ (c \in registered => Len(saved[c]) = depth) /\ changes[c] \in Seq(Change)
    BY Zenon, <1>0 DEF Safe, Shapes, Lockstep
  <2> DEFINE S == Seq(Change)
  <2> HIDE DEF S
  <2>3. saved[c] \in Seq(S)
    BY Zenon, <2>2 DEF S
  <2>4. c \in registered => /\ SubSeq(saved[c], 1, d + 1) \in Seq(S) /\ Len(SubSeq(saved[c], 1, d + 1)) = d + 1
                            /\ saved[c][d + 1] \in S
    BY <2>2, <2>3, <1>0
  <2> QED BY Zenon, <2>1, <2>2, <2>4 DEF S
<1>3. Shapes'
  <2>1. conn' \in [Conns -> ConnShape(Len(layers))]
    BY ZenonT(30), <1>1 DEF RollbackToSavepoint
  <2>2. saved' \in [Conns -> Seq(Seq(Change))] /\ changes' \in [Conns -> Seq(Change)]
    BY Zenon, <1>2 DEF RollbackToSavepoint
  <2>3. depth' \in 0..driver.maxDepth
    BY <1>0 DEF Safe, Shapes
  <2> QED BY <1>0, <2>1, <2>2, <2>3 DEF Safe, Shapes, RollbackToSavepoint
<1>4. Lockstep'
  <2>1. registered \subseteq Conns
    BY DEF Safe, Shapes
  <2> QED BY Zenon, <1>0, <1>1, <1>2, <2>1 DEF Lockstep
<1>5. Private'
  BY Zenon, <1>0, <1>1, SameLayers DEF Safe
<1> QED BY <1>3, <1>4, <1>5 DEF Safe

\* The coordinated commit starts or ends.
LEMMA EngineSafe == ASSUME Safe, StartCommit \/ CommitDone PROVE Safe'
<1> USE SafeFacts
<1>0. layers' = layers /\ head' = head /\ registered' = registered /\ conn' = conn
  BY Zenon DEF StartCommit, CommitDone
<1>1. Shapes'
  BY <1>0 DEF Safe, Shapes, StartCommit, CommitDone, ghosts
<1>2. Lockstep'
  BY Zenon DEF Lockstep, StartCommit, CommitDone
<1>3. Private'
  BY Zenon, <1>0, SameLayers DEF Safe
<1> QED BY Zenon, <1>1, <1>2, <1>3 DEF Safe

\* A rollback of the transaction.
LEMMA RollbackSafe == ASSUME Safe, Rollback PROVE Safe'
<1> USE SafeFacts
<1> DEFINE open == IF phase = "body" THEN registered ELSE todo
<1>0. layers' = layers /\ head' = head /\ registered' = registered /\ depth' = 0 /\ phase' = "idle" /\ todo' = {}
  BY Zenon DEF Rollback
<1>1. ASSUME NEW c \in Conns
      PROVE  /\ conn'[c] \in ConnShape(Len(layers)) /\ Fixed(layers, conn'[c])
             /\ conn'[c].pending \in {NoLayer, conn[c].pending}
  <2>1. conn'[c] = IF c \in open THEN Connection(head) ELSE conn[c]
    BY Zenon DEF Rollback, RolledBack
  <2>2. Connection(head) \in ConnShape(Len(layers)) /\ Fixed(layers, Connection(head)) /\ Connection(head).pending = NoLayer
    BY Zenon, ConnectionShape
  <2> QED BY Zenon, <2>1, <2>2
<1>2. Shapes'
  <2>1. conn' \in [Conns -> ConnShape(Len(layers))]
    BY ZenonT(30), <1>1 DEF Rollback
  <2> QED BY <1>0, <2>1 DEF Safe, Shapes, Rollback, ghosts
<1>3. Lockstep'
  BY Zenon, <1>0 DEF Lockstep
<1>4. Private'
  BY Zenon, <1>0, <1>1, SameLayers DEF Safe
<1> QED BY Zenon, <1>2, <1>3, <1>4 DEF Safe

\* A savepoint freezes the pending layers, and changes nothing else of any layer.
LEMMA SavepointLayers ==
    ASSUME Safe, CreateSavepoint
    PROVE  /\ Sound(layers') /\ Len(layers') = Len(layers)
           /\ \A n \in 1..Len(layers) :
                /\ layers'[n].parent = layers[n].parent /\ layers'[n].rows = layers[n].rows
                /\ layers'[n].writes = layers[n].writes /\ (layers[n].frozen => layers'[n].frozen)
                /\ (\A c \in registered : conn[c].pending # n) => layers'[n] = layers[n]
                /\ (\E c \in registered : conn[c].pending = n) => layers'[n].frozen
<1> DEFINE open == {conn[c].pending : c \in registered} \ {NoLayer}
<1>0. Sound(layers) /\ Len(layers) \in Nat /\ DOMAIN layers = 1..Len(layers) /\ layers \in Seq(LayerShape)
  BY Zenon, SafeFacts DEF Sound
<1>1. layers' = [l \in 1..Len(layers) |-> IF l \in open THEN Freeze(layers, l)[l] ELSE layers[l]]
  BY Zenon, <1>0 DEF CreateSavepoint
<1> HIDE DEF open
<1>2. ASSUME NEW n \in 1..Len(layers)
      PROVE  /\ layers'[n] = IF n \in open THEN Freeze(layers, n)[n] ELSE layers[n]
             /\ layers'[n] \in LayerShape
             /\ layers'[n].parent = layers[n].parent /\ layers'[n].rows = layers[n].rows
             /\ layers'[n].writes = layers[n].writes /\ (layers[n].frozen => layers'[n].frozen)
             /\ n \in open => layers'[n].frozen
  <2>1. layers'[n] = IF n \in open THEN Freeze(layers, n)[n] ELSE layers[n]
    BY Zenon, <1>1
  <2>2. /\ Freeze(layers, n)[n].parent = layers[n].parent /\ Freeze(layers, n)[n].rows = layers[n].rows
        /\ Freeze(layers, n)[n].writes = layers[n].writes /\ Freeze(layers, n)[n].frozen
        /\ Sound(Freeze(layers, n)) /\ Len(Freeze(layers, n)) = Len(layers)
    BY Zenon, <1>0, FreezeLayer
  <2>3. Freeze(layers, n)[n] \in LayerShape /\ layers[n] \in LayerShape
    BY Zenon, <1>0, <2>2, SoundFacts
  <2> QED BY <2>1, <2>2, <2>3
<1>3. layers' \in Seq(LayerShape) /\ Len(layers') = Len(layers)
  BY <1>0, <1>1, <1>2
<1>4. Sound(layers')
  <2>1. ASSUME NEW n \in 1..Len(layers)
        PROVE  layers'[n].parent \in 0..(n - 1) /\ (layers'[n].parent # NoLayer => layers'[layers'[n].parent].frozen)
    <3>1. layers[n].parent \in 0..(n - 1) /\ (layers[n].parent # NoLayer => layers[layers[n].parent].frozen)
      BY <1>0 DEF Sound, Tree
    <3>2. layers[n].parent # NoLayer => layers[n].parent \in 1..Len(layers)
      BY <3>1, <1>0 DEF NoLayer
    <3> QED BY Zenon, <3>1, <3>2, <1>2
  <2> QED BY Zenon, <1>3, <2>1 DEF Sound, Tree
<1>5. ASSUME NEW n \in 1..Len(layers)
      PROVE  /\ (\A c \in registered : conn[c].pending # n) => n \notin open
             /\ (\E c \in registered : conn[c].pending = n) => n \in open
  <2>1. n # NoLayer
    BY DEF NoLayer
  <2> QED BY <2>1 DEF open
<1> QED BY Zenon, <1>2, <1>3, <1>4, <1>5

\* A savepoint is created.
LEMMA CreateSavepointSafe == ASSUME Safe, CreateSavepoint PROVE Safe'
<1> USE SafeFacts
<1>0. head' = head /\ registered' = registered /\ depth' = depth + 1 /\ phase = "body" /\ phase' = "body"
      /\ depth < driver.maxDepth /\ registered \subseteq Conns
  BY Zenon DEF CreateSavepoint, Safe, Shapes
<1>1. /\ Sound(layers') /\ Len(layers') = Len(layers)
      /\ \A n \in 1..Len(layers) : /\ layers[n].frozen => layers'[n].frozen
                                   /\ (\A c \in registered : conn[c].pending # n) => layers'[n] = layers[n]
                                   /\ (\E c \in registered : conn[c].pending = n) => layers'[n].frozen
  BY Zenon, SavepointLayers
<1>2. \A c \in Conns : Fixed(layers', conn[c])
  BY Zenon, <1>1, FixedKept
<1>3. ASSUME NEW c \in Conns
      PROVE  /\ conn'[c] \in ConnShape(Len(layers)) /\ Fixed(layers', conn'[c])
             /\ c \in registered => /\ conn'[c].pending = NoLayer
                                    /\ Len(conn'[c].savepoints) = Len(conn[c].savepoints) + 1
             /\ c \notin registered => conn'[c] = conn[c]
  <2>1. conn'[c] = IF c \in registered THEN SavepointCreated(conn[c]) ELSE conn[c]
    BY Zenon DEF CreateSavepoint
  <2>2. CASE c \in registered
    <3>1. conn[c].pending # NoLayer => conn[c].pending \in 1..Len(layers)
      BY DEF NoLayer
    <3>2. conn[c].pending # NoLayer => layers'[conn[c].pending].frozen
      BY <3>1, <2>2, <1>1
    <3> DEFINE e == [snapshot |-> conn[c].pending, readLayer |-> conn[c].readLayer,
                     readSnapshot |-> conn[c].readSnapshot]
    <3>3. /\ SavepointCreated(conn[c]) \in ConnShape(Len(layers)) /\ SavepointCreated(conn[c]).pending = NoLayer
          /\ Fixed(layers', SavepointCreated(conn[c]))
          /\ SavepointCreated(conn[c]).savepoints = Append(conn[c].savepoints, e)
      BY ZenonT(30), <1>2, <3>2, SavepointShape
    <3> HIDE DEF e
    <3>4. Len(Append(conn[c].savepoints, e)) = Len(conn[c].savepoints) + 1
      OBVIOUS
    <3> QED BY Zenon, <2>1, <2>2, <3>3, <3>4
  <2>3. CASE c \notin registered
    BY Zenon, <2>1, <2>3, <1>2
  <2> QED BY Zenon, <2>2, <2>3
<1>4. ASSUME NEW c \in Conns
      PROVE  saved'[c] \in Seq(Seq(Change)) /\ (c \in registered => Len(saved'[c]) = Len(saved[c]) + 1)
  <2>1. saved'[c] = IF c \in registered THEN Append(saved[c], changes[c]) ELSE saved[c]
    BY Zenon DEF CreateSavepoint
  <2>2. saved[c] \in Seq(Seq(Change)) /\ changes[c] \in Seq(Change)
    BY Zenon DEF Safe, Shapes
  <2> DEFINE S == Seq(Change)
  <2> HIDE DEF S
  <2>3. saved[c] \in Seq(S) /\ changes[c] \in S
    BY Zenon, <2>2 DEF S
  <2>4. Append(saved[c], changes[c]) \in Seq(S) /\ Len(Append(saved[c], changes[c])) = Len(saved[c]) + 1
    BY <2>3
  <2> QED BY Zenon, <2>1, <2>2, <2>4 DEF S
<1>5. Shapes'
  <2>1. conn' \in [Conns -> ConnShape(Len(layers))]
    BY Zenon, <1>3 DEF CreateSavepoint
  <2>2. saved' \in [Conns -> Seq(Seq(Change))]
    BY <1>4 DEF CreateSavepoint
  <2>3. depth' \in 0..driver.maxDepth
    BY <1>0
  <2> QED BY Zenon, <1>0, <1>1, <2>1, <2>2, <2>3 DEF Safe, Shapes, CreateSavepoint
<1>6. Lockstep'
  <2>1. \A c \in registered : Len(conn[c].savepoints) = depth /\ Len(saved[c]) = depth
    BY Zenon, <1>0 DEF Safe, Lockstep
  <2> QED BY Zenon, <1>0, <1>3, <1>4, <2>1 DEF Lockstep
<1>7. Private'
  <2>1. layers'[head] = layers[head]
    <3>1. \A c \in registered : conn[c].pending # head
      <4>1. registered \subseteq Conns /\ layers[head].frozen /\ head # NoLayer
        BY <1>0 DEF Safe, Shapes, Private, NoLayer
      <4>2. \A c \in Conns : conn[c].pending # NoLayer => ~layers[conn[c].pending].frozen
        BY Zenon DEF Safe, Private
      <4> QED BY Zenon, <4>1, <4>2
    <3> QED BY ZenonT(30), <3>1, <1>1
  <2>2. ASSUME NEW c \in Conns, conn'[c].pending # NoLayer
        PROVE  conn'[c].pending = conn[c].pending /\ ~layers'[conn[c].pending].frozen
    <3>1. c \notin registered /\ conn'[c] = conn[c]
      BY Zenon, <2>2, <1>3
    <3>2. conn[c].pending \in 1..Len(layers)
      BY <3>1, <2>2 DEF NoLayer
    <3>3. \A b \in registered : conn[b].pending # conn[c].pending
      BY Zenon, <3>1, <2>2, <1>0 DEF Safe, Private
    <3>4. layers'[conn[c].pending] = layers[conn[c].pending]
      BY Zenon, <1>1, <3>2, <3>3
    <3> QED BY Zenon, <3>1, <3>4, <2>2 DEF Safe, Private
  <2>3. \A c \in Conns : conn'[c].pending \in {NoLayer, conn[c].pending}
    BY Zenon, <2>2
  <2>4. \A c, b \in Conns : c # b /\ conn'[c].pending # NoLayer => conn'[c].pending # conn'[b].pending
    BY Zenon, <2>3 DEF Safe, Private
  <2> QED BY <1>0, <1>3, <2>1, <2>2, <2>4 DEF Safe, Private
<1> QED BY <1>5, <1>6, <1>7 DEF Safe

\* What a row operation of c does to the layers: l, c's pending layer or a new one over its
\* read layer, takes the log.
Mutated(c, log, l) ==
    /\ Sound(layers') /\ Len(layers) <= Len(layers') /\ conn' = [conn EXCEPT ![c].pending = l]
    /\ \A n \in 1..Len(layers) : n # l => layers'[n] = layers[n]
    /\ ~layers'[l].frozen
    /\ \/ /\ conn[c].pending = l /\ l \in 1..Len(layers) /\ Len(layers') = Len(layers)
          /\ layers'[l].parent = layers[l].parent /\ layers'[l].writes = layers[l].writes \o log
          /\ layers'[l].rows = Apply(layers[l].rows, log)
       \/ /\ conn[c].pending = NoLayer /\ l = Len(layers) + 1 /\ Len(layers') = Len(layers) + 1
          /\ layers'[l].parent = conn[c].readLayer /\ layers'[l].writes = log
          /\ layers'[l].rows = Apply(layers[conn[c].readLayer].rows, log)

\* performMutation is such an operation.
LEMMA MutationLayers ==
    ASSUME Safe, NEW c \in Conns, NEW log \in Seq(Change), PerformMutation(c, log)
    PROVE  \E l \in 1..Len(layers') : Mutated(c, log, l)
<1> USE SafeFacts
<1> DEFINE out == EnsureTransactionLayer(conn[c])
<1>0. layers' = [out.ls EXCEPT ![out.l] = Record(@, log)] /\ conn' = [conn EXCEPT ![c].pending = out.l]
  BY DEF PerformMutation
<1>1. CASE conn[c].pending # NoLayer
  <2> DEFINE l == conn[c].pending
  <2>1. out.ls = layers /\ out.l = l
    BY Zenon, <1>1 DEF EnsureTransactionLayer
  <2>2. l \in 1..Len(layers) /\ ~layers[l].frozen
    BY <1>1 DEF Safe, Private, NoLayer
  <2>3. layers' = [layers EXCEPT ![l] = Record(@, log)] /\ conn' = [conn EXCEPT ![c].pending = l]
    BY ZenonT(30), <1>0, <2>1
  <2> HIDE DEF l, out
  <2>4. /\ Sound(layers') /\ Len(layers') = Len(layers) /\ (\A n \in 1..Len(layers) : n # l => layers'[n] = layers[n])
        /\ layers'[l].parent = layers[l].parent /\ layers'[l].frozen = layers[l].frozen
        /\ layers'[l].writes = layers[l].writes \o log /\ layers'[l].rows = Apply(layers[l].rows, log)
    <3>1. Record(layers[l], log) \in LayerShape
      BY Zenon, <2>2, RecordLayer
    <3>2. Replaces(layers, layers', l, Record(layers[l], log))
      BY Zenon, <2>2, <2>3, <3>1, ReplaceLayer DEF Sound
    <3> QED BY <2>2, <3>2, RecordLayer
  <2>5. Len(layers) <= Len(layers') /\ l \in 1..Len(layers') /\ conn[c].pending = l
    <3>1. Len(layers) <= Len(layers') /\ l \in 1..Len(layers')
      <4>1. Len(layers') = Len(layers) /\ Len(layers) \in Nat
        BY Zenon, <2>4
      <4> QED BY <2>2, <4>1
    <3>2. conn[c].pending = l
      BY DEF l
    <3> QED BY <3>1, <3>2
  <2> QED BY ZenonT(30), <2>2, <2>3, <2>4, <2>5 DEF Mutated
<1>2. CASE conn[c].pending = NoLayer
  <2> DEFINE r == conn[c].readLayer
             lt == Append(layers, NewLayer(layers, r))
             l == Len(layers) + 1
  <2>1. out.ls = lt /\ out.l = l
    BY <1>2 DEF EnsureTransactionLayer
  <2>2. layers' = [lt EXCEPT ![l] = Record(@, log)] /\ conn' = [conn EXCEPT ![c].pending = l]
    BY Zenon, <1>0, <2>1
  <2>3. r \in 1..Len(layers) /\ layers[r].frozen
    BY Zenon DEF Fixed
  <2>4. /\ Sound(lt) /\ Len(lt) = l /\ \A n \in 1..Len(layers) : lt[n] = layers[n]
        /\ lt[l].parent = r /\ lt[l].writes = <<>> /\ lt[l].rows = layers[r].rows /\ ~lt[l].frozen
    BY <2>3, MadeOver
  <2> HIDE DEF lt, out, r
  <2>5. l \in 1..Len(lt) /\ Len(layers) <= l /\ (\A n \in 1..Len(layers) : n \in 1..Len(lt) /\ n # l)
    BY <2>4
  <2> HIDE DEF l
  <2>6. /\ Sound(layers') /\ Len(layers') = Len(lt) /\ (\A n \in 1..Len(lt) : n # l => layers'[n] = lt[n])
        /\ layers'[l].parent = lt[l].parent /\ layers'[l].frozen = lt[l].frozen
        /\ layers'[l].writes = lt[l].writes \o log /\ layers'[l].rows = Apply(lt[l].rows, log)
    <3>1. Record(lt[l], log) \in LayerShape
      BY Zenon, <2>4, <2>5, RecordLayer
    <3>2. Replaces(lt, layers', l, Record(lt[l], log))
      BY Zenon, <2>2, <2>4, <2>5, <3>1, ReplaceLayer DEF Sound
    <3>3. Sound(lt) /\ l \in 1..Len(lt)
      BY Zenon, <2>4, <2>5
    <3>4. ASSUME NEW u, Replaces(lt, u, l, Record(lt[l], log))
          PROVE  /\ Sound(u) /\ Len(u) = Len(lt) /\ (\A n \in 1..Len(lt) : n # l => u[n] = lt[n])
                 /\ u[l].parent = lt[l].parent /\ u[l].frozen = lt[l].frozen
                 /\ u[l].writes = lt[l].writes \o log /\ u[l].rows = Apply(lt[l].rows, log)
      <4> HIDE SafeFacts
      <4> QED BY <3>3, <3>4, RecordLayer
    <3> QED BY <3>2, <3>4, Zenon
  <2>7. <<>> \o log = log
    OBVIOUS
  <2>8. \A n \in 1..Len(layers) : n # l => layers'[n] = layers[n]
    BY Zenon, <2>4, <2>5, <2>6
  <2>9. /\ l \in 1..Len(layers') /\ Len(layers) <= Len(layers') /\ ~layers'[l].frozen
        /\ l = Len(layers) + 1 /\ Len(layers') = Len(layers) + 1
        /\ layers'[l].parent = conn[c].readLayer /\ layers'[l].writes = log
        /\ layers'[l].rows = Apply(layers[conn[c].readLayer].rows, log)
    BY <2>4, <2>5, <2>6, <2>7 DEF l, r
  <2> QED BY ZenonT(30), <1>2, <2>2, <2>6, <2>8, <2>9 DEF Mutated
<1> QED BY <1>1, <1>2

\* A row operation.
LEMMA MutationSafe == ASSUME Safe, NEW c \in Conns, NEW log \in Seq(Change), PerformMutation(c, log) PROVE Safe'
<1> USE SafeFacts
<1>0. head' = head /\ registered' = registered /\ phase' = phase /\ depth' = depth /\ saved' = saved
      /\ changes' = [changes EXCEPT ![c] = @ \o log] /\ written' \in 0..MaxWrites
  <2>1. written \in 0..MaxWrites /\ written < MaxWrites /\ written' = written + 1 /\ MaxWrites \in Nat
    BY ConstantsAssumption DEF PerformMutation, Safe, Shapes
  <2> QED BY <2>1 DEF PerformMutation, engine
<1>l. PICK l \in 1..Len(layers') : Mutated(c, log, l)
  BY MutationLayers
<1>1. /\ Sound(layers') /\ Len(layers) <= Len(layers') /\ conn' = [conn EXCEPT ![c].pending = l]
      /\ \A n \in 1..Len(layers) : n # l => layers'[n] = layers[n]
      /\ ~layers'[l].frozen
      /\ (conn[c].pending = l /\ l \in 1..Len(layers)) \/ (conn[c].pending = NoLayer /\ l = Len(layers) + 1)
  <2>1. Sound(layers') /\ Len(layers) <= Len(layers') /\ conn' = [conn EXCEPT ![c].pending = l]
    BY Zenon, <1>l DEF Mutated
  <2>2. \A n \in 1..Len(layers) : n # l => layers'[n] = layers[n]
    BY <1>l DEF Mutated
  <2>3. ~layers'[l].frozen
    BY <1>l DEF Mutated
  <2>4. (conn[c].pending = l /\ l \in 1..Len(layers)) \/ (conn[c].pending = NoLayer /\ l = Len(layers) + 1)
    BY <1>l DEF Mutated
  <2> QED BY Zenon, <2>1, <2>2, <2>3, <2>4
<1>2. Len(layers') \in Nat /\ l # NoLayer
  BY <1>1, SoundFacts DEF NoLayer
<1>3. \A n \in 1..Len(layers) : layers[n].frozen => n # l
  <2>1. conn[c].pending = l => ~layers[l].frozen
    BY <1>2 DEF Safe, Private
  <2> QED BY <1>1, <2>1
<1>4. \A n \in 1..Len(layers) : layers[n].frozen => layers'[n] = layers[n] /\ layers'[n].frozen
  BY <1>1, <1>3
<1> DEFINE r == [conn[c] EXCEPT !.pending = l]
<1>5. conn' = [conn EXCEPT ![c] = r]
  BY <1>1 DEF Safe, Shapes
<1>6. r.pending = l /\ r.readLayer = conn[c].readLayer /\ r.savepoints = conn[c].savepoints
  BY DEF ConnShape
<1>7. r \in ConnShape(Len(layers'))
  <2>1. conn[c] \in ConnShape(Len(layers'))
    BY <1>1, <1>2, ConnGrows
  <2>2. l \in 0..Len(layers')
    BY <1>1, <1>2
  <2> QED BY Zenon, <2>1, <2>2 DEF ConnShape
<1>8. Fixed(layers', r)
  <2>1. Fixed(layers', conn[c])
    BY <1>4, FixedKept
  <2> QED BY <2>1, <1>6 DEF Fixed
<1> HIDE DEF r
<1>9. \A b \in Conns : b # c => conn'[b] = conn[b]
  BY <1>5 DEF Safe, Shapes
<1>10. conn'[c] = r
  BY <1>5 DEF Safe, Shapes
<1>11. Shapes'
  <2>1. ASSUME NEW b \in Conns PROVE conn'[b] \in ConnShape(Len(layers'))
    <3>1. conn[b] \in ConnShape(Len(layers'))
      BY Zenon, <1>1, <1>2, ConnGrows
    <3> QED BY Zenon, <3>1, <1>7, <1>9, <1>10
  <2>2. conn' \in [Conns -> ConnShape(Len(layers'))]
    BY <1>5, <2>1 DEF Safe, Shapes
  <2>3. changes[c] \o log \in Seq(Change)
    BY DEF Safe, Shapes
  <2>4. changes' \in [Conns -> Seq(Change)]
    BY <1>0, <2>3 DEF Safe, Shapes
  <2>5. head \in 1..Len(layers')
    BY <1>1, <1>2
  <2> QED BY Zenon, <1>0, <1>1, <2>2, <2>4, <2>5 DEF Safe, Shapes, PerformMutation, engine
<1>12. Lockstep'
  <2>1. \A b \in Conns : conn'[b].savepoints = conn[b].savepoints
    BY Zenon, <1>6, <1>9, <1>10
  <2>2. registered \subseteq Conns
    BY DEF Safe, Shapes
  <2> QED BY ZenonT(30), <1>0, <2>1, <2>2 DEF Safe, Lockstep
<1>13. Private'
  <2>1. layers'[head] = layers[head]
    BY Zenon, <1>4
  <2>2. ASSUME NEW b \in Conns PROVE Fixed(layers', conn'[b])
    <3>1. Fixed(layers', conn[b])
      BY <1>4, FixedKept
    <3> QED BY ZenonT(30), <3>1, <1>8, <1>9, <1>10
  <2>3. ASSUME NEW b \in Conns, b # c, conn[b].pending # NoLayer
        PROVE  conn[b].pending # l /\ ~layers'[conn[b].pending].frozen
    <3>1. conn[b].pending \in 1..Len(layers)
      BY <2>3 DEF NoLayer
    <3>2. conn[b].pending # l
      <4>1. CASE conn[c].pending = l
        BY <4>1, <2>3 DEF Safe, Private
      <4>2. CASE l = Len(layers) + 1
        BY <4>2, <3>1
      <4> QED BY <4>1, <4>2, <1>1
    <3>3. layers'[conn[b].pending] = layers[conn[b].pending]
      BY Zenon, <1>1, <3>1, <3>2
    <3> QED BY Zenon, <2>3, <3>2, <3>3 DEF Safe, Private
  <2>4. \A b \in Conns : conn'[b].pending # NoLayer => ~layers'[conn'[b].pending].frozen
    BY <1>1, <1>6, <1>9, <1>10, <2>3
  <2>5. ASSUME NEW a \in Conns, NEW b \in Conns, a # b, conn'[a].pending # NoLayer
        PROVE  conn'[a].pending # conn'[b].pending
    <3>1. CASE a = c
      <4>1. conn'[a].pending = l /\ conn'[b] = conn[b]
        BY <3>1, <2>5, <1>6, <1>9, <1>10
      <4> QED BY <4>1, <1>2, <2>3, <2>5, <3>1
    <3>2. CASE b = c
      <4>1. conn'[b].pending = l /\ conn'[a] = conn[a]
        BY ZenonT(30), <3>2, <2>5, <1>6, <1>9, <1>10
      <4> QED BY <4>1, <2>3, <2>5, <3>2
    <3>3. CASE a # c /\ b # c
      BY <3>3, <2>5, <1>9 DEF Safe, Private
    <3> QED BY <3>1, <3>2, <3>3
  <2>6. layers'[head'].frozen /\ ~layers'[head'].linked
    BY Zenon, <1>0, <2>1 DEF Safe, Private
  <2> QED BY <2>2, <2>4, <2>5, <2>6 DEF Private
<1> QED BY <1>11, <1>12, <1>13 DEF Safe

\* A commit of c, whatever record its connection gets, if that record reads the new head.
LEMMA CommitSafe ==
    ASSUME Safe, NEW c \in Conns, Commit(c), NEW r, conn' = [conn EXCEPT ![c] = r],
           (head' \in 1..Len(layers') /\ layers'[head'].frozen /\ Len(layers') \in Nat)
              => r \in ConnShape(Len(layers')) /\ Fixed(layers', r) /\ r.pending = NoLayer
    PROVE  /\ Sound(layers') /\ head' \in 1..Len(layers') /\ layers'[head'].rows \in Table
           /\ conn' \in [Conns -> ConnShape(Len(layers'))] /\ Private'
           /\ promised' \in Table /\ replica' \in Table
<1> USE SafeFacts
<1> DEFINE out == CommitTransaction(conn[c])
<1>1. /\ Sound(out.ls) /\ Advanced(layers, out.ls, conn[c].pending) /\ out.head \in 1..Len(out.ls)
      /\ out.ls[out.head].frozen /\ ~out.ls[out.head].linked /\ out.events \in Seq(Change)
  BY ZenonT(30), CommitFacts DEF Safe
<1>2. /\ layers' = out.ls /\ head' = out.head /\ replica' = Apply(replica, out.events)
      /\ promised' = IF Stranded(c) THEN promised ELSE Apply(promised, changes[c])
  BY DEF Commit
<1> HIDE DEF out
<1>3. /\ Sound(layers') /\ Advanced(layers, layers', conn[c].pending) /\ head' \in 1..Len(layers')
      /\ layers'[head'].frozen /\ ~layers'[head'].linked
  BY Zenon, <1>1, <1>2
<1>4. Len(layers') \in Nat /\ Len(layers) <= Len(layers') /\ layers'[head'].rows \in Table
  BY <1>3, SoundFacts DEF Advanced
<1>5. replica' \in Table /\ promised' \in Table
  <2>1. changes[c] \in Seq(Change) /\ replica \in Table /\ promised \in Table
    BY DEF Safe, Shapes
  <2> QED BY Zenon, <1>1, <1>2, <2>1, ApplyType
<1>6. conn'[c] = r /\ r \in ConnShape(Len(layers')) /\ Fixed(layers', r) /\ r.pending = NoLayer
  BY <1>3, <1>4 DEF Safe, Shapes
<1>7. ASSUME NEW b \in Conns, b # c
      PROVE  conn'[b] = conn[b] /\ conn[b] \in ConnShape(Len(layers')) /\ Fixed(layers', conn[b])
  <2>1. conn'[b] = conn[b]
    BY <1>7 DEF Safe, Shapes
  <2>2. conn[b] \in ConnShape(Len(layers'))
    BY <1>4, ConnGrows
  <2>3. Fixed(layers', conn[b])
    BY <1>3, FixedKept DEF Advanced
  <2> QED BY <2>1, <2>2, <2>3
<1>8. conn' \in [Conns -> ConnShape(Len(layers'))]
  <2>1. \A b \in Conns : conn'[b] \in ConnShape(Len(layers'))
    BY <1>6, <1>7
  <2> QED BY <2>1 DEF Safe, Shapes
<1>9. Private'
  <2>1. ASSUME NEW b \in Conns, conn'[b].pending # NoLayer
        PROVE  b # c /\ conn'[b] = conn[b] /\ ~layers'[conn[b].pending].frozen
    <3>1. b # c /\ conn'[b] = conn[b]
      BY Zenon, <2>1, <1>6, <1>7
    <3>2. conn[b].pending # conn[c].pending /\ conn[b].pending \in 1..Len(layers)
      BY <2>1, <3>1 DEF Safe, Private, NoLayer
    <3>3. layers'[conn[b].pending] = layers[conn[b].pending]
      BY Zenon, <1>3, <3>2 DEF Advanced
    <3> QED BY <2>1, <3>1, <3>3 DEF Safe, Private
  <2>2. \A a, b \in Conns : a # b /\ conn'[a].pending # NoLayer => conn'[a].pending # conn'[b].pending
    BY <2>1 DEF Safe, Private
  <2>3. \A b \in Conns : Fixed(layers', conn'[b])
    BY <1>6, <1>7
  <2> QED BY Zenon, <1>3, <2>1, <2>2, <2>3 DEF Private
<1> QED BY <1>3, <1>4, <1>5, <1>8, <1>9

\* A connection's part of the coordinated commit.
LEMMA CommitConnectionSafe == ASSUME Safe, NEW c \in Conns, CommitConnection(c) PROVE Safe'
<1>1. Commit(c) /\ conn' = [conn EXCEPT ![c] = Connection(head')] /\ phase = "closing" /\ phase' = "closing"
  BY DEF CommitConnection
<1>2. (head' \in 1..Len(layers') /\ layers'[head'].frozen /\ Len(layers') \in Nat)
        => /\ Connection(head') \in ConnShape(Len(layers')) /\ Fixed(layers', Connection(head'))
           /\ Connection(head').pending = NoLayer
  BY ConnectionShape
<1>3. /\ Sound(layers') /\ head' \in 1..Len(layers') /\ conn' \in [Conns -> ConnShape(Len(layers'))] /\ Private'
      /\ promised' \in Table /\ replica' \in Table
  BY Zenon, <1>1, <1>2, CommitSafe
<1>4. Shapes'
  BY <1>3 DEF Safe, Shapes, CommitConnection
<1>5. Lockstep'
  BY <1>1 DEF Lockstep
<1> QED BY <1>3, <1>4, <1>5 DEF Safe

\* A commit in the middle of a transaction.
LEMMA CommitEarlySafe == ASSUME Safe, NEW c \in Conns, CommitEarly(c) PROVE Safe'
<1> DEFINE r == Begun(Connection(head'))
           es == [i \in 1..depth |-> <<>>]
<1>0. depth \in Nat
  BY SafeFacts
<1>1. /\ Commit(c) /\ conn' = [conn EXCEPT ![c] = r] /\ phase' = phase /\ phase = "body" /\ registered' = registered
      /\ depth' = depth /\ saved' = [saved EXCEPT ![c] = es] /\ start' = [start EXCEPT ![c] = layers'[head'].rows]
      /\ changes' = [changes EXCEPT ![c] = <<>>]
  BY DEF CommitEarly, engine
<1>2. (head' \in 1..Len(layers') /\ layers'[head'].frozen /\ Len(layers') \in Nat)
        => /\ r \in ConnShape(Len(layers')) /\ Fixed(layers', r) /\ r.pending = NoLayer /\ Len(r.savepoints) = depth
  <2> SUFFICES ASSUME head' \in 1..Len(layers'), layers'[head'].frozen, Len(layers') \in Nat
               PROVE  r \in ConnShape(Len(layers')) /\ Fixed(layers', r) /\ r.pending = NoLayer /\ Len(r.savepoints) = depth
    OBVIOUS
  <2> DEFINE h == Connection(head')
  <2>1. h \in ConnShape(Len(layers')) /\ Fixed(layers', h) /\ h.pending = NoLayer
    BY ConnectionShape
  <2> HIDE DEF h
  <2>2. /\ Begun(h) \in ConnShape(Len(layers')) /\ Fixed(layers', Begun(h)) /\ Begun(h).pending = NoLayer
        /\ Len(Begun(h).savepoints) = depth
    BY Zenon, <1>0, <2>1, BegunShape
  <2> QED BY <2>2 DEF h
<1>3. es \in Seq(Seq(Change)) /\ Len(es) = depth
  BY <1>0, Blanks
<1> HIDE DEF r, es
<1>4. /\ Sound(layers') /\ head' \in 1..Len(layers') /\ conn' \in [Conns -> ConnShape(Len(layers'))] /\ Private'
      /\ promised' \in Table /\ replica' \in Table /\ layers'[head'].rows \in Table
  BY Zenon, <1>1, <1>2, CommitSafe
<1>5. Len(r.savepoints) = depth
  BY <1>2, <1>4, SoundFacts DEF Private
<1>6. start' \in [Conns -> Table] /\ changes' \in [Conns -> Seq(Change)] /\ saved' \in [Conns -> Seq(Seq(Change))]
  BY <1>1, <1>3, <1>4 DEF Safe, Shapes
<1>7. Shapes'
  BY Zenon, <1>1, <1>4, <1>6 DEF Safe, Shapes, CommitEarly, engine
<1>8. Lockstep'
  <2>1. ASSUME NEW b \in registered PROVE Len(conn'[b].savepoints) = depth /\ Len(saved'[b]) = depth
    <3>1. b \in Conns
      BY DEF Safe, Shapes
    <3>2. CASE b = c
      BY <3>1, <3>2, <1>1, <1>3, <1>5 DEF Safe, Shapes
    <3>3. CASE b # c
      BY <3>1, <3>3, <1>1 DEF Safe, Shapes, Lockstep
    <3> QED BY <3>2, <3>3
  <2> QED BY <2>1, <1>1 DEF Lockstep
<1> QED BY <1>4, <1>7, <1>8 DEF Safe

\* The logs of the row operations are changes.
LEMMA Operations ==
    ASSUME NEW c \in Conns,
           \/ PerformNothing(c)
           \/ \E k \in Keys : PerformDelete(c, k)
           \/ \E k \in Keys, v \in Values : PerformUpsert(c, k, v)
           \/ \E k, k2 \in Keys, v \in Values : PerformMove(c, k, k2, v)
    PROVE  \E log \in Seq(Change) : PerformMutation(c, log)
<1>0. \A k \in Keys : Deletion(k) \in Change /\ \A v \in Values : Upsert(k, v) \in Change
  BY DEF Deletion, Upsert, Change, Rows
<1>1. CASE PerformNothing(c)
  <2>1. <<>> \in Seq(Change)
    OBVIOUS
  <2> QED BY Zenon, <1>1, <2>1 DEF PerformNothing
<1>2. CASE \E k \in Keys : PerformDelete(c, k)
  <2>1. PICK k \in Keys : PerformMutation(c, <<Deletion(k)>>)
    BY <1>2 DEF PerformDelete
  <2>2. <<Deletion(k)>> \in Seq(Change)
    BY <1>0
  <2> QED BY Zenon, <2>1, <2>2
<1>3. CASE \E k \in Keys, v \in Values : PerformUpsert(c, k, v)
  <2>1. PICK k \in Keys, v \in Values : PerformMutation(c, <<Upsert(k, v)>>)
    BY <1>3 DEF PerformUpsert
  <2>2. <<Upsert(k, v)>> \in Seq(Change)
    BY <1>0
  <2> QED BY Zenon, <2>1, <2>2
<1>4. CASE \E k, k2 \in Keys, v \in Values : PerformMove(c, k, k2, v)
  <2>1. PICK k \in Keys, k2 \in Keys, v \in Values : PerformMove(c, k, k2, v)
    BY <1>4
  <2> DEFINE first == IF View(c)[k2] = NoRow THEN <<>> ELSE <<Deletion(k2)>>
             rest == <<Deletion(k), Upsert(k2, v)>>
  <2>2. PerformMutation(c, first \o rest)
    BY <2>1 DEF PerformMove
  <2>3. first \in Seq(Change) /\ rest \in Seq(Change)
    <3>1. Deletion(k2) \in Change /\ Deletion(k) \in Change /\ Upsert(k2, v) \in Change
      BY <1>0
    <3>2. <<Deletion(k2)>> \in Seq(Change) /\ <<>> \in Seq(Change)
      BY <3>1
    <3> QED BY <3>1, <3>2
  <2> HIDE DEF first, rest
  <2>4. first \o rest \in Seq(Change)
    BY <2>3
  <2> QED BY Zenon, <2>2, <2>4
<1> QED BY <1>1, <1>2, <1>3, <1>4

\* Every step keeps the shapes, the lockstep and the privacy of pending layers.
LEMMA StepSafe == Safe /\ [Next]_vars => Safe'
<1> SUFFICES ASSUME Safe, [Next]_vars PROVE Safe'
  OBVIOUS
<1>0. driver.maxDepth \in Nat
  BY SafeFacts
<1>1. CASE UNCHANGED vars
  <2>1. /\ layers' = layers /\ head' = head /\ registered' = registered /\ conn' = conn /\ phase' = phase
        /\ todo' = todo /\ depth' = depth /\ written' = written /\ driver' = driver /\ promised' = promised
        /\ start' = start /\ changes' = changes /\ saved' = saved /\ replica' = replica
    BY <1>1 DEF vars, engine, ghosts
  <2>2. Shapes'
    BY <2>1 DEF Safe, Shapes
  <2>3. Lockstep'
    BY Zenon, <2>1 DEF Safe, Lockstep
  <2>4. Private'
    BY <2>1 DEF Safe, Private
  <2> QED BY <2>2, <2>3, <2>4 DEF Safe
<1>2. CASE Begin
  BY <1>2, BeginSafe
<1>3. CASE CreateSavepoint
  BY <1>3, CreateSavepointSafe
<1>4. ASSUME NEW d \in 0..driver.maxDepth, ReleaseSavepoint(d) PROVE Safe'
  BY <1>0, <1>4, ReleaseSafe
<1>5. ASSUME NEW d \in 0..driver.maxDepth, RollbackToSavepoint(d) PROVE Safe'
  BY <1>0, <1>5, RollbackToSafe
<1>6. CASE StartCommit \/ CommitDone
  BY <1>6, EngineSafe
<1>7. CASE Rollback
  BY <1>7, RollbackSafe
<1>8. ASSUME NEW c \in Conns, Connect(c) PROVE Safe'
  BY <1>8, ConnectSafe
<1>9. ASSUME NEW c \in Conns, Reuse(c) PROVE Safe'
  BY <1>9, ReuseSafe
<1>10. ASSUME NEW c \in Conns, CommitConnection(c) PROVE Safe'
  BY <1>10, CommitConnectionSafe
<1>11. ASSUME NEW c \in Conns, CommitEarly(c) PROVE Safe'
  BY <1>11, CommitEarlySafe
<1>12. ASSUME NEW c \in Conns, NEW log \in Seq(Change), PerformMutation(c, log) PROVE Safe'
  BY <1>12, MutationSafe
<1>13. ASSUME NEW c \in Conns,
              \/ PerformNothing(c)
              \/ \E k \in Keys : PerformDelete(c, k)
              \/ \E k \in Keys, v \in Values : PerformUpsert(c, k, v)
              \/ \E k, k2 \in Keys, v \in Values : PerformMove(c, k, k2, v)
       PROVE  Safe'
  BY <1>12, <1>13, Operations
<1> QED BY <1>1, <1>2, <1>3, <1>4, <1>5, <1>6, <1>7, <1>8, <1>9, <1>10, <1>11, <1>13, Zenon DEF Next

\* All of this holds in every reachable state.
LEMMA SafeHolds == Spec => []Safe
BY InitSafe, StepSafe, PTL DEF Spec

\* Type correctness: whatever calls come in which order, every reference of a connection or
\* a savepoint is to a layer that exists.
THEOREM TypeCorrect == Spec => []TypeOK
<1>1. Safe => TypeOK
  <2> SUFFICES ASSUME Safe PROVE TypeOK
    OBVIOUS
  <2>1. ASSUME NEW c \in Conns, NEW i \in DOMAIN conn[c].savepoints
        PROVE  LET s == conn[c].savepoints[i] IN
               s.readLayer \in LayerIds /\ {s.snapshot, s.readSnapshot} \subseteq LayerIds \cup {NoLayer}
    <3>1. conn[c].savepoints \in Seq(EntryShape(Len(layers)))
      BY SafeFacts
    <3> DEFINE s == conn[c].savepoints[i]
    <3>2. s \in EntryShape(Len(layers))
      BY <3>1
    <3> HIDE DEF s
    <3>3. s.readLayer \in LayerIds /\ {s.snapshot, s.readSnapshot} \subseteq LayerIds \cup {NoLayer}
      BY <3>2, SafeFacts DEF EntryShape, LayerIds, NoLayer
    <3> QED BY Zenon, <3>3 DEF s
  <2>2. ASSUME NEW c \in Conns
        PROVE  /\ conn[c].readLayer \in LayerIds /\ conn[c].explicit \in BOOLEAN
               /\ {conn[c].pending, conn[c].readSnapshot} \subseteq LayerIds \cup {NoLayer}
    <3>1. conn[c].explicit \in BOOLEAN
      BY SafeFacts DEF ConnShape
    <3> QED BY <3>1, SafeFacts DEF LayerIds, NoLayer
  <2>3. layers \in Seq([parent : Nat, writes : Seq(Change), rows : Table, frozen : BOOLEAN, linked : BOOLEAN])
    BY DEF Safe, Shapes, Sound, LayerShape
  <2>4. head \in LayerIds
    BY SafeFacts DEF LayerIds
  <2>5. /\ registered \subseteq Conns /\ written \in 0..MaxWrites /\ driver \in Drivers
        /\ phase \in {"idle", "body", "closing"} /\ todo \subseteq registered /\ depth \in 0..driver.maxDepth
    BY DEF Safe, Shapes
  <2> QED BY Zenon, <2>1, <2>2, <2>3, <2>4, <2>5 DEF TypeOK
<1> QED BY <1>1, SafeHolds, PTL

\* A layer that takes writes belongs to one connection: nobody reads it, no savepoint
\* returns to it, nothing derives from it, and freezing it detaches its trees.
THEOREM PendingLayersArePrivate == Spec => []WritableIsPrivate
<1>1. Safe => WritableIsPrivate
  <2> SUFFICES ASSUME Safe PROVE WritableIsPrivate
    OBVIOUS
  <2>1. ASSUME NEW c \in registered, conn[c].pending # NoLayer
        PROVE  LET l == conn[c].pending IN
               /\ ~layers[l].frozen /\ ~HasDerivedChildren(layers, l) /\ l # head
               /\ \A o \in registered :
                    /\ o # c => conn[o].pending # l
                    /\ conn[o].readLayer # l
                    /\ \A i \in DOMAIN conn[o].savepoints :
                         l \notin {conn[o].savepoints[i].snapshot, conn[o].savepoints[i].readLayer}
    <3> DEFINE l == conn[c].pending
    <3>1. registered \subseteq Conns /\ l \in 1..Len(layers)
      BY <2>1, SafeFacts DEF Safe, Shapes, NoLayer
    <3>2. ~layers[l].frozen
      BY <2>1, <3>1 DEF Safe, Private
    <3> HIDE DEF l
    <3>3. ~HasDerivedChildren(layers, l) /\ l # head
      BY Zenon, <3>1, <3>2, SafeFacts, OpenHasNoChildren
    <3>4. ASSUME NEW o \in registered PROVE conn[o].readLayer # l /\ (o # c => conn[o].pending # l)
      BY Zenon, <2>1, <3>1, <3>2 DEF Safe, Private, Fixed, l
    <3>5. ASSUME NEW o \in registered, NEW i \in DOMAIN conn[o].savepoints
          PROVE  l \notin {conn[o].savepoints[i].snapshot, conn[o].savepoints[i].readLayer}
      <4> DEFINE s == conn[o].savepoints[i]
      <4>1. conn[o].savepoints \in Seq(EntryShape(Len(layers)))
        BY <3>1, SafeFacts
      <4>2. i \in 1..Len(conn[o].savepoints)
        BY <4>1
      <4>3. layers[s.readLayer].frozen /\ (s.snapshot # NoLayer => layers[s.snapshot].frozen)
        BY Zenon, <3>1, <4>2 DEF Safe, Private, Fixed
      <4>4. l # NoLayer
        BY <2>1 DEF l
      <4> QED BY <4>3, <4>4, <3>2
    <3> QED BY Zenon, <3>2, <3>3, <3>4, <3>5 DEF l
  <2>2. ~layers[head].linked
    BY DEF Safe, Private
  <2> QED BY Zenon, <2>1, <2>2 DEF WritableIsPrivate
<1> QED BY <1>1, SafeHolds, PTL
=============================================================================
