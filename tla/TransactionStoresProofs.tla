----------------------- MODULE TransactionStoresProofs -----------------------
(***************************************************************************)
(* The layered stores of a transaction: TypeOK and ChangeLogIsNetChange    *)
(* for any keys, rows, savepoint names, number of row changes and depth of *)
(* nesting.                                                                *)
(*                                                                         *)
(* The invariant is Layered: every store has one layer per open savepoint, *)
(* and each layer of the change log tells the difference between the table *)
(* at its own savepoint and the table at the next one.                     *)
(***************************************************************************)
EXTENDS TransactionStores, WellFoundedInduction, TLAPS

-----------------------------------------------------------------------------
\* Loops over numbers.

\* A set of numbers up to n that holds 0 and is closed under the next one holds them all.
LEMMA UpTo ==
    ASSUME NEW n \in Nat, NEW T, 0 \in T,
           \A i \in 1..n : i - 1 \in T => i \in T
    PROVE  \A i \in 0..n : i \in T
<1> DEFINE Missing == {i \in 0..n : i \notin T}
           R == {ss \in Nat \X Nat : ss[1] < ss[2]}
<1> SUFFICES ASSUME Missing # {} PROVE FALSE
  OBVIOUS
<1>1. IsWellFoundedOn(R, Nat)
  <2>1. OpToRel(<, Nat) = R
    BY Zenon DEF OpToRel
  <2> QED BY Zenon, <2>1, NatLessThanWellFounded
<1>2. Missing \subseteq Nat
  OBVIOUS
<1>3. PICK x \in Missing : \A y \in Missing : ~(<<y, x>> \in R)
  <2> HIDE DEF Missing, R
  <2> QED BY Zenon, <1>1, <1>2, WFMin
<1>4. x \in 1..n /\ x - 1 \in 0..n /\ <<x - 1, x>> \in R
  OBVIOUS
<1>5. x - 1 \notin Missing
  BY Zenon, <1>3, <1>4
<1> QED BY <1>4, <1>5

\* f holds the value before the first and after each of n rounds, F[i] being the i-th.
Rounds(f, n, S, x, F) ==
    f \in [0..n -> S] /\ f[0] = x /\ \A i \in 1..n : f[i] = F[i][f[i - 1]]

\* A loop whose i-th round is a function of the value so far has a value after every round.
LEMMA Loop ==
    ASSUME NEW n \in Nat, NEW S, NEW x \in S, NEW F \in [1..n -> [S -> S]]
    PROVE  \E f : Rounds(f, n, S, x, F)
<1> DEFINE Runs(g, k) == g \in [0..k -> S] /\ g[0] = x /\ \A i \in 1..k : g[i] = F[i][g[i - 1]]
           T == {k \in 0..n : \E g : Runs(g, k)}
<1>1. 0 \in T
  <2>1. Runs([i \in 0..0 |-> x], 0)
    OBVIOUS
  <2>2. 0 \in 0..n
    OBVIOUS
  <2> QED BY Zenon, <2>1, <2>2
<1>2. ASSUME NEW k \in 1..n, k - 1 \in T PROVE k \in T
  <2>1. PICK g : Runs(g, k - 1)
    BY Zenon, <1>2
  <2> DEFINE h == [i \in 0..k |-> IF i = k THEN F[k][g[k - 1]] ELSE g[i]]
  <2>2. g[k - 1] \in S /\ F[k] \in [S -> S]
    BY <2>1
  <2>3. h \in [0..k -> S] /\ h[0] = x
    BY <2>1, <2>2
  <2>4. ASSUME NEW i \in 1..k PROVE h[i] = F[i][h[i - 1]]
    <3>1. CASE i = k
      BY <3>1
    <3>2. CASE i # k
      BY <3>2, <2>1
    <3> QED BY <3>1, <3>2
  <2> HIDE DEF h
  <2>5. \E j : Runs(j, k)
    BY Zenon, <2>3, <2>4
  <2> QED BY <2>5
<1> HIDE DEF T
<1>3. \A i \in 0..n : i \in T
  BY Zenon, <1>1, <1>2, UpTo
<1>4. n \in T
  BY <1>3
<1> QED BY Zenon, <1>4 DEF T, Rounds

\* The first n elements of a sequence.
LEMMA Prefix ==
    ASSUME NEW W, NEW s \in Seq(W), NEW n \in 0..Len(s)
    PROVE  /\ SubSeq(s, 1, n) \in Seq(W) /\ Len(SubSeq(s, 1, n)) = n
           /\ \A j \in 1..n : SubSeq(s, 1, n)[j] = s[j]
OBVIOUS

-----------------------------------------------------------------------------
\* The change log.

Logs == [Keys -> Rec]
Images == [Keys -> Rows]

\* Record r says how one key's row went from x to y.
Tells(r, x, y) ==
    /\ r.op = "none"   => x = y
    /\ r.op = "insert" => x = NoRow /\ y = r.new /\ r.new # NoRow
    /\ r.op = "delete" => x = r.old /\ y = NoRow /\ r.old # NoRow
    /\ r.op = "update" => x = r.old /\ y = r.new /\ NoRow \notin {r.old, r.new}

\* Merging two records of a key (mergeRecord) tells the two changes as one.
LEMMA MergeTells ==
    ASSUME NEW r \in Rec, NEW s \in Rec, NEW x \in Rows, NEW y \in Rows, NEW z \in Rows,
           Tells(r, x, y), Tells(s, y, z), s # NoRec
    PROVE  MergeRecord(r, s) \in Rec /\ Tells(MergeRecord(r, s), x, z)
<1>1. NoRec \in Rec /\ NoRec.op = "none"
  BY DEF NoRec, Rec
<1>2. s.op \in {"insert", "update", "delete"}
  BY DEF Rec
<1>3. CASE r.op = "none"
  <2>1. MergeRecord(r, s) = s
    BY <1>3 DEF MergeRecord
  <2> QED BY <2>1, <1>3 DEF Tells
<1>4. CASE r.op = "insert"
  <2>1. r.old \in Rows /\ s.new \in Rows /\ r \in [op : {"insert", "update", "delete"}, old : Rows, new : Rows]
    BY <1>4 DEF Rec, NoRec
  <2>2. CASE s.op = "delete"
    <3>1. MergeRecord(r, s) = NoRec
      BY <1>4, <2>2 DEF MergeRecord
    <3> QED BY <3>1, <1>1, <1>4, <2>2 DEF Tells
  <2>3. CASE s.op \in {"insert", "update"}
    <3>1. MergeRecord(r, s) = [r EXCEPT !.new = s.new]
      BY <1>4, <2>3 DEF MergeRecord
    <3>2. [r EXCEPT !.new = s.new] \in Rec
      BY <2>1 DEF Rec
    <3> QED BY <3>1, <3>2, <2>1, <1>4, <2>3 DEF Tells
  <2> QED BY <1>2, <2>2, <2>3
<1>5. CASE r.op = "update"
  <2>1. /\ r.old \in Rows /\ s.new \in Rows
        /\ r \in [op : {"insert", "update", "delete"}, old : Rows, new : Rows]
        /\ NoRow \in Rows
    BY <1>5 DEF Rec, NoRec, Rows
  <2>2. CASE s.op = "delete"
    <3>1. MergeRecord(r, s) = [r EXCEPT !.op = "delete", !.new = NoRow]
      BY <1>5, <2>2 DEF MergeRecord
    <3>2. [r EXCEPT !.op = "delete", !.new = NoRow] \in Rec
      BY Zenon, <2>1 DEF Rec
    <3> QED BY <3>1, <3>2, <2>1, <1>5, <2>2 DEF Tells
  <2>3. CASE s.op = "update"
    <3>1. MergeRecord(r, s) = [r EXCEPT !.new = s.new]
      BY <1>5, <2>3 DEF MergeRecord
    <3>2. [r EXCEPT !.new = s.new] \in Rec
      BY <2>1 DEF Rec
    <3> QED BY <3>1, <3>2, <2>1, <1>5, <2>3 DEF Tells
  <2>4. s.op # "insert"
    BY <1>5 DEF Tells
  <2> QED BY <1>2, <2>2, <2>3, <2>4
<1>6. CASE r.op = "delete"
  <2>1. r.old \in Rows /\ s.new \in Rows /\ r \in [op : {"insert", "update", "delete"}, old : Rows, new : Rows]
    BY <1>6 DEF Rec, NoRec
  <2>2. s.op = "insert"
    BY <1>2, <1>6 DEF Tells
  <2>3. MergeRecord(r, s) = [r EXCEPT !.op = "update", !.new = s.new]
    BY <1>6, <2>2 DEF MergeRecord
  <2>4. [r EXCEPT !.op = "update", !.new = s.new] \in Rec
    BY Zenon, <2>1 DEF Rec
  <2> QED BY <2>3, <2>4, <2>1, <1>6, <2>2 DEF Tells
<1>7. r.op \in {"none", "insert", "update", "delete"}
  BY DEF Rec, NoRec
<1> QED BY <1>3, <1>4, <1>5, <1>6, <1>7

\* A log that tells how the table went from x to y.
LogTells(log, x, y) == log \in Logs /\ \A k \in Keys : Tells(log[k], x[k], y[k])

\* Merging a layer into the one below it (releaseSavepointLayer) tells both in one layer.
LEMMA MergedTells ==
    ASSUME NEW x \in Images, NEW y \in Images, NEW z \in Images, NEW lower, NEW upper,
           LogTells(lower, x, y), LogTells(upper, y, z)
    PROVE  LogTells(MergeLayers(lower, upper), x, z)
<1> DEFINE both == MergeLayers(lower, upper)
<1>1. ASSUME NEW k \in Keys PROVE both[k] \in Rec /\ Tells(both[k], x[k], z[k])
  <2>1. both[k] = IF upper[k] = NoRec THEN lower[k] ELSE MergeRecord(lower[k], upper[k])
    BY DEF MergeLayers
  <2>2. /\ lower[k] \in Rec /\ upper[k] \in Rec
        /\ x[k] \in Rows /\ y[k] \in Rows /\ z[k] \in Rows
        /\ Tells(lower[k], x[k], y[k]) /\ Tells(upper[k], y[k], z[k])
    BY DEF LogTells, Logs, Images
  <2>3. CASE upper[k] = NoRec
    <3>1. y[k] = z[k]
      BY <2>2, <2>3 DEF Tells, NoRec
    <3> QED BY <2>1, <2>2, <2>3, <3>1
  <2>4. CASE upper[k] # NoRec
    <3> DEFINE m == MergeRecord(lower[k], upper[k])
    <3>1. m \in Rec /\ Tells(m, x[k], z[k])
      BY Zenon, <2>2, <2>4, MergeTells
    <3>2. both[k] = m
      BY Zenon, <2>1, <2>4
    <3> HIDE DEF both, m
    <3> QED BY Zenon, <3>1, <3>2
  <2> QED BY <2>3, <2>4
<1>2. both = [k \in Keys |-> both[k]]
  BY DEF MergeLayers
<1> HIDE DEF both
<1>3. both \in Logs
  BY <1>1, <1>2 DEF Logs
<1> QED BY <1>1, <1>3 DEF LogTells, both

\* The empty log tells that nothing changed.
LEMMA EmptyTells ==
    ASSUME NEW x \in Images
    PROVE  LogTells(EmptyLog, x, x)
BY DEF LogTells, Logs, EmptyLog, Tells, NoRec, Rec

\* The layers of a log, one per table in b: each tells how the table went from the one it
\* starts at to the one the next starts at, the last one up to e.
Spans(s, b, e) ==
    /\ s \in Seq(Logs) /\ Len(s) > 0 /\ Len(s) <= Len(b)
    /\ \A j \in 1..Len(s) - 1 : LogTells(s[j], b[j], b[j + 1])
    /\ LogTells(s[Len(s)], b[Len(s)], e)

\* Releasing the innermost savepoint merges its layer into the one below.
LEMMA ReleaseSpans ==
    ASSUME NEW b \in Seq(Images), NEW e \in Images, NEW s, Spans(s, b, e), Len(s) > 1
    PROVE  Spans(ReleaseLog(s), b, e) /\ Len(ReleaseLog(s)) = Len(s) - 1
<1> DEFINE L == Len(s)
           m == MergeLayers(s[L - 1], s[L])
           r == ReleaseLog(s)
<1>1. s \in Seq(Logs) /\ L \in Nat /\ L > 1 /\ L <= Len(b) /\ Len(b) \in Nat
  BY DEF Spans
<1>2. b[L - 1] \in Images /\ b[L] \in Images
  BY <1>1
<1>3. LogTells(s[L - 1], b[L - 1], b[L]) /\ LogTells(s[L], b[L], e)
  <2>1. L - 1 \in 1..L - 1 /\ (L - 1) + 1 = L
    BY <1>1
  <2> QED BY <2>1 DEF Spans
<1>4. LogTells(m, b[L - 1], e)
  BY Zenon, <1>2, <1>3, MergedTells
<1>5. m \in Logs
  BY <1>4 DEF LogTells
<1>6. PopLayers(s, 2) \in Seq(Logs) /\ Len(PopLayers(s, 2)) = L - 2
      /\ \A j \in 1..L - 2 : PopLayers(s, 2)[j] = s[j]
  <2>1. L - 2 \in 0..Len(s)
    BY <1>1
  <2> QED BY Zenon, <1>1, <2>1, Prefix DEF PopLayers
<1>7. r = Append(PopLayers(s, 2), m)
  BY DEF ReleaseLog
<1> HIDE DEF m, r
<1>8. r \in Seq(Logs) /\ Len(r) = L - 1 /\ r[L - 1] = m
      /\ \A j \in 1..L - 2 : r[j] = s[j]
  BY <1>1, <1>5, <1>6, <1>7
<1>9. ASSUME NEW j \in 1..Len(r) - 1 PROVE LogTells(r[j], b[j], b[j + 1])
  <2>1. j \in 1..L - 2 /\ j \in 1..L - 1
    BY <1>1, <1>8
  <2>2. LogTells(s[j], b[j], b[j + 1])
    BY <2>1 DEF Spans
  <2> QED BY <2>1, <2>2, <1>8
<1>10. LogTells(r[Len(r)], b[Len(r)], e)
  BY <1>4, <1>8
<1>11. Len(r) > 0 /\ Len(r) <= Len(b)
  BY <1>1, <1>8
<1>12. Spans(r, b, e)
  BY Zenon, <1>8, <1>9, <1>10, <1>11 DEF Spans
<1> QED BY <1>8, <1>12 DEF r

\* Releasing n savepoints leaves n layers fewer, and the same tables told.
LEMMA ReleasedSpans ==
    ASSUME NEW b \in Seq(Images), NEW e \in Images, NEW s, Spans(s, b, e),
           NEW n \in Nat, n < Len(s)
    PROVE  Spans(ReleaseLogs(s, n), b, e) /\ Len(ReleaseLogs(s, n)) = Len(s) - n
<1> DEFINE S == Seq(Logs)
           Round(q) == IF Len(q) > 1 /\ Spans(q, b, e) THEN ReleaseLog(q) ELSE q
           F == [i \in 1..n |-> [q \in S |-> Round(q)]]
           left == CHOOSE u : u = [i \in 0..n |-> IF i = 0 THEN s ELSE ReleaseLog(u[i - 1])]
           Good(u, i) == Spans(u[i], b, e) /\ Len(u[i]) = Len(s) - i
<1>0. s \in S /\ Len(s) \in Nat
  BY DEF Spans
<1>1. F \in [1..n -> [S -> S]]
  <2>1. ASSUME NEW q \in S PROVE Round(q) \in S
    <3>1. CASE Len(q) > 1 /\ Spans(q, b, e)
      <4>1. Spans(ReleaseLog(q), b, e)
        BY Zenon, <3>1, ReleaseSpans
      <4> QED BY <3>1, <4>1 DEF Spans
    <3>2. CASE ~(Len(q) > 1 /\ Spans(q, b, e))
      BY Zenon, <3>2
    <3> QED BY Zenon, <3>1, <3>2
  <2> HIDE DEF Round, S
  <2> QED BY <2>1
<1>2. PICK f : Rounds(f, n, S, s, F)
  <2> HIDE DEF F, S
  <2> QED BY Zenon, <1>0, <1>1, Loop
<1>3. \A i \in 1..n : f[i - 1] \in S /\ f[i] = Round(f[i - 1])
  <2> HIDE DEF Round, S
  <2> QED BY <1>2 DEF Rounds
<1>4. \A i \in 0..n : Good(f, i)
  <2> DEFINE T == {i \in 0..n : Good(f, i)}
  <2>1. 0 \in T
    BY <1>0, <1>2 DEF Rounds
  <2>2. ASSUME NEW i \in 1..n, i - 1 \in T PROVE i \in T
    <3>1. Spans(f[i - 1], b, e) /\ Len(f[i - 1]) = Len(s) - (i - 1)
      BY Zenon, <2>2
    <3>2. Len(f[i - 1]) > 1
      BY <1>0, <3>1
    <3>3. f[i] = ReleaseLog(f[i - 1])
      BY Zenon, <1>3, <3>1, <3>2
    <3>4. Spans(f[i], b, e) /\ Len(f[i]) = Len(f[i - 1]) - 1
      BY Zenon, <3>1, <3>2, <3>3, ReleaseSpans
    <3>5. Len(f[i]) = Len(s) - i
      BY <1>0, <3>1, <3>4
    <3> QED BY <3>4, <3>5
  <2>3. \A i \in 0..n : i \in T
    <3> HIDE DEF T
    <3> QED BY Zenon, <2>1, <2>2, UpTo
  <2> QED BY Zenon, <2>3
<1>5. ASSUME NEW i \in 1..n PROVE f[i] = ReleaseLog(f[i - 1])
  <2>1. i - 1 \in 0..n /\ i - 1 < n
    OBVIOUS
  <2>2. Spans(f[i - 1], b, e) /\ Len(f[i - 1]) = Len(s) - (i - 1)
    BY Zenon, <1>4, <2>1
  <2>3. Len(f[i - 1]) > 1
    BY <1>0, <2>2
  <2> QED BY Zenon, <1>3, <2>2, <2>3
<1>6. f = [i \in 0..n |-> IF i = 0 THEN s ELSE ReleaseLog(f[i - 1])]
  BY <1>2, <1>5 DEF Rounds
<1>7. left = [i \in 0..n |-> IF i = 0 THEN s ELSE ReleaseLog(left[i - 1])]
  BY Zenon, <1>6
<1>8. ReleaseLogs(s, n) = left[n]
  BY DEF ReleaseLogs
<1> HIDE DEF left, Good
<1>9. \A i \in 0..n : left[i] = f[i]
  <2> DEFINE T == {i \in 0..n : left[i] = f[i]}
  <2>1. 0 \in T
    BY <1>2, <1>7 DEF Rounds
  <2>2. ASSUME NEW i \in 1..n, i - 1 \in T PROVE i \in T
    <3>1. left[i] = ReleaseLog(left[i - 1])
      BY <1>7
    <3> QED BY <3>1, <1>5, <2>2
  <2>3. \A i \in 0..n : i \in T
    <3> HIDE DEF T
    <3> QED BY Zenon, <2>1, <2>2, UpTo
  <2> QED BY Zenon, <2>3
<1>10. Good(f, n) /\ ReleaseLogs(s, n) = f[n]
  BY <1>4, <1>8, <1>9
<1> QED BY <1>10 DEF Good

\* The table that layer j of n leads to.
After(b, e, n, j) == IF j < n THEN b[j + 1] ELSE e

\* All layers merged, bottom first, tell the whole transaction.
LEMMA NetTells ==
    ASSUME NEW b \in Seq(Images), NEW e \in Images, Spans(changeLog, b, e)
    PROVE  LogTells(NetLog, b[1], e)
<1> DEFINE s == changeLog
           N == Len(s)
           To(i) == IF i = 0 THEN b[1] ELSE After(b, e, N, i)
           Good(q, i) == LogTells(q, b[1], To(i))
           F == [i \in 1..N |-> [q \in Logs |-> IF Good(q, i - 1) THEN MergeLayers(q, s[i]) ELSE q]]
           net == CHOOSE u : u = [i \in 0..N |-> IF i = 0 THEN EmptyLog ELSE MergeLayers(u[i - 1], s[i])]
<1>0. N \in Nat /\ N > 0 /\ Len(b) \in Nat /\ N <= Len(b)
  BY DEF Spans
<1>1. \A i \in 0..N : To(i) \in Images
  BY <1>0 DEF After
<1>2. b[1] \in Images /\ To(0) = b[1] /\ To(N) = e
  BY <1>0 DEF After
<1>3. ASSUME NEW i \in 1..N PROVE LogTells(s[i], To(i - 1), To(i))
  <2>1. To(i - 1) = b[i]
    BY <1>0 DEF After
  <2>2. CASE i = N
    <3>1. To(i) = e
      BY <2>2, <1>0 DEF After
    <3> HIDE DEF To
    <3> QED BY <2>1, <2>2, <3>1 DEF Spans
  <2>3. CASE i # N
    <3>1. To(i) = b[i + 1] /\ i \in 1..N - 1
      BY <2>3, <1>0 DEF After
    <3> HIDE DEF To
    <3> QED BY <2>1, <3>1 DEF Spans
  <2> QED BY <2>2, <2>3
<1> HIDE DEF To, N
<1>4. ASSUME NEW i \in 1..N, NEW q, Good(q, i - 1) PROVE Good(MergeLayers(q, s[i]), i)
  <2>1. i - 1 \in 0..N /\ i \in 0..N
    BY <1>0
  <2>2. To(i - 1) \in Images /\ To(i) \in Images
    BY Zenon, <1>1, <2>1
  <2> QED BY Zenon, <1>2, <1>3, <1>4, <2>2, MergedTells
<1>5. F \in [1..N -> [Logs -> Logs]]
  <2>1. ASSUME NEW i \in 1..N, NEW q \in Logs, Good(q, i - 1) PROVE MergeLayers(q, s[i]) \in Logs
    BY Zenon, <1>4, <2>1 DEF LogTells
  <2> HIDE DEF Good
  <2> QED BY <2>1
<1>6. EmptyLog \in Logs /\ Good(EmptyLog, 0)
  BY Zenon, <1>2, EmptyTells DEF LogTells
<1>7. PICK f : Rounds(f, N, Logs, EmptyLog, F)
  <2> HIDE DEF F
  <2> QED BY Zenon, <1>0, <1>5, <1>6, Loop
<1>8. \A i \in 1..N : f[i] = IF Good(f[i - 1], i - 1) THEN MergeLayers(f[i - 1], s[i]) ELSE f[i - 1]
  <2> SUFFICES ASSUME NEW i \in 1..N
               PROVE  f[i] = IF Good(f[i - 1], i - 1) THEN MergeLayers(f[i - 1], s[i]) ELSE f[i - 1]
    OBVIOUS
  <2>1. f[i - 1] \in Logs /\ f[i] = F[i][f[i - 1]]
    <3> HIDE DEF F, Good
    <3> QED BY <1>0, <1>7 DEF Rounds
  <2> HIDE DEF Good
  <2> QED BY <2>1
<1>9. \A i \in 0..N : Good(f[i], i)
  <2> DEFINE T == {i \in 0..N : Good(f[i], i)}
  <2>1. 0 \in T
    <3>1. f[0] = EmptyLog /\ 0 \in 0..N
      BY <1>0, <1>7 DEF Rounds
    <3> QED BY Zenon, <1>6, <3>1
  <2>2. ASSUME NEW i \in 1..N, i - 1 \in T PROVE i \in T
    <3>1. Good(f[i - 1], i - 1)
      BY Zenon, <2>2
    <3>2. Good(f[i], i)
      BY Zenon, <1>4, <1>8, <3>1
    <3>3. i \in 0..N
      BY <1>0
    <3> QED BY Zenon, <3>2, <3>3
  <2>3. \A i \in 0..N : i \in T
    <3> HIDE DEF T
    <3> QED BY Zenon, <1>0, <2>1, <2>2, UpTo
  <2> QED BY Zenon, <2>3
<1> HIDE DEF Good
<1>10. ASSUME NEW i \in 1..N PROVE f[i] = MergeLayers(f[i - 1], s[i])
  <2>1. i - 1 \in 0..N
    BY <1>0
  <2> QED BY Zenon, <1>8, <1>9, <2>1
<1>11. f = [i \in 0..N |-> IF i = 0 THEN EmptyLog ELSE MergeLayers(f[i - 1], s[i])]
  BY <1>0, <1>7, <1>10 DEF Rounds
<1>12. net = [i \in 0..N |-> IF i = 0 THEN EmptyLog ELSE MergeLayers(net[i - 1], s[i])]
  BY Zenon, <1>11
<1>13. NetLog = net[N]
  BY DEF NetLog, N
<1> HIDE DEF net
<1>14. \A i \in 0..N : net[i] = f[i]
  <2> DEFINE T == {i \in 0..N : net[i] = f[i]}
  <2>1. 0 \in T
    BY <1>0, <1>7, <1>12 DEF Rounds
  <2>2. ASSUME NEW i \in 1..N, i - 1 \in T PROVE i \in T
    <3>1. net[i] = MergeLayers(net[i - 1], s[i])
      BY <1>0, <1>12
    <3> QED BY <3>1, <1>0, <1>10, <2>2
  <2>3. \A i \in 0..N : i \in T
    <3> HIDE DEF T
    <3> QED BY Zenon, <1>0, <2>1, <2>2, UpTo
  <2> QED BY Zenon, <2>3
<1>15. N \in 0..N
  BY <1>0
<1>16. Good(NetLog, N)
  BY Zenon, <1>9, <1>13, <1>14, <1>15
<1> QED BY Zenon, <1>2, <1>16 DEF Good

-----------------------------------------------------------------------------
\* The stores that are sequences.

\* Releasing n savepoints leaves n layers fewer.
LEMMA ReleasedLayers ==
    ASSUME NEW W, NEW s \in Seq(Seq(W)), NEW n \in Nat, n < Len(s)
    PROVE  ReleaseLayers(s, n) \in Seq(Seq(W)) /\ Len(ReleaseLayers(s, n)) = Len(s) - n
<1> DEFINE S == Seq(Seq(W))
           F == [i \in 1..n |-> [q \in S |-> IF Len(q) > 1 THEN ReleaseLayer(q) ELSE q]]
           left == CHOOSE u : u = [i \in 0..n |-> IF i = 0 THEN s ELSE ReleaseLayer(u[i - 1])]
<1>0. s \in S /\ Len(s) \in Nat
  OBVIOUS
<1>1. ASSUME NEW q \in S, Len(q) > 1
      PROVE  ReleaseLayer(q) \in S /\ Len(ReleaseLayer(q)) = Len(q) - 1
  <2> DEFINE r == PopLayers(q, 2)
             t == q[Len(q) - 1] \o q[Len(q)]
  <2>1. Len(q) \in Nat /\ Len(q) - 2 \in 0..Len(q)
    BY <1>1
  <2>2. r \in S /\ Len(r) = Len(q) - 2 /\ Len(q) \in Nat
    BY Zenon, <2>1, Prefix DEF PopLayers
  <2>3. t \in Seq(W)
    <3>1. q[Len(q) - 1] \in Seq(W) /\ q[Len(q)] \in Seq(W)
      BY <1>1
    <3> QED BY <3>1
  <2>4. ReleaseLayer(q) = Append(r, t)
    BY DEF ReleaseLayer
  <2> HIDE DEF r, t
  <2> QED BY <1>1, <2>2, <2>3, <2>4
<1>2. F \in [1..n -> [S -> S]]
  <2> HIDE DEF S
  <2> QED BY <1>1
<1>3. PICK f : Rounds(f, n, S, s, F)
  <2> HIDE DEF F, S
  <2> QED BY Zenon, <1>0, <1>2, Loop
<1>4. f \in [0..n -> S] /\ f[0] = s /\ \A i \in 1..n : f[i] = IF Len(f[i - 1]) > 1 THEN ReleaseLayer(f[i - 1]) ELSE f[i - 1]
  <2>1. f \in [0..n -> S] /\ f[0] = s
    BY Zenon, <1>3 DEF Rounds
  <2>2. ASSUME NEW i \in 1..n
        PROVE  f[i] = IF Len(f[i - 1]) > 1 THEN ReleaseLayer(f[i - 1]) ELSE f[i - 1]
    <3>1. f[i] = F[i][f[i - 1]]
      BY Zenon, <1>3 DEF Rounds
    <3> HIDE DEF S
    <3>2. f[i - 1] \in S
      BY <2>1
    <3> QED BY <3>1, <3>2
  <2> QED BY Zenon, <2>1, <2>2
<1> HIDE DEF F, S
<1>5. \A i \in 0..n : Len(f[i]) = Len(s) - i
  <2> DEFINE T == {i \in 0..n : Len(f[i]) = Len(s) - i}
  <2>1. 0 \in T
    BY <1>0, <1>4
  <2>2. ASSUME NEW i \in 1..n, i - 1 \in T PROVE i \in T
    <3>1. Len(f[i - 1]) = Len(s) - (i - 1) /\ f[i - 1] \in S
      BY Zenon, <1>4, <2>2
    <3>2. Len(f[i - 1]) > 1
      BY <1>0, <3>1
    <3>3. Len(f[i]) = Len(f[i - 1]) - 1
      BY Zenon, <1>1, <1>4, <3>1, <3>2
    <3> QED BY <1>0, <3>1, <3>3
  <2>3. \A i \in 0..n : i \in T
    <3> HIDE DEF T
    <3> QED BY Zenon, <2>1, <2>2, UpTo
  <2> QED BY Zenon, <2>3
<1>6. ASSUME NEW i \in 1..n PROVE f[i] = ReleaseLayer(f[i - 1])
  <2>0. i - 1 \in 0..n
    OBVIOUS
  <2>1. Len(f[i - 1]) = Len(s) - (i - 1)
    BY Zenon, <1>5, <2>0
  <2>2. Len(f[i - 1]) > 1
    BY <1>0, <2>1
  <2> QED BY Zenon, <1>4, <2>2
<1>7. f = [i \in 0..n |-> IF i = 0 THEN s ELSE ReleaseLayer(f[i - 1])]
  BY <1>4, <1>6
<1>8. left = [i \in 0..n |-> IF i = 0 THEN s ELSE ReleaseLayer(left[i - 1])]
  BY Zenon, <1>7
<1>9. ReleaseLayers(s, n) = left[n]
  BY DEF ReleaseLayers
<1> HIDE DEF left
<1>10. \A i \in 0..n : left[i] = f[i]
  <2> DEFINE T == {i \in 0..n : left[i] = f[i]}
  <2>1. 0 \in T
    BY <1>4, <1>8
  <2>2. ASSUME NEW i \in 1..n, i - 1 \in T PROVE i \in T
    <3>1. left[i] = ReleaseLayer(left[i - 1])
      BY <1>8
    <3> QED BY <3>1, <1>6, <2>2
  <2>3. \A i \in 0..n : i \in T
    <3> HIDE DEF T
    <3> QED BY Zenon, <2>1, <2>2, UpTo
  <2> QED BY Zenon, <2>3
<1>11. ReleaseLayers(s, n) = f[n] /\ f[n] \in S /\ Len(f[n]) = Len(s) - n
  BY <1>4, <1>5, <1>9, <1>10
<1> QED BY <1>11 DEF S

\* The layers read as one sequence hold what the layers hold.
LEMMA Flattened ==
    ASSUME NEW W, NEW s \in Seq(Seq(W))
    PROVE  Flat(s) \in Seq(W)
<1> DEFINE N == Len(s)
           S == Seq(W)
           F == [i \in 1..N |-> [q \in S |-> q \o s[i]]]
           flat == CHOOSE u : u = [i \in 0..N |-> IF i = 0 THEN <<>> ELSE u[i - 1] \o s[i]]
<1>1. N \in Nat /\ <<>> \in S /\ \A i \in 1..N : s[i] \in S
  OBVIOUS
<1>2. F \in [1..N -> [S -> S]]
  <2>1. \A q \in S, r \in S : q \o r \in S
    OBVIOUS
  <2> HIDE DEF S, N
  <2> QED BY <1>1, <2>1
<1>3. PICK f : Rounds(f, N, S, <<>>, F)
  <2> HIDE DEF F, S, N
  <2> QED BY Zenon, <1>1, <1>2, Loop
<1>4. f \in [0..N -> S] /\ f[0] = <<>>
  BY Zenon, <1>3 DEF Rounds
<1>5. ASSUME NEW i \in 1..N PROVE f[i] = f[i - 1] \o s[i]
  <2>1. f[i] = F[i][f[i - 1]]
    BY Zenon, <1>3 DEF Rounds
  <2>2. i - 1 \in 0..N
    BY <1>1
  <2>3. f[i - 1] \in S
    BY Zenon, <1>4, <2>2
  <2> QED BY Zenon, <2>1, <2>3
<1>6. f = [i \in 0..N |-> IF i = 0 THEN <<>> ELSE f[i - 1] \o s[i]]
  <2> HIDE DEF N, S
  <2> QED BY <1>1, <1>4, <1>5
<1>7. flat = [i \in 0..N |-> IF i = 0 THEN <<>> ELSE flat[i - 1] \o s[i]]
  BY Zenon, <1>6
<1>8. Flat(s) = flat[N]
  BY DEF Flat
<1> HIDE DEF flat
<1>9. \A i \in 0..N : flat[i] = f[i]
  <2> DEFINE T == {i \in 0..N : flat[i] = f[i]}
  <2> HIDE DEF N
  <2>1. 0 \in T
    BY <1>1, <1>4, <1>7
  <2>2. ASSUME NEW i \in 1..N, i - 1 \in T PROVE i \in T
    <3>1. i \in 0..N /\ i # 0
      BY <1>1
    <3>2. flat[i] = flat[i - 1] \o s[i]
      BY Zenon, <1>7, <3>1
    <3>3. flat[i - 1] = f[i - 1]
      BY Zenon, <2>2
    <3>4. flat[i] = f[i]
      BY Zenon, <1>5, <3>2, <3>3
    <3> QED BY Zenon, <3>1, <3>4
  <2>3. \A i \in 0..N : i \in T
    <3> HIDE DEF T
    <3> QED BY Zenon, <1>1, <2>1, <2>2, UpTo
  <2> QED BY Zenon, <2>3
<1>10. N \in 0..N
  BY <1>1
<1>11. flat[N] = f[N] /\ f[N] \in S
  BY Zenon, <1>4, <1>9, <1>10
<1> QED BY Zenon, <1>8, <1>11

\* A function on 1..n is a sequence.
LEMMA Listed ==
    ASSUME NEW W, NEW n \in Nat, NEW r \in [1..n -> W]
    PROVE  r \in Seq(W)
OBVIOUS

\* A sequence read backwards holds what it held.
LEMMA Reversed ==
    ASSUME NEW W, NEW s \in Seq(W)
    PROVE  Backwards(s) \in Seq(W) /\ Len(Backwards(s)) = Len(s)
BY DEF Backwards

\* What rolling back to a savepoint undoes was booked in the layers it undoes.
LEMMA Unwound ==
    ASSUME NEW W, NEW s \in Seq(Seq(W))
    PROVE  Unwind(s) \in Seq(W)
<1> DEFINE r == [i \in DOMAIN s |-> Backwards(s[i])]
<1>1. \A i \in DOMAIN s : Backwards(s[i]) \in Seq(W)
  <2> SUFFICES ASSUME NEW i \in DOMAIN s PROVE Backwards(s[i]) \in Seq(W)
    OBVIOUS
  <2>1. s[i] \in Seq(W)
    OBVIOUS
  <2> QED BY Zenon, <2>1, Reversed
<1>2. DOMAIN s = 1..Len(s) /\ Len(s) \in Nat
  OBVIOUS
<1>3. r \in [1..Len(s) -> Seq(W)]
  BY Zenon, <1>1, <1>2
<1> HIDE DEF r
<1>4. r \in Seq(Seq(W))
  BY Zenon, <1>2, <1>3, Listed
<1>5. Flat(Backwards(r)) \in Seq(W)
  BY Zenon, <1>4, Reversed, Flattened
<1> QED BY Zenon, <1>5 DEF Unwind, r

-----------------------------------------------------------------------------
\* What the operations do to the layers of the change log.

\* The table that each layer of the change log starts at.
Starts(sv, x) == [j \in 1..Len(sv) + 1 |-> IF j = 1 THEN x ELSE sv[j - 1]]

\* One table per layer: the one the transaction began with, then the savepoints' ones.
LEMMA StartsFacts ==
    ASSUME NEW sv \in Seq(Images), NEW x \in Images
    PROVE  /\ Starts(sv, x) \in Seq(Images)
           /\ Len(Starts(sv, x)) = Len(sv) + 1
           /\ Starts(sv, x)[1] = x
           /\ \A j \in 1..Len(sv) : Starts(sv, x)[j + 1] = sv[j]
<1> DEFINE b == Starts(sv, x)
           n == Len(sv) + 1
<1>1. n \in Nat /\ Len(sv) \in Nat /\ 1 \in 1..n
  OBVIOUS
<1>2. \A j \in 1..n : b[j] = IF j = 1 THEN x ELSE sv[j - 1]
  BY Zenon DEF Starts
<1>3. \A j \in 1..n : b[j] \in Images
  <2> SUFFICES ASSUME NEW j \in 1..n PROVE b[j] \in Images
    OBVIOUS
  <2>1. CASE j = 1
    BY Zenon, <1>2, <2>1
  <2>2. CASE j # 1
    <3>1. sv[j - 1] \in Images
      BY <2>2
    <3> QED BY Zenon, <1>2, <2>2, <3>1
  <2> QED BY Zenon, <2>1, <2>2
<1>4. b = [j \in 1..n |-> b[j]]
  BY Zenon DEF Starts
<1>5. b \in [1..n -> Images] /\ DOMAIN b = 1..n
  <2> HIDE DEF b, n
  <2>1. b \in [1..n -> Images]
    BY <1>3, <1>4
  <2> QED BY <2>1
<1>6. b \in Seq(Images)
  BY Zenon, <1>1, <1>5, Listed
<1>7. Len(b) = n
  <2> HIDE DEF b, n
  <2> QED BY <1>1, <1>5, <1>6
<1>8. \A j \in 1..Len(sv) : b[j + 1] = sv[j]
  <2> SUFFICES ASSUME NEW j \in 1..Len(sv) PROVE b[j + 1] = sv[j]
    OBVIOUS
  <2>1. j + 1 \in 1..n /\ j + 1 # 1 /\ (j + 1) - 1 = j
    BY <1>1
  <2>2. b[j + 1] = sv[(j + 1) - 1]
    BY Zenon, <1>2, <2>1
  <2> QED BY <2>1, <2>2
<1>9. b[1] = x
  BY Zenon, <1>1, <1>2
<1> QED BY Zenon, <1>6, <1>7, <1>8, <1>9

\* Only the tables at which the layers start matter.
LEMMA SameStarts ==
    ASSUME NEW b \in Seq(Images), NEW c \in Seq(Images), NEW e, NEW s, Spans(s, b, e),
           Len(s) <= Len(c), \A j \in 1..Len(s) : c[j] = b[j]
    PROVE  Spans(s, c, e)
<1>1. s \in Seq(Logs) /\ Len(s) > 0 /\ Len(s) \in Nat
  BY DEF Spans
<1>2. ASSUME NEW j \in 1..Len(s) - 1 PROVE LogTells(s[j], c[j], c[j + 1])
  <2>1. j \in 1..Len(s) /\ j + 1 \in 1..Len(s)
    BY <1>1
  <2>2. LogTells(s[j], b[j], b[j + 1])
    BY Zenon DEF Spans
  <2> QED BY Zenon, <2>1, <2>2
<1>3. Len(s) \in 1..Len(s)
  BY <1>1
<1>4. LogTells(s[Len(s)], c[Len(s)], e)
  BY Zenon, <1>3 DEF Spans
<1> QED BY Zenon, <1>1, <1>2, <1>4 DEF Spans

\* A new savepoint: an empty layer that starts at the current table.
LEMMA PushSpans ==
    ASSUME NEW b \in Seq(Images), NEW e \in Images, NEW s, Spans(s, b, e),
           Len(s) < Len(b), b[Len(s) + 1] = e
    PROVE  Spans(Append(s, EmptyLog), b, e)
<1> DEFINE r == Append(s, EmptyLog)
<1>1. s \in Seq(Logs) /\ Len(s) > 0 /\ Len(s) \in Nat /\ Len(b) \in Nat
  BY DEF Spans
<1>2. LogTells(EmptyLog, e, e)
  BY Zenon, EmptyTells
<1>3. EmptyLog \in Logs
  BY Zenon, <1>2 DEF LogTells
<1>4. /\ r \in Seq(Logs) /\ Len(r) = Len(s) + 1 /\ r[Len(s) + 1] = EmptyLog
      /\ \A j \in 1..Len(s) : r[j] = s[j]
  BY <1>1, <1>3
<1> HIDE DEF r
<1>5. ASSUME NEW j \in 1..Len(r) - 1 PROVE LogTells(r[j], b[j], b[j + 1])
  <2>1. j \in 1..Len(s)
    BY <1>1, <1>4
  <2>2. r[j] = s[j]
    BY Zenon, <1>4, <2>1
  <2>3. CASE j = Len(s)
    BY Zenon, <2>2, <2>3 DEF Spans
  <2>4. CASE j # Len(s)
    <3>1. j \in 1..Len(s) - 1
      BY <1>1, <2>1, <2>4
    <3> QED BY Zenon, <2>2, <3>1 DEF Spans
  <2> QED BY Zenon, <2>3, <2>4
<1>6. LogTells(r[Len(r)], b[Len(r)], e)
  BY Zenon, <1>2, <1>4
<1>7. Len(r) > 0 /\ Len(r) <= Len(b)
  BY <1>1, <1>4
<1>8. Spans(r, b, e)
  BY Zenon, <1>4, <1>5, <1>6, <1>7 DEF Spans
<1> QED BY Zenon, <1>8 DEF r

\* The layers below a savepoint tell the way to the table it was made at.
LEMMA CutSpans ==
    ASSUME NEW b \in Seq(Images), NEW e, NEW s, Spans(s, b, e), NEW i \in 1..Len(s) - 1
    PROVE  Spans(SubSeq(s, 1, i), b, b[i + 1]) /\ Len(SubSeq(s, 1, i)) = i
<1> DEFINE r == SubSeq(s, 1, i)
<1>1. s \in Seq(Logs) /\ Len(s) > 0 /\ Len(s) \in Nat /\ Len(b) \in Nat /\ Len(s) <= Len(b)
  BY DEF Spans
<1>2. r \in Seq(Logs) /\ Len(r) = i /\ \A j \in 1..i : r[j] = s[j]
  BY <1>1
<1> HIDE DEF r
<1>3. ASSUME NEW j \in 1..i PROVE LogTells(r[j], b[j], b[j + 1])
  <2>1. j \in 1..Len(s) - 1
    BY <1>1
  <2> QED BY Zenon, <1>2, <2>1 DEF Spans
<1>4. /\ Len(r) > 0 /\ Len(r) <= Len(b) /\ i \in 1..i
      /\ \A j \in 1..Len(r) - 1 : j \in 1..i
  BY <1>1, <1>2
<1>5. Spans(r, b, b[i + 1])
  BY Zenon, <1>2, <1>3, <1>4 DEF Spans
<1> QED BY Zenon, <1>2, <1>5 DEF r

\* A row change goes into the top layer.
LEMMA TopSpans ==
    ASSUME NEW b \in Seq(Images), NEW e, NEW f, NEW s, Spans(s, b, e), NEW log,
           LogTells(log, b[Len(s)], f)
    PROVE  Spans(OnTop(s, log), b, f) /\ Len(OnTop(s, log)) = Len(s)
<1> DEFINE r == OnTop(s, log)
<1>1. s \in Seq(Logs) /\ Len(s) > 0 /\ Len(s) \in Nat /\ Len(b) \in Nat /\ Len(s) <= Len(b)
  BY DEF Spans
<1>2. log \in Logs
  BY Zenon DEF LogTells
<1>3. /\ r \in Seq(Logs) /\ Len(r) = Len(s) /\ r[Len(s)] = log
      /\ \A j \in 1..Len(s) - 1 : r[j] = s[j]
  BY <1>1, <1>2 DEF OnTop
<1> HIDE DEF r
<1>4. ASSUME NEW j \in 1..Len(r) - 1 PROVE LogTells(r[j], b[j], b[j + 1])
  BY Zenon, <1>3 DEF Spans
<1>5. Spans(r, b, f)
  BY Zenon, <1>1, <1>3, <1>4 DEF Spans
<1> QED BY Zenon, <1>3, <1>5 DEF r

-----------------------------------------------------------------------------
\* What recording a row change does to a layer.

\* A layer that absorbs the record of one change tells that change too.
LEMMA RecordTells ==
    ASSUME NEW x \in Images, NEW y \in Images, NEW log, LogTells(log, x, y),
           NEW k \in Keys, NEW v \in Rows, NEW rec \in Rec, rec # NoRec, Tells(rec, y[k], v)
    PROVE  LogTells([log EXCEPT ![k] = MergeRecord(@, rec)], x, [y EXCEPT ![k] = v])
<1> DEFINE m == MergeRecord(log[k], rec)
           new == [log EXCEPT ![k] = m]
           z == [y EXCEPT ![k] = v]
<1>1. log \in Logs /\ log[k] \in Rec /\ x[k] \in Rows /\ y[k] \in Rows /\ Tells(log[k], x[k], y[k])
  BY DEF LogTells, Logs, Images
<1>2. m \in Rec /\ Tells(m, x[k], v)
  BY Zenon, <1>1, MergeTells
<1> HIDE DEF m
<1>3. new \in Logs /\ new[k] = m /\ \A j \in Keys : j # k => new[j] = log[j]
  BY <1>1, <1>2 DEF Logs
<1>4. z[k] = v /\ \A j \in Keys : j # k => z[j] = y[j]
  BY DEF Images
<1> HIDE DEF new, z
<1>5. ASSUME NEW j \in Keys PROVE Tells(new[j], x[j], z[j])
  <2>1. CASE j = k
    BY Zenon, <1>2, <1>3, <1>4, <2>1
  <2>2. CASE j # k
    <3>1. Tells(log[j], x[j], y[j])
      BY Zenon DEF LogTells
    <3>2. new[j] = log[j] /\ z[j] = y[j]
      BY Zenon, <1>3, <1>4, <2>2
    <3> QED BY Zenon, <3>1, <3>2
  <2> QED BY Zenon, <2>1, <2>2
<1>6. LogTells(new, x, z)
  BY Zenon, <1>3, <1>5 DEF LogTells
<1> QED BY Zenon, <1>6 DEF new, z, m

\* recordInsert.
LEMMA InsertTells ==
    ASSUME NEW x \in Images, NEW y \in Images, NEW log, LogTells(log, x, y),
           NEW k \in Keys, NEW v \in Values, y[k] = NoRow
    PROVE  LogTells(RecordInsert(log, k, v), x, [y EXCEPT ![k] = v])
<1> DEFINE rec == [op |-> "insert", old |-> NoRow, new |-> v]
<1>1. v \in Rows /\ NoRow \in Rows /\ v # NoRow
  BY ConstantsAssumption DEF Rows
<1>2. rec \in Rec /\ rec # NoRec
  BY <1>1 DEF Rec, NoRec
<1>3. Tells(rec, y[k], v)
  BY <1>1 DEF Tells
<1> HIDE DEF rec
<1>4. LogTells([log EXCEPT ![k] = MergeRecord(@, rec)], x, [y EXCEPT ![k] = v])
  BY Zenon, <1>1, <1>2, <1>3, RecordTells
<1> QED BY Zenon, <1>4 DEF RecordInsert, rec

\* recordDelete.
LEMMA DeleteTells ==
    ASSUME NEW x \in Images, NEW y \in Images, NEW log, LogTells(log, x, y),
           NEW k \in Keys, y[k] # NoRow
    PROVE  LogTells(RecordDelete(log, k, y[k]), x, [y EXCEPT ![k] = NoRow])
<1> DEFINE rec == [op |-> "delete", old |-> y[k], new |-> NoRow]
<1>1. y[k] \in Rows /\ NoRow \in Rows
  BY DEF Rows, Images
<1>2. rec \in Rec /\ rec # NoRec
  BY <1>1 DEF Rec, NoRec
<1>3. Tells(rec, y[k], NoRow)
  BY <1>1 DEF Tells
<1> HIDE DEF rec
<1>4. LogTells([log EXCEPT ![k] = MergeRecord(@, rec)], x, [y EXCEPT ![k] = NoRow])
  BY Zenon, <1>1, <1>2, <1>3, RecordTells
<1> QED BY Zenon, <1>4 DEF RecordDelete, rec

\* recordUpdate, in place or to a free key.
LEMMA UpdateTells ==
    ASSUME NEW x \in Images, NEW y \in Images, NEW log, LogTells(log, x, y),
           NEW k \in Keys, NEW k2 \in Keys, NEW v \in Values, y[k] # NoRow,
           k2 # k => y[k2] = NoRow
    PROVE  LogTells(RecordUpdate(log, k, y[k], k2, v), x, [y EXCEPT ![k] = NoRow, ![k2] = v])
<1> DEFINE z == [y EXCEPT ![k] = NoRow]
           w == [y EXCEPT ![k] = NoRow, ![k2] = v]
<1>1. v \in Rows /\ NoRow \in Rows /\ v # NoRow /\ y[k] \in Rows
  BY ConstantsAssumption DEF Rows, Images
<1>2. w = [z EXCEPT ![k2] = v]
  OBVIOUS
<1>3. CASE k = k2
  <2> DEFINE rec == [op |-> "update", old |-> y[k], new |-> v]
  <2>1. w = [y EXCEPT ![k] = v]
    BY Zenon, <1>3 DEF Images
  <2>2. rec \in Rec /\ rec # NoRec
    BY <1>1 DEF Rec, NoRec
  <2>3. Tells(rec, y[k], v)
    BY <1>1 DEF Tells
  <2> HIDE DEF rec, w, z
  <2>4. LogTells([log EXCEPT ![k] = MergeRecord(@, rec)], x, [y EXCEPT ![k] = v])
    BY Zenon, <1>1, <2>2, <2>3, RecordTells
  <2>5. RecordUpdate(log, k, y[k], k2, v) = [log EXCEPT ![k] = MergeRecord(@, rec)]
    BY Zenon, <1>3 DEF RecordUpdate, rec
  <2>6. LogTells(RecordUpdate(log, k, y[k], k2, v), x, w)
    BY Zenon, <2>1, <2>4, <2>5
  <2> QED BY Zenon, <2>6 DEF w
<1>4. CASE k # k2
  <2> DEFINE gone == RecordDelete(log, k, y[k])
  <2>1. z \in Images /\ z[k2] = NoRow
    BY <1>1, <1>4 DEF Images
  <2>2. LogTells(gone, x, z)
    BY Zenon, DeleteTells
  <2> HIDE DEF gone, z, w
  <2>3. LogTells(RecordInsert(gone, k2, v), x, [z EXCEPT ![k2] = v])
    BY Zenon, <2>1, <2>2, InsertTells
  <2>4. RecordUpdate(log, k, y[k], k2, v) = RecordInsert(gone, k2, v)
    BY Zenon, <1>4 DEF RecordUpdate, gone
  <2>5. LogTells(RecordUpdate(log, k, y[k], k2, v), x, w)
    BY Zenon, <1>2, <2>3, <2>4
  <2> QED BY Zenon, <2>5 DEF w
<1> QED BY Zenon, <1>3, <1>4

-----------------------------------------------------------------------------
\* The invariant.

\* A store of n layers, each a sequence of row changes.
Deep(s, n) == s \in Seq(Seq(Work)) /\ Len(s) = n

\* Every store has one layer per open savepoint over its base; events are batched exactly
\* in a transaction; the change log tells, layer by layer, how the table went from the
\* transaction's start through the savepoints to what it is now.
Layered ==
    /\ TypeOK
    /\ isBatching = inTransaction
    /\ Len(saved) = Len(savepointStack)
    /\ Deep(undoLayers, Len(savepointStack) + 1)
    /\ Deep(deferred, Len(savepointStack) + 1)
    /\ Deep(events, Len(savepointStack) + 1)
    /\ Len(changeLog) = Len(savepointStack) + 1
    /\ Spans(changeLog, Starts(saved, base), image)

\* The facts of the state that the steps use.
LEMMA LayeredFacts ==
    ASSUME Layered
    PROVE  /\ Len(savepointStack) \in Nat /\ savepointStack \in Seq(Names)
           /\ image \in Images /\ base \in Images /\ saved \in Seq(Images)
           /\ Starts(saved, base) \in Seq(Images)
           /\ Len(Starts(saved, base)) = Len(savepointStack) + 1
<1>1. savepointStack \in Seq(Names) /\ image \in Images /\ base \in Images /\ saved \in Seq(Images)
  BY Zenon DEF Layered, TypeOK, Images
<1>2. Len(savepointStack) \in Nat
  BY <1>1
<1>3. Starts(saved, base) \in Seq(Images) /\ Len(Starts(saved, base)) = Len(saved) + 1
  BY Zenon, <1>1, StartsFacts
<1>4. Len(saved) = Len(savepointStack)
  BY Zenon DEF Layered
<1> QED BY Zenon, <1>1, <1>2, <1>3, <1>4

\* A row change booked in a store, or not, leaves its layers as many.
LEMMA BookedDeep ==
    ASSUME NEW s, NEW n \in Nat, n > 0, Deep(s, n), NEW store, NEW b, NEW w \in Work
    PROVE  Deep(Booked(store, b, s, w), n)
<1>1. s \in Seq(Seq(Work)) /\ Len(s) = n /\ s[n] \in Seq(Work)
  BY DEF Deep
<1>2. Append(s[n], w) \in Seq(Work)
  BY <1>1
<1>3. Deep([s EXCEPT ![n] = Append(s[n], w)], n)
  <2> DEFINE t == Append(s[n], w)
  <2> HIDE DEF t
  <2>1. t \in Seq(Work)
    BY Zenon, <1>2 DEF t
  <2>2. Deep([s EXCEPT ![n] = t], n)
    BY <1>1, <2>1 DEF Deep
  <2> QED BY Zenon, <2>2 DEF t
<1> QED BY Zenon, <1>1, <1>3 DEF Booked, OnTop, Top

\* A fresh layer on top of n.
LEMMA PushedDeep ==
    ASSUME NEW s, NEW n \in Nat, Deep(s, n)
    PROVE  Deep(PushLayer(s), n + 1)
<1>1. <<>> \in Seq(Work) /\ s \in Seq(Seq(Work)) /\ Len(s) = n
  BY DEF Deep
<1> QED BY <1>1 DEF Deep, PushLayer

\* The layers from a savepoint up taken off.
LEMMA PoppedDeep ==
    ASSUME NEW s, NEW n \in Nat, Deep(s, n), NEW m \in 0..n
    PROVE  Deep(PopLayers(s, m), n - m)
<1>1. s \in Seq(Seq(Work)) /\ Len(s) = n
  BY DEF Deep
<1> QED BY <1>1 DEF Deep, PopLayers

\* The layers from a savepoint up merged into the one below.
LEMMA ReleasedDeep ==
    ASSUME NEW s, NEW n \in Nat, Deep(s, n), NEW m \in Nat, m < n
    PROVE  Deep(ReleaseLayers(s, m), n - m)
BY Zenon, ReleasedLayers DEF Deep

\* The base layer alone, and empty.
LEMMA EmptyDeep == Deep(<< <<>> >>, 1)
<1>1. <<>> \in Seq(Work)
  OBVIOUS
<1> QED BY <1>1 DEF Deep

\* Outside a transaction the log is empty and the table is the committed one.
LEMMA EmptySpans ==
    ASSUME NEW e \in Images
    PROVE  Spans(<<EmptyLog>>, Starts(<<>>, e), e)
<1> DEFINE b == Starts(<<>>, e)
<1>1. <<>> \in Seq(Images) /\ Len(<<>>) = 0
  OBVIOUS
<1>2. b \in Seq(Images) /\ Len(b) = 0 + 1 /\ b[1] = e
  BY Zenon, <1>1, StartsFacts
<1>3. LogTells(EmptyLog, e, e)
  BY Zenon, EmptyTells
<1>4. EmptyLog \in Logs
  BY Zenon, <1>3 DEF LogTells
<1> HIDE DEF b
<1>5. /\ <<EmptyLog>> \in Seq(Logs) /\ Len(<<EmptyLog>>) = 1 /\ <<EmptyLog>>[1] = EmptyLog
      /\ 1 > 0 /\ 1 <= Len(b) /\ \A j \in 1..1 - 1 : FALSE
  BY <1>2, <1>4
<1>6. Spans(<<EmptyLog>>, b, e)
  BY Zenon, <1>2, <1>3, <1>5 DEF Spans
<1> QED BY Zenon, <1>6 DEF b

\* Nothing has happened.
LEMMA InitLayered ==
    ASSUME Init
    PROVE  Layered
<1>1. image \in Images /\ base = image
  BY DEF Init, Images, Rows
<1>2. Spans(<<EmptyLog>>, Starts(<<>>, image), image)
  BY Zenon, <1>1, EmptySpans
<1>3. <<EmptyLog>> \in Seq(Logs)
  BY Zenon, <1>2 DEF Spans
<1>4. Deep(<< <<>> >>, 1) /\ << <<>> >> \in Seq(Seq(Work))
  BY Zenon, EmptyDeep DEF Deep
<1>5. Len(<<>>) = 0 /\ Len(<<EmptyLog>>) = 0 + 1 /\ 0 + 1 = 1
  OBVIOUS
<1>6. <<>> \in Seq(Names) /\ <<>> \in Seq(Images) /\ <<>> \in Seq(Work) /\ 0 \in 0..MaxWork
  BY ConstantsAssumption
<1>7. booked \in [Work -> Books \cup {{}, {"event"}}]
  BY Zenon DEF Init
<1>8. TypeOK
  BY Zenon, <1>1, <1>3, <1>4, <1>6, <1>7 DEF Init, TypeOK, Logs, Images
<1> QED BY Zenon, <1>1, <1>2, <1>4, <1>5, <1>8 DEF Init, Layered

-----------------------------------------------------------------------------
\* One lemma per action: the step keeps the invariant.

\* beginTransaction.
LEMMA BeginLayered ==
    ASSUME Layered, BeginTransaction
    PROVE  Layered'
<1>1. /\ savepointStack = <<>> /\ changeLog = <<EmptyLog>>
      /\ undoLayers = << <<>> >> /\ deferred = << <<>> >>
  BY Zenon DEF Layered, TypeOK, BeginTransaction
<1>2. image \in Images /\ Len(savepointStack) = 0 /\ saved \in Seq(Images) /\ Len(saved) = 0
  BY <1>1, LayeredFacts DEF Layered
<1>3. saved = <<>>
  BY <1>2
<1>4. Spans(<<EmptyLog>>, Starts(<<>>, image), image)
  BY Zenon, <1>2, EmptySpans
<1>5. Spans(changeLog', Starts(saved', base'), image')
  BY Zenon, <1>1, <1>3, <1>4 DEF BeginTransaction
<1>6. Deep(<< <<>> >>, 0 + 1) /\ << <<>> >> \in Seq(Seq(Work))
  <2>1. 0 + 1 = 1
    OBVIOUS
  <2> QED BY Zenon, <2>1, EmptyDeep DEF Deep
<1>7. TypeOK'
  BY Zenon, <1>6 DEF Layered, TypeOK, BeginTransaction
<1>8. /\ Len(saved') = Len(savepointStack') /\ Len(changeLog') = Len(savepointStack') + 1
      /\ Deep(undoLayers', Len(savepointStack') + 1) /\ Deep(deferred', Len(savepointStack') + 1)
  BY Zenon DEF Layered, BeginTransaction
<1>9. Deep(events', Len(savepointStack') + 1) /\ isBatching' = inTransaction'
  BY Zenon, <1>2, <1>6 DEF BeginTransaction
<1> QED BY Zenon, <1>5, <1>7, <1>8, <1>9 DEF Layered

\* What the emitter does with an event, or with none, keeps its layers.
LEMMA EventHandled ==
    ASSUME Layered, NEW b, NEW w \in Work, HandleDataEvent(b, w)
    PROVE  /\ Deep(events', Len(savepointStack) + 1) /\ delivered' \in Seq(Work)
           /\ ~inTransaction => events' = events
<1>1. /\ Deep(events, Len(savepointStack) + 1) /\ delivered \in Seq(Work)
      /\ inTransaction \in BOOLEAN /\ isBatching = inTransaction
  BY Zenon DEF Layered, TypeOK
<1>2. CASE isBatching
  <2>1. events' = Booked("event", b, events, w) /\ delivered' = delivered
    BY Zenon, <1>2 DEF HandleDataEvent
  <2>2. Len(savepointStack) + 1 \in Nat /\ Len(savepointStack) + 1 > 0
    BY LayeredFacts
  <2>3. Deep(Booked("event", b, events, w), Len(savepointStack) + 1)
    BY Zenon, <1>1, <2>2, BookedDeep
  <2> QED BY Zenon, <1>1, <1>2, <2>1, <2>3
<1>3. CASE ~isBatching
  <2>1. delivered' = (IF "event" \in b THEN Append(delivered, w) ELSE delivered) /\ events' = events
    BY Zenon, <1>3 DEF HandleDataEvent
  <2>2. Append(delivered, w) \in Seq(Work)
    BY <1>1
  <2> QED BY Zenon, <1>1, <2>1, <2>2
<1> QED BY Zenon, <1>2, <1>3

\* The next row change is one of the work counted.
LEMMA NextWork ==
    ASSUME Layered, worked < MaxWork, NEW b \in Books \cup {{}, {"event"}},
           booked' = [booked EXCEPT ![worked + 1] = b]
    PROVE  /\ worked + 1 \in Work /\ worked + 1 \in 0..MaxWork
           /\ booked' \in [Work -> Books \cup {{}, {"event"}}]
<1>1. worked \in 0..MaxWork /\ booked \in [Work -> Books \cup {{}, {"event"}}]
  BY Zenon DEF Layered, TypeOK
<1>2. worked + 1 \in Work /\ worked + 1 \in 0..MaxWork
  BY <1>1, ConstantsAssumption DEF Work
<1> DEFINE B == Books \cup {{}, {"event"}}
<1> HIDE DEF B
<1>3. booked' \in [Work -> B]
  <2>1. booked \in [Work -> B] /\ b \in B
    BY Zenon, <1>1 DEF B
  <2> QED BY <1>2, <2>1
<1> QED BY Zenon, <1>2, <1>3 DEF B

\* handleModuleDataEvent on its own.
LEMMA ModuleEventLayered ==
    ASSUME Layered, ModuleEvent
    PROVE  Layered'
<1>1. /\ worked < MaxWork /\ booked' = [booked EXCEPT ![worked + 1] = {"event"}]
      /\ worked' = worked + 1 /\ HandleDataEvent({"event"}, worked + 1)
  BY Zenon DEF ModuleEvent
<1>2. /\ worked + 1 \in Work /\ worked' \in 0..MaxWork
      /\ booked' \in [Work -> Books \cup {{}, {"event"}}]
  <2>1. {"event"} \in Books \cup {{}, {"event"}}
    BY Zenon
  <2> QED BY Zenon, <1>1, <2>1, NextWork
<1>3. /\ Deep(events', Len(savepointStack) + 1) /\ delivered' \in Seq(Work)
      /\ ~inTransaction => events' = events
  BY Zenon, <1>1, <1>2, EventHandled
<1>4. /\ inTransaction' = inTransaction /\ savepointStack' = savepointStack
      /\ changeLog' = changeLog /\ undoLayers' = undoLayers /\ deferred' = deferred
      /\ isBatching' = isBatching /\ image' = image /\ saved' = saved /\ base' = base
      /\ checked' = checked /\ undone' = undone
  BY Zenon DEF ModuleEvent, tables
<1>5. events' \in Seq(Seq(Work))
  BY Zenon, <1>3 DEF Deep
<1>6. TypeOK'
  <2>1. ~inTransaction' => \A s \in {undoLayers', deferred', events'} : s = << <<>> >>
    BY Zenon, <1>3, <1>4 DEF Layered, TypeOK
  <2>2. ~inTransaction' => savepointStack' = <<>> /\ changeLog' = <<EmptyLog>>
    BY Zenon, <1>4 DEF Layered, TypeOK
  <2>3. /\ inTransaction' \in BOOLEAN /\ isBatching' \in BOOLEAN /\ savepointStack' \in Seq(Names)
        /\ changeLog' \in Seq([Keys -> Rec])
        /\ undoLayers' \in Seq(Seq(Work)) /\ deferred' \in Seq(Seq(Work))
        /\ image' \in [Keys -> Rows] /\ base' \in [Keys -> Rows] /\ saved' \in Seq([Keys -> Rows])
        /\ checked' \in Seq(Work) /\ undone' \in Seq(Work)
    BY Zenon, <1>4 DEF Layered, TypeOK
  <2> QED BY Zenon, <1>2, <1>3, <1>5, <2>1, <2>2, <2>3 DEF TypeOK
<1>7. Spans(changeLog', Starts(saved', base'), image')
  BY Zenon, <1>4 DEF Layered
<1> QED BY Zenon, <1>3, <1>4, <1>6, <1>7 DEF Layered

\* The table at which the top layer starts, and what that layer tells.
LEMMA TopTells ==
    ASSUME Layered
    PROVE  /\ Starts(saved, base)[Len(changeLog)] \in Images
           /\ LogTells(Top(changeLog), Starts(saved, base)[Len(changeLog)], image)
<1> DEFINE b == Starts(saved, base)
<1> HIDE DEF b
<1>1. b \in Seq(Images) /\ Len(b) = Len(savepointStack) + 1 /\ Len(savepointStack) \in Nat
  BY Zenon, LayeredFacts DEF b
<1>2. Len(changeLog) = Len(savepointStack) + 1 /\ Spans(changeLog, b, image)
  BY Zenon DEF Layered, b
<1>3. b[Len(changeLog)] \in Images
  BY <1>1, <1>2
<1>4. LogTells(Top(changeLog), b[Len(changeLog)], image)
  BY Zenon, <1>2 DEF Spans, Top
<1> QED BY Zenon, <1>3, <1>4 DEF b

\* A row change recorded in the top layer and booked in the other stores.
LEMMA BookLayered ==
    ASSUME Layered, CanWork, image' \in Images, NEW log, Book(log),
           LogTells(log, Starts(saved, base)[Len(changeLog)], image')
    PROVE  Layered'
<1> DEFINE n == Len(savepointStack) + 1
           w == worked + 1
<1>1. PICK b \in Books :
        /\ worked' = w
        /\ booked' = [booked EXCEPT ![w] = b]
        /\ changeLog' = OnTop(changeLog, log)
        /\ undoLayers' = Booked("undo", b, undoLayers, w)
        /\ deferred' = Booked("check", b, deferred, w)
        /\ HandleDataEvent(b, w)
        /\ inTransaction' = inTransaction /\ savepointStack' = savepointStack
        /\ isBatching' = isBatching /\ saved' = saved /\ base' = base
        /\ checked' = checked /\ undone' = undone
  BY Zenon DEF Book
<1>2. inTransaction /\ worked < MaxWork
  BY Zenon DEF CanWork
<1>3. w \in Work /\ worked' \in 0..MaxWork /\ booked' \in [Work -> Books \cup {{}, {"event"}}]
  <2>1. b \in Books \cup {{}, {"event"}}
    BY Zenon
  <2> QED BY Zenon, <1>1, <1>2, <2>1, NextWork
<1>4. Deep(events', n) /\ delivered' \in Seq(Work)
  BY Zenon, <1>1, <1>3, EventHandled
<1>5. n \in Nat /\ n > 0
  BY LayeredFacts
<1>6. Deep(undoLayers', n) /\ Deep(deferred', n)
  <2>1. Deep(undoLayers, n) /\ Deep(deferred, n)
    BY Zenon DEF Layered
  <2> HIDE DEF n, w
  <2> QED BY Zenon, <1>1, <1>3, <1>5, <2>1, BookedDeep
<1>7. Starts(saved, base) \in Seq(Images) /\ Spans(changeLog, Starts(saved, base), image)
  BY Zenon, LayeredFacts DEF Layered
<1>8. Spans(changeLog', Starts(saved, base), image') /\ Len(changeLog') = Len(changeLog)
  <2> DEFINE c == Starts(saved, base)
  <2> HIDE DEF c
  <2>1. /\ c \in Seq(Images) /\ Spans(changeLog, c, image)
        /\ LogTells(log, c[Len(changeLog)], image')
    BY Zenon, <1>7 DEF c
  <2>2. Spans(OnTop(changeLog, log), c, image') /\ Len(OnTop(changeLog, log)) = Len(changeLog)
    BY <2>1, TopSpans
  <2>3. changeLog' = OnTop(changeLog, log)
    BY Zenon, <1>1
  <2> QED BY Zenon, <2>2, <2>3 DEF c
<1>9. changeLog' \in Seq([Keys -> Rec])
  BY Zenon, <1>8 DEF Spans, Logs
<1>10. TypeOK'
  <2>1. /\ events' \in Seq(Seq(Work)) /\ undoLayers' \in Seq(Seq(Work))
        /\ deferred' \in Seq(Seq(Work))
    BY Zenon, <1>4, <1>6 DEF Deep
  <2>2. /\ inTransaction' \in BOOLEAN /\ isBatching' \in BOOLEAN /\ savepointStack' \in Seq(Names)
        /\ base' \in [Keys -> Rows] /\ saved' \in Seq([Keys -> Rows])
        /\ checked' \in Seq(Work) /\ undone' \in Seq(Work) /\ inTransaction'
    BY Zenon, <1>1, <1>2 DEF Layered, TypeOK
  <2> HIDE DEF n, w
  <2> QED BY Zenon, <1>3, <1>4, <1>9, <2>1, <2>2 DEF TypeOK, Images
<1>11. /\ isBatching' = inTransaction' /\ Len(saved') = Len(savepointStack')
       /\ Len(changeLog') = Len(savepointStack') + 1
  BY Zenon, <1>1, <1>8 DEF Layered
<1> HIDE DEF w
<1> QED BY Zenon, <1>1, <1>4, <1>6, <1>8, <1>10, <1>11 DEF Layered

\* recordInsert and what goes with it.
LEMMA InsertLayered ==
    ASSUME Layered, NEW k \in Keys, NEW v \in Values, Insert(k, v)
    PROVE  Layered'
<1>1. /\ CanWork /\ image[k] = NoRow /\ image' = [image EXCEPT ![k] = v]
      /\ Book(RecordInsert(Top(changeLog), k, v))
  BY Zenon DEF Insert
<1>2. image \in Images
  BY Zenon, LayeredFacts
<1>3. image' \in Images
  BY <1>1, <1>2 DEF Images, Rows
<1>4. LogTells(RecordInsert(Top(changeLog), k, v), Starts(saved, base)[Len(changeLog)],
               [image EXCEPT ![k] = v])
  BY Zenon, <1>1, <1>2, TopTells, InsertTells
<1> QED BY Zenon, <1>1, <1>3, <1>4, BookLayered

\* recordDelete and what goes with it.
LEMMA DeleteLayered ==
    ASSUME Layered, NEW k \in Keys, Delete(k)
    PROVE  Layered'
<1>1. /\ CanWork /\ image[k] # NoRow /\ image' = [image EXCEPT ![k] = NoRow]
      /\ Book(RecordDelete(Top(changeLog), k, image[k]))
  BY Zenon DEF Delete
<1>2. image \in Images
  BY Zenon, LayeredFacts
<1>3. image' \in Images
  BY <1>1, <1>2 DEF Images, Rows
<1>4. LogTells(RecordDelete(Top(changeLog), k, image[k]), Starts(saved, base)[Len(changeLog)],
               [image EXCEPT ![k] = NoRow])
  BY Zenon, <1>1, <1>2, TopTells, DeleteTells
<1> QED BY Zenon, <1>1, <1>3, <1>4, BookLayered

\* recordUpdate and what goes with it.
LEMMA UpdateLayered ==
    ASSUME Layered, NEW k \in Keys, NEW k2 \in Keys, NEW v \in Values, Update(k, k2, v)
    PROVE  Layered'
<1> DEFINE z == [image EXCEPT ![k] = NoRow, ![k2] = v]
<1>1. /\ CanWork /\ image[k] # NoRow /\ (k2 # k => image[k2] = NoRow) /\ image' = z
      /\ Book(RecordUpdate(Top(changeLog), k, image[k], k2, v))
  BY Zenon DEF Update
<1>2. image \in Images
  BY Zenon, LayeredFacts
<1>3. z \in Images
  BY <1>2 DEF Images, Rows
<1>4. LogTells(RecordUpdate(Top(changeLog), k, image[k], k2, v), Starts(saved, base)[Len(changeLog)], z)
  BY Zenon, <1>1, <1>2, TopTells, UpdateTells
<1> HIDE DEF z
<1> QED BY Zenon, <1>1, <1>3, <1>4, BookLayered

\* createSavepoint.
LEMMA CreateSavepointLayered ==
    ASSUME Layered, NEW n \in Names, CreateSavepoint(n)
    PROVE  Layered'
<1> DEFINE d == Len(savepointStack)
           b == Starts(saved, base)
           c == Starts(Append(saved, image), base)
<1>1. /\ inTransaction /\ savepointStack' = Append(savepointStack, n)
      /\ changeLog' = Append(changeLog, EmptyLog) /\ saved' = Append(saved, image)
      /\ undoLayers' = PushLayer(undoLayers) /\ deferred' = PushLayer(deferred)
      /\ events' = PushLayer(events)
      /\ inTransaction' = inTransaction /\ isBatching' = isBatching /\ image' = image
      /\ base' = base /\ booked' = booked /\ checked' = checked /\ delivered' = delivered
      /\ undone' = undone /\ worked' = worked
  BY Zenon DEF CreateSavepoint
<1>2. /\ d \in Nat /\ savepointStack \in Seq(Names) /\ image \in Images /\ base \in Images
      /\ saved \in Seq(Images) /\ Len(saved) = d /\ b \in Seq(Images) /\ Len(b) = d + 1
      /\ Len(changeLog) = d + 1 /\ Spans(changeLog, b, image)
      /\ Deep(undoLayers, d + 1) /\ Deep(deferred, d + 1) /\ Deep(events, d + 1)
  BY Zenon, LayeredFacts DEF Layered
<1>3. savepointStack' \in Seq(Names) /\ Len(savepointStack') = d + 1
  BY <1>1, <1>2
<1>4. saved' \in Seq(Images) /\ Len(saved') = d + 1
  BY <1>1, <1>2
<1>5. /\ c \in Seq(Images) /\ Len(c) = (d + 1) + 1
      /\ \A j \in 1..d + 1 : c[j] = b[j]
      /\ c[(d + 1) + 1] = image
  <2>1. Append(saved, image) \in Seq(Images) /\ Len(Append(saved, image)) = d + 1
        /\ Append(saved, image)[d + 1] = image
        /\ \A j \in 1..d : Append(saved, image)[j] = saved[j]
    BY <1>2
  <2> DEFINE t == Append(saved, image)
  <2> HIDE DEF t, d
  <2>2. t \in Seq(Images) /\ Len(t) = d + 1 /\ t[d + 1] = image /\ \A j \in 1..d : t[j] = saved[j]
    BY Zenon, <2>1 DEF t
  <2>3. /\ c \in Seq(Images) /\ Len(c) = (d + 1) + 1 /\ c[1] = base
        /\ \A j \in 1..d + 1 : c[j + 1] = t[j]
    <3> DEFINE u == Starts(t, base)
    <3>1. /\ u \in Seq(Images) /\ Len(u) = Len(t) + 1 /\ u[1] = base
          /\ \A j \in 1..Len(t) : u[j + 1] = t[j]
      BY Zenon, <1>2, <2>2, StartsFacts
    <3>2. u = c
      BY Zenon DEF t
    <3> HIDE DEF u, c
    <3> QED BY Zenon, <2>2, <3>1, <3>2
  <2>4. b[1] = base /\ \A j \in 1..d : b[j + 1] = saved[j]
    BY Zenon, <1>2, StartsFacts
  <2> HIDE DEF b, c
  <2>5. ASSUME NEW j \in 1..d + 1 PROVE c[j] = b[j]
    <3>1. CASE j = 1
      BY Zenon, <2>3, <2>4, <3>1
    <3>2. CASE j # 1
      <4>1. j - 1 \in 1..d /\ j - 1 \in 1..d + 1 /\ (j - 1) + 1 = j
        BY <1>2, <3>2
      <4>2. c[(j - 1) + 1] = t[j - 1] /\ b[(j - 1) + 1] = saved[j - 1] /\ t[j - 1] = saved[j - 1]
        BY Zenon, <2>2, <2>3, <2>4, <4>1
      <4> QED BY Zenon, <4>1, <4>2
    <3> QED BY Zenon, <3>1, <3>2
  <2>6. d + 1 \in 1..d + 1
    BY <1>2
  <2>7. c[(d + 1) + 1] = image
    BY Zenon, <2>2, <2>3, <2>6
  <2> QED BY Zenon, <2>3, <2>5, <2>7
<1> HIDE DEF b, c
<1>6. Len(changeLog) <= Len(c) /\ Len(changeLog) < Len(c)
  BY <1>2, <1>5
<1>7. Spans(changeLog, c, image)
  <2> HIDE DEF d
  <2> QED BY Zenon, <1>2, <1>5, <1>6, SameStarts
<1>8. Spans(Append(changeLog, EmptyLog), c, image)
  <2> HIDE DEF d
  <2> QED BY Zenon, <1>2, <1>5, <1>6, <1>7, PushSpans
<1>9. Spans(changeLog', Starts(saved', base'), image')
  BY Zenon, <1>1, <1>8 DEF c
<1>10. Len(changeLog') = (d + 1) + 1
  <2>1. changeLog \in Seq(Logs)
    BY Zenon, <1>2 DEF Spans
  <2> HIDE DEF d
  <2> QED BY <1>1, <1>2, <2>1
<1>11. d + 1 \in Nat
  BY <1>2
<1> HIDE DEF d
<1>12. Deep(undoLayers', (d + 1) + 1) /\ Deep(deferred', (d + 1) + 1) /\ Deep(events', (d + 1) + 1)
  BY Zenon, <1>1, <1>2, <1>11, PushedDeep
<1>13. TypeOK'
  <2>1. /\ undoLayers' \in Seq(Seq(Work)) /\ deferred' \in Seq(Seq(Work)) /\ events' \in Seq(Seq(Work))
        /\ changeLog' \in Seq([Keys -> Rec])
    BY Zenon, <1>9, <1>12 DEF Deep, Spans, Logs
  <2>2. /\ inTransaction' \in BOOLEAN /\ isBatching' \in BOOLEAN /\ inTransaction'
        /\ image' \in [Keys -> Rows] /\ base' \in [Keys -> Rows]
        /\ booked' \in [Work -> Books \cup {{}, {"event"}}]
        /\ checked' \in Seq(Work) /\ delivered' \in Seq(Work) /\ undone' \in Seq(Work)
        /\ worked' \in 0..MaxWork
    BY Zenon, <1>1 DEF Layered, TypeOK
  <2> QED BY Zenon, <1>3, <1>4, <2>1, <2>2 DEF TypeOK, Images
<1>14. isBatching' = inTransaction'
  BY Zenon, <1>1 DEF Layered
<1> QED BY Zenon, <1>3, <1>4, <1>9, <1>10, <1>12, <1>13, <1>14 DEF Layered

\* The savepoints up to the m-th keep the tables at which their layers start.
LEMMA FewerStarts ==
    ASSUME NEW sv \in Seq(Images), NEW x \in Images, NEW m \in 0..Len(sv)
    PROVE  /\ SubSeq(sv, 1, m) \in Seq(Images) /\ Len(SubSeq(sv, 1, m)) = m
           /\ Starts(SubSeq(sv, 1, m), x) \in Seq(Images)
           /\ Len(Starts(SubSeq(sv, 1, m), x)) = m + 1
           /\ \A j \in 1..m + 1 : Starts(SubSeq(sv, 1, m), x)[j] = Starts(sv, x)[j]
<1> DEFINE t == SubSeq(sv, 1, m)
           b == Starts(sv, x)
           c == Starts(t, x)
<1>1. /\ t \in Seq(Images) /\ Len(t) = m /\ \A j \in 1..m : t[j] = sv[j]
      /\ m \in Nat /\ Len(sv) \in Nat /\ m <= Len(sv)
  OBVIOUS
<1> HIDE DEF t
<1>2. b[1] = x /\ \A j \in 1..Len(sv) : b[j + 1] = sv[j]
  BY Zenon, StartsFacts
<1>3. c \in Seq(Images) /\ Len(c) = m + 1 /\ c[1] = x /\ \A j \in 1..m : c[j + 1] = t[j]
  BY Zenon, <1>1, StartsFacts
<1> HIDE DEF b, c
<1>4. ASSUME NEW j \in 1..m + 1 PROVE c[j] = b[j]
  <2>1. CASE j = 1
    BY Zenon, <1>2, <1>3, <2>1
  <2>2. CASE j # 1
    <3>1. j - 1 \in 1..m /\ j - 1 \in 1..Len(sv) /\ (j - 1) + 1 = j
      BY <1>1, <2>2
    <3>2. c[(j - 1) + 1] = t[j - 1] /\ b[(j - 1) + 1] = sv[j - 1] /\ t[j - 1] = sv[j - 1]
      BY Zenon, <1>1, <1>2, <1>3, <3>1
    <3> QED BY Zenon, <3>1, <3>2
  <2> QED BY Zenon, <2>1, <2>2
<1> QED BY Zenon, <1>1, <1>3, <1>4 DEF b, c, t

\* releaseSavepoint, of any open savepoint and those inside it.
LEMMA ReleaseSavepointLayered ==
    ASSUME Layered, NEW n \in Names, ReleaseSavepoint(n)
    PROVE  Layered'
<1> DEFINE d == Len(savepointStack)
           b == Starts(saved, base)
<1>1. PICK i \in DOMAIN savepointStack :
      /\ inTransaction /\ savepointStack' = SubSeq(savepointStack, 1, i - 1)
      /\ changeLog' = ReleaseLogs(changeLog, d - i + 1) /\ saved' = SubSeq(saved, 1, i - 1)
      /\ undoLayers' = ReleaseLayers(undoLayers, d - i + 1)
      /\ deferred' = ReleaseLayers(deferred, d - i + 1)
      /\ events' = ReleaseLayers(events, d - i + 1)
      /\ inTransaction' = inTransaction /\ isBatching' = isBatching /\ image' = image
      /\ base' = base /\ booked' = booked /\ checked' = checked /\ delivered' = delivered
      /\ undone' = undone /\ worked' = worked
  BY Zenon DEF ReleaseSavepoint
<1>2. /\ d \in Nat /\ savepointStack \in Seq(Names) /\ image \in Images /\ base \in Images
      /\ saved \in Seq(Images) /\ Len(saved) = d /\ b \in Seq(Images) /\ Len(b) = d + 1
      /\ Len(changeLog) = d + 1 /\ Spans(changeLog, b, image)
      /\ Deep(undoLayers, d + 1) /\ Deep(deferred, d + 1) /\ Deep(events, d + 1)
  BY Zenon, LayeredFacts DEF Layered
<1>3. i \in 1..d
  BY <1>2
<1>4. savepointStack' \in Seq(Names) /\ Len(savepointStack') = i - 1
  BY <1>1, <1>2, <1>3
<1> DEFINE count == d - i + 1
           c == Starts(saved', base)
<1> HIDE DEF d
<1>5. /\ count \in Nat /\ count < d + 1 /\ (d + 1) - count = (i - 1) + 1 /\ d + 1 \in Nat
      /\ i - 1 \in 0..d /\ (i - 1) + 1 <= d + 1
  BY <1>2, <1>3
<1>6. /\ saved' \in Seq(Images) /\ Len(saved') = i - 1
      /\ c \in Seq(Images) /\ Len(c) = (i - 1) + 1
      /\ \A j \in 1..(i - 1) + 1 : c[j] = b[j]
  BY Zenon, <1>1, <1>2, <1>5, FewerStarts
<1> HIDE DEF b, c, count
<1>7. Deep(undoLayers', (i - 1) + 1) /\ Deep(deferred', (i - 1) + 1) /\ Deep(events', (i - 1) + 1)
  <2>1. /\ Deep(ReleaseLayers(undoLayers, count), (d + 1) - count)
        /\ Deep(ReleaseLayers(deferred, count), (d + 1) - count)
        /\ Deep(ReleaseLayers(events, count), (d + 1) - count)
    BY Zenon, <1>2, <1>5, ReleasedDeep
  <2> QED BY Zenon, <1>1, <1>5, <2>1 DEF count
<1>8. Spans(changeLog', b, image) /\ Len(changeLog') = (i - 1) + 1
  <2>1. count < Len(changeLog)
    BY Zenon, <1>2, <1>5
  <2>2. /\ Spans(ReleaseLogs(changeLog, count), b, image)
        /\ Len(ReleaseLogs(changeLog, count)) = Len(changeLog) - count
    BY Zenon, <1>2, <1>5, <2>1, ReleasedSpans
  <2>3. changeLog' = ReleaseLogs(changeLog, count)
    BY Zenon, <1>1 DEF count
  <2> QED BY Zenon, <1>2, <1>5, <2>2, <2>3
<1>9. Spans(changeLog', c, image)
  <2>1. Len(changeLog') <= Len(c)
    BY <1>3, <1>6, <1>8
  <2>2. \A j \in 1..Len(changeLog') : c[j] = b[j]
    BY Zenon, <1>6, <1>8
  <2> QED BY <1>2, <1>6, <1>8, <2>1, <2>2, SameStarts
<1>10. Spans(changeLog', Starts(saved', base'), image')
  BY Zenon, <1>1, <1>9 DEF c
<1>11. TypeOK'
  <2>1. /\ undoLayers' \in Seq(Seq(Work)) /\ deferred' \in Seq(Seq(Work)) /\ events' \in Seq(Seq(Work))
        /\ changeLog' \in Seq([Keys -> Rec])
    BY Zenon, <1>7, <1>10 DEF Deep, Spans, Logs
  <2>2. /\ inTransaction' \in BOOLEAN /\ isBatching' \in BOOLEAN /\ inTransaction'
        /\ image' \in [Keys -> Rows] /\ base' \in [Keys -> Rows]
        /\ booked' \in [Work -> Books \cup {{}, {"event"}}]
        /\ checked' \in Seq(Work) /\ delivered' \in Seq(Work) /\ undone' \in Seq(Work)
        /\ worked' \in 0..MaxWork
    BY Zenon, <1>1 DEF Layered, TypeOK
  <2> QED BY Zenon, <1>4, <1>6, <2>1, <2>2 DEF TypeOK, Images
<1>12. isBatching' = inTransaction'
  BY Zenon, <1>1 DEF Layered
<1> QED BY Zenon, <1>4, <1>6, <1>7, <1>8, <1>10, <1>11, <1>12 DEF Layered

\* rollbackToSavepoint, to any open savepoint.
LEMMA RollbackToSavepointLayered ==
    ASSUME Layered, NEW n \in Names, RollbackToSavepoint(n)
    PROVE  Layered'
<1> DEFINE d == Len(savepointStack)
           b == Starts(saved, base)
<1>1. PICK i \in DOMAIN savepointStack :
      /\ inTransaction /\ savepointStack' = SubSeq(savepointStack, 1, i)
      /\ changeLog' = Append(PopLayers(changeLog, d - i + 1), EmptyLog)
      /\ saved' = SubSeq(saved, 1, i) /\ image' = saved[i]
      /\ undone' = undone \o Unwind(SubSeq(undoLayers, i + 1, Len(undoLayers)))
      /\ undoLayers' = PushLayer(PopLayers(undoLayers, d - i + 1))
      /\ deferred' = PushLayer(PopLayers(deferred, d - i + 1))
      /\ events' = PushLayer(PopLayers(events, d - i + 1))
      /\ inTransaction' = inTransaction /\ isBatching' = isBatching
      /\ base' = base /\ booked' = booked /\ checked' = checked /\ delivered' = delivered
      /\ worked' = worked
  BY Zenon DEF RollbackToSavepoint
<1>2. /\ d \in Nat /\ savepointStack \in Seq(Names) /\ base \in Images
      /\ saved \in Seq(Images) /\ Len(saved) = d /\ b \in Seq(Images) /\ Len(b) = d + 1
      /\ Len(changeLog) = d + 1 /\ Spans(changeLog, b, image)
      /\ Deep(undoLayers, d + 1) /\ Deep(deferred, d + 1) /\ Deep(events, d + 1)
  BY Zenon, LayeredFacts DEF Layered
<1>3. i \in 1..d
  BY <1>2
<1>4. savepointStack' \in Seq(Names) /\ Len(savepointStack') = i
  BY <1>1, <1>2, <1>3
<1> DEFINE count == d - i + 1
           c == Starts(saved', base)
<1> HIDE DEF d
<1>5. /\ count \in 0..d + 1 /\ (d + 1) - count = i /\ d + 1 \in Nat /\ i \in Nat
      /\ i \in 0..d /\ i \in 1..(d + 1) - 1 /\ i <= i + 1 /\ i < i + 1 /\ i + 1 \in 1..i + 1
      /\ \A j \in 1..i : j \in 1..i + 1
  BY <1>2, <1>3
<1>6. /\ saved' \in Seq(Images) /\ Len(saved') = i
      /\ c \in Seq(Images) /\ Len(c) = i + 1
      /\ \A j \in 1..i + 1 : c[j] = b[j]
  BY Zenon, <1>1, <1>2, <1>5, FewerStarts
<1>7. image' = b[i + 1] /\ image' \in Images
  <2>1. b[i + 1] = saved[i]
    BY Zenon, <1>2, <1>3, StartsFacts
  <2>2. saved[i] \in Images
    BY <1>2, <1>3
  <2> QED BY Zenon, <1>1, <2>1, <2>2
<1> HIDE DEF b, c, count
<1>8. Deep(undoLayers', i + 1) /\ Deep(deferred', i + 1) /\ Deep(events', i + 1)
  <2>1. /\ Deep(PopLayers(undoLayers, count), i) /\ Deep(PopLayers(deferred, count), i)
        /\ Deep(PopLayers(events, count), i)
    BY Zenon, <1>2, <1>5, PoppedDeep
  <2>2. /\ Deep(PushLayer(PopLayers(undoLayers, count)), i + 1)
        /\ Deep(PushLayer(PopLayers(deferred, count)), i + 1)
        /\ Deep(PushLayer(PopLayers(events, count)), i + 1)
    BY Zenon, <1>5, <2>1, PushedDeep
  <2> QED BY Zenon, <1>1, <2>2 DEF count
<1> DEFINE p == SubSeq(changeLog, 1, i)
<1>9. PopLayers(changeLog, count) = p
  BY Zenon, <1>2, <1>5 DEF PopLayers
<1>10. Spans(p, b, image') /\ Len(p) = i
  <2>1. i \in 1..Len(changeLog) - 1
    BY Zenon, <1>2, <1>5
  <2>2. Spans(p, b, b[i + 1]) /\ Len(p) = i
    BY <1>2, <2>1, CutSpans
  <2> QED BY Zenon, <1>7, <2>2
<1> HIDE DEF p
<1>11. Spans(p, c, image')
  <2>1. Len(p) <= Len(c) /\ \A j \in 1..Len(p) : c[j] = b[j]
    BY Zenon, <1>5, <1>6, <1>10
  <2> QED BY <1>2, <1>6, <1>10, <2>1, SameStarts
<1>12. Spans(Append(p, EmptyLog), c, image')
  <2>0. c[i + 1] = b[i + 1]
    BY Zenon, <1>5, <1>6
  <2>1. Len(p) < Len(c) /\ c[Len(p) + 1] = image'
    BY Zenon, <1>5, <1>6, <1>7, <1>10, <2>0
  <2> QED BY <1>6, <1>7, <1>11, <2>1, PushSpans
<1>13. changeLog' = Append(p, EmptyLog)
  BY Zenon, <1>1, <1>9 DEF count
<1>14. Spans(changeLog', Starts(saved', base'), image')
  BY Zenon, <1>1, <1>12, <1>13 DEF c
<1>15. Len(changeLog') = i + 1
  <2>1. p \in Seq(Logs)
    BY Zenon, <1>10 DEF Spans
  <2> QED BY <1>10, <1>13, <2>1
<1>16. undone' \in Seq(Work)
  <2>1. undone \in Seq(Work) /\ undoLayers \in Seq(Seq(Work))
    BY Zenon DEF Layered, TypeOK
  <2> DEFINE u == SubSeq(undoLayers, i + 1, Len(undoLayers))
  <2>2. u \in Seq(Seq(Work))
    BY <1>5, <2>1
  <2> HIDE DEF u
  <2>3. Unwind(u) \in Seq(Work)
    BY Zenon, <2>2, Unwound
  <2>4. undone' = undone \o Unwind(u)
    BY Zenon, <1>1 DEF u
  <2> QED BY <2>1, <2>3, <2>4
<1>17. TypeOK'
  <2>1. /\ undoLayers' \in Seq(Seq(Work)) /\ deferred' \in Seq(Seq(Work)) /\ events' \in Seq(Seq(Work))
        /\ changeLog' \in Seq([Keys -> Rec])
    BY Zenon, <1>8, <1>14 DEF Deep, Spans, Logs
  <2>2. /\ inTransaction' \in BOOLEAN /\ isBatching' \in BOOLEAN /\ inTransaction'
        /\ base' \in [Keys -> Rows] /\ booked' \in [Work -> Books \cup {{}, {"event"}}]
        /\ checked' \in Seq(Work) /\ delivered' \in Seq(Work) /\ worked' \in 0..MaxWork
    BY Zenon, <1>1 DEF Layered, TypeOK
  <2> QED BY Zenon, <1>4, <1>6, <1>7, <1>16, <2>1, <2>2 DEF TypeOK, Images
<1>18. isBatching' = inTransaction'
  BY Zenon, <1>1 DEF Layered
<1> QED BY Zenon, <1>4, <1>6, <1>8, <1>14, <1>15, <1>17, <1>18 DEF Layered

\* The end of a transaction, either way, if what ran is work and the table is settled.
LEMMA ResetLayered ==
    ASSUME Layered, ResetToAutocommit, image' \in Images, base' = image',
           booked' = booked, worked' = worked,
           checked' \in Seq(Work), delivered' \in Seq(Work), undone' \in Seq(Work)
    PROVE  Layered'
<1>1. /\ inTransaction' = FALSE /\ isBatching' = FALSE
      /\ savepointStack' = <<>> /\ saved' = <<>> /\ changeLog' = <<EmptyLog>>
      /\ undoLayers' = << <<>> >> /\ deferred' = << <<>> >> /\ events' = << <<>> >>
  BY Zenon DEF ResetToAutocommit
<1>2. Spans(<<EmptyLog>>, Starts(<<>>, image'), image')
  BY Zenon, EmptySpans
<1>3. <<EmptyLog>> \in Seq(Logs)
  BY Zenon, <1>2 DEF Spans
<1>4. Deep(<< <<>> >>, 1) /\ << <<>> >> \in Seq(Seq(Work))
  BY Zenon, EmptyDeep DEF Deep
<1>5. /\ Len(<<>>) = 0 /\ Len(<<EmptyLog>>) = 0 + 1 /\ 0 + 1 = 1
      /\ <<>> \in Seq(Names) /\ <<>> \in Seq(Images)
  OBVIOUS
<1>6. booked' \in [Work -> Books \cup {{}, {"event"}}] /\ worked' \in 0..MaxWork
  BY Zenon DEF Layered, TypeOK
<1>7. TypeOK'
  BY Zenon, <1>1, <1>3, <1>4, <1>5, <1>6 DEF TypeOK, Logs, Images
<1>8. Spans(changeLog', Starts(saved', base'), image')
  BY Zenon, <1>1, <1>2
<1>9. /\ Deep(undoLayers', Len(savepointStack') + 1) /\ Deep(deferred', Len(savepointStack') + 1)
      /\ Deep(events', Len(savepointStack') + 1) /\ Len(changeLog') = Len(savepointStack') + 1
      /\ Len(saved') = Len(savepointStack')
  BY Zenon, <1>1, <1>4, <1>5
<1>10. isBatching' = inTransaction'
  BY Zenon, <1>1
<1> QED BY Zenon, <1>7, <1>8, <1>9, <1>10 DEF Layered

\* What was checked, delivered and undone is work, also after what a store holds is added.
LEMMA RanWork ==
    ASSUME NEW ran \in Seq(Work), NEW s \in Seq(Seq(Work))
    PROVE  ran \o Flat(s) \in Seq(Work) /\ ran \o Backwards(Flat(s)) \in Seq(Work)
<1> DEFINE f == Flat(s)
<1>1. f \in Seq(Work)
  BY Zenon, Flattened
<1> HIDE DEF f
<1> DEFINE g == Backwards(f)
<1>2. g \in Seq(Work)
  BY Zenon, <1>1, Reversed
<1> HIDE DEF g
<1>3. ran \o f \in Seq(Work) /\ ran \o g \in Seq(Work)
  BY <1>1, <1>2
<1> QED BY Zenon, <1>3 DEF f, g

\* rollbackTransaction, and a commit that is refused.
LEMMA UndoAllLayered ==
    ASSUME Layered, UndoAll
    PROVE  Layered'
<1>1. /\ ResetToAutocommit /\ undone' = undone \o Backwards(Flat(undoLayers))
      /\ image' = base /\ base' = base /\ booked' = booked /\ checked' = checked
      /\ delivered' = delivered /\ worked' = worked
  BY Zenon DEF UndoAll
<1>2. /\ checked \in Seq(Work) /\ delivered \in Seq(Work) /\ undone \in Seq(Work)
      /\ undoLayers \in Seq(Seq(Work)) /\ base \in Images
  BY Zenon DEF Layered, TypeOK, Images
<1>3. undone' \in Seq(Work)
  BY Zenon, <1>1, <1>2, RanWork
<1> QED BY Zenon, <1>1, <1>2, <1>3, ResetLayered

\* commitTransaction.
LEMMA CommitLayered ==
    ASSUME Layered, CommitTransaction
    PROVE  Layered'
<1>1. /\ ResetToAutocommit /\ checked' = checked \o Flat(deferred)
      /\ delivered' = delivered \o Flat(events) /\ base' = image /\ image' = image
      /\ booked' = booked /\ undone' = undone /\ worked' = worked
  BY Zenon DEF CommitTransaction
<1>2. /\ checked \in Seq(Work) /\ delivered \in Seq(Work) /\ undone \in Seq(Work)
      /\ deferred \in Seq(Seq(Work)) /\ events \in Seq(Seq(Work)) /\ image \in Images
  BY Zenon DEF Layered, TypeOK, Images
<1>3. checked' \in Seq(Work) /\ delivered' \in Seq(Work)
  BY Zenon, <1>1, <1>2, RanWork
<1> QED BY Zenon, <1>1, <1>2, <1>3, ResetLayered

\* A step that changes nothing.
LEMMA StutterLayered ==
    ASSUME Layered, UNCHANGED vars
    PROVE  Layered'
BY Zenon DEF Layered, TypeOK, vars, stores, tables

-----------------------------------------------------------------------------
\* The theorems.

\* Through every begin, row change, module event, savepoint, release, rollback and commit,
\* the stores stay layered, and the change log tells the changes layer by layer.
THEOREM Invariance == Spec => []Layered
<1>1. Init => Layered
  BY Zenon, InitLayered
<1>2. Layered /\ [Next]_vars => Layered'
  <2> SUFFICES ASSUME Layered, [Next]_vars PROVE Layered'
    OBVIOUS
  <2>1. CASE BeginTransaction
    BY Zenon, <2>1, BeginLayered
  <2>2. CASE ModuleEvent
    BY Zenon, <2>2, ModuleEventLayered
  <2>3. ASSUME NEW k \in Keys, NEW v \in Values, Insert(k, v) PROVE Layered'
    BY Zenon, <2>3, InsertLayered
  <2>4. ASSUME NEW k \in Keys, Delete(k) PROVE Layered'
    BY Zenon, <2>4, DeleteLayered
  <2>5. ASSUME NEW k \in Keys, NEW k2 \in Keys, NEW v \in Values, Update(k, k2, v) PROVE Layered'
    BY Zenon, <2>5, UpdateLayered
  <2>6. ASSUME NEW n \in Names, CreateSavepoint(n) PROVE Layered'
    BY Zenon, <2>6, CreateSavepointLayered
  <2>7. ASSUME NEW n \in Names, ReleaseSavepoint(n) PROVE Layered'
    BY Zenon, <2>7, ReleaseSavepointLayered
  <2>8. ASSUME NEW n \in Names, RollbackToSavepoint(n) PROVE Layered'
    BY Zenon, <2>8, RollbackToSavepointLayered
  <2>9. CASE CommitTransaction
    BY Zenon, <2>9, CommitLayered
  <2>10. CASE CommitRefused \/ RollbackTransaction
    BY Zenon, <2>10, UndoAllLayered DEF CommitRefused, RollbackTransaction
  <2>11. CASE UNCHANGED vars
    BY Zenon, <2>11, StutterLayered
  <2> QED BY Zenon, <2>1, <2>2, <2>3, <2>4, <2>5, <2>6, <2>7, <2>8, <2>9, <2>10, <2>11 DEF Next
<1> QED BY <1>1, <1>2, PTL DEF Spec

\* The stores keep their shapes, and hold nothing outside a transaction: whichever way
\* a transaction ends, nothing of it is left for the next one.
THEOREM TypeCorrect == Spec => []TypeOK
<1>1. Layered => TypeOK
  BY Zenon DEF Layered
<1> QED BY <1>1, Invariance, PTL

\* The merged change log is the net difference between the table at the transaction's
\* start and the table it sees, through any nesting of savepoints, releases and rollbacks.
THEOREM ChangeLogTellsTheTransaction == Spec => []ChangeLogIsNetChange
<1>1. Layered => ChangeLogIsNetChange
  <2> SUFFICES ASSUME Layered PROVE ChangeLogIsNetChange
    OBVIOUS
  <2> DEFINE b == Starts(saved, base)
  <2>1. /\ b \in Seq(Images) /\ b[1] = base /\ image \in Images /\ Spans(changeLog, b, image)
    BY Zenon, LayeredFacts, StartsFacts DEF Layered
  <2> HIDE DEF b
  <2>2. LogTells(NetLog, base, image)
    BY Zenon, <2>1, NetTells
  <2>3. \A k \in Keys : Tells(NetLog[k], base[k], image[k])
    BY Zenon, <2>2 DEF LogTells
  <2> QED BY Zenon, <2>3 DEF Tells, ChangeLogIsNetChange
<1> QED BY <1>1, Invariance, PTL
=============================================================================
