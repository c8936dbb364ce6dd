------------------------ MODULE RecordTables_proofs ------------------------
(***************************************************************************)
(* Proofs about the tables of RecordTables: the ids they give ascend, and  *)
(* every driver's table, listed by id, is the list of LogStore.            *)
(***************************************************************************)
EXTENDS RecordTables, SequenceTheorems, FunctionTheorems, FiniteSetTheorems, TLAPS

-----------------------------------------------------------------------------
(* Arithmetic of the ids                                                   *)

(* A product of naturals is a natural, and products with one factor keep   *)
(* the order of the other.                                                 *)
LEMMA Products ==
    ASSUME NEW a \in Nat, NEW b \in Nat, NEW n \in Nat
    PROVE  /\ a * n \in Nat
           /\ a <= b => a * n <= b * n
           /\ a < b => a * n + n <= b * n
<1>1. a * n \in Nat
  BY SMT
<1>2. ASSUME a <= b PROVE a * n <= b * n
  <2>1. PICK c \in Nat : b = a + c
    <3>1. b - a \in Nat /\ b = a + (b - a)
      BY <1>2, SMT
    <3> QED BY <3>1
  <2>2. b * n = a * n + c * n /\ c * n \in Nat
    BY <2>1, SMT
  <2> QED BY <1>1, <2>2, SMT
<1>3. ASSUME a < b PROVE a * n + n <= b * n
  <2>1. PICK c \in Nat : b = a + c + 1
    <3>1. b - a - 1 \in Nat /\ b = a + (b - a - 1) + 1
      BY <1>3, SMT
    <3> QED BY <3>1
  <2>2. b * n = a * n + c * n + n /\ c * n \in Nat
    BY <2>1, SMT
  <2> QED BY <1>1, <2>2, SMT
<1> QED BY <1>1, <1>2, <1>3

(* The counter is the remainder of an id.                                  *)
LEMMA Remainder ==
    ASSUME NEW a \in Nat, NEW n \in Nat \ {0}, NEW k \in Nat, k < n
    PROVE  (a * n + k) % n = k
  BY SMT
-----------------------------------------------------------------------------
(* The inductive invariant                                                 *)

Row == [id : Nat, no : Nat, ts : Times, rec : Recs]

(* The counter in an id, while it did not wrap.                            *)
Low(r) == r.id - r.ts * idSeq

(* The rows are well formed, finitely many, and each save has its number.  *)
Numbered ==
    /\ logs \subseteq Row /\ IsFiniteSet(logs)
    /\ seq \in Nat /\ records \in Nat /\ saves \in Nat /\ restarts \in Nat /\ inOrder \in BOOLEAN
    /\ records <= saves
    /\ \A r \in logs : r.no <= records
    /\ \A r, s \in logs : r.no = s.no => r = s

(* SQLite and Postgres number the records in the order of saving.          *)
SqlIds == driver # "clickhouse" => \A r \in logs : r.id = r.no

TimesAscend == inOrder => \A r, s \in logs : r.no < s.no => r.ts <= s.ts

(* Within one process, or while times do not go back, the counters in the  *)
(* ids ascend and the next one is above them all.                          *)
LowsAscend ==
    restarts = 0 \/ inOrder =>
        \A r \in logs : Low(r) <= seq /\ \A s \in logs : r.no < s.no => Low(r) < Low(s)

ChIds ==
    driver = "clickhouse" /\ saves < idSeq =>
        /\ seq <= saves
        /\ \A r \in logs : Low(r) \in 0..saves
        /\ LowsAscend

TablesInv == Numbered /\ SqlIds /\ TimesAscend /\ ChIds

LEMMA InitTables == Init => TablesInv
  BY FS_EmptySet, TablesAssumption
     DEF Init, TablesInv, Numbered, SqlIds, TimesAscend, ChIds, LowsAscend

(* A row given an id by nextID before the counter wraps.                   *)
LEMMA NextId ==
    ASSUME NEW t \in Nat, seq \in Nat
    PROVE  /\ nextID(t) \in Nat
           /\ seq + 1 < idSeq => nextID(t) = t * idSeq + (seq + 1)
<1>1. idSeq \in Nat \ {0}
  BY TablesAssumption
<1>2. (seq + 1) % idSeq \in Nat
  BY <1>1, SMT
<1>3. t * idSeq \in Nat
  BY <1>1, Products
<1>4. ASSUME seq + 1 < idSeq PROVE (seq + 1) % idSeq = seq + 1
  BY <1>1, <1>4, SMT
<1> QED BY <1>2, <1>3, <1>4, SMT DEF nextID

(* The row that Save adds.                                                 *)
NewRow(t, d) == [id |-> NewId(t, records + 1), no |-> records + 1, ts |-> t, rec |-> d]

LEMMA NewRowFacts ==
    ASSUME TablesInv, NEW t \in Times, NEW d \in Recs
    PROVE  /\ NewRow(t, d) \in Row
           /\ NewRow(t, d).no = records + 1 /\ NewRow(t, d).ts = t /\ NewRow(t, d).rec = d
           /\ driver # "clickhouse" => NewRow(t, d).id = records + 1
           /\ driver = "clickhouse" /\ saves + 1 < idSeq => Low(NewRow(t, d)) = seq + 1
<1>1. t \in Nat /\ idSeq \in Nat
  BY TablesAssumption
<1> DEFINE id == NewId(t, records + 1)
<1>2. seq \in Nat /\ saves \in Nat /\ records \in Nat
  BY DEF TablesInv, Numbered
<1>3. id \in Nat /\ (driver # "clickhouse" => id = records + 1)
  BY <1>1, <1>2, NextId DEF NewId
<1>4. ASSUME driver = "clickhouse", saves + 1 < idSeq PROVE id = t * idSeq + (seq + 1)
  <2>1. seq <= saves
    BY <1>1, <1>2, <1>4 DEF TablesInv, ChIds
  <2>2. seq + 1 < idSeq
    BY <1>1, <1>2, <1>4, <2>1
  <2> QED BY <1>1, <1>2, <1>4, <2>2, NextId DEF NewId
<1>5. NewRow(t, d) \in Row
  BY <1>2, <1>3 DEF NewRow, Row
<1>6. t * idSeq \in Nat
  BY <1>1, Products
<1> QED BY <1>2, <1>3, <1>4, <1>5, <1>6 DEF NewRow, Low

(* A step that leaves no row of logs it did not find there.                *)
FewerRows ==
    /\ logs' \subseteq logs
    /\ UNCHANGED <<driver, seq, records, saves, restarts, inOrder>>

LEMMA FewerTables ==
    ASSUME TablesInv, FewerRows
    PROVE  TablesInv'
<1>1. Numbered'
  BY FS_Subset DEF TablesInv, FewerRows, Numbered
<1>2. SqlIds' /\ TimesAscend'
  BY DEF TablesInv, FewerRows, SqlIds, TimesAscend
<1>3. ChIds'
  BY DEF TablesInv, FewerRows, ChIds, LowsAscend, Low
<1> QED BY <1>1, <1>2, <1>3 DEF TablesInv

LEMMA SaveTables ==
    ASSUME TablesInv, NEW t \in Times, NEW d \in Recs, Save(t, d)
    PROVE  TablesInv'
<1> DEFINE x == NewRow(t, d)
<1>1. /\ logs' = logs \cup {x} /\ saves' = saves + 1 /\ records' = records + 1
      /\ driver' = driver /\ restarts' = restarts
      /\ seq' = IF driver = "clickhouse" THEN seq + 1 ELSE seq
      /\ inOrder' = (inOrder /\ \A r \in logs \cup spans : r.ts <= t)
  BY DEF Save, Saved, NewRow
<1>2. /\ x \in Row /\ x.no = records + 1 /\ x.ts = t
      /\ driver # "clickhouse" => x.id = records + 1
      /\ driver = "clickhouse" /\ saves + 1 < idSeq => Low(x) = seq + 1
  BY NewRowFacts
<1> HIDE DEF x
<1>3. Numbered /\ idSeq \in Nat
  BY TablesAssumption DEF TablesInv
<1>4. \A r \in logs : r \in Row /\ r.no \in Nat /\ r.no <= records
  BY <1>3 DEF Numbered, Row
<1>5. \A r \in logs : r.no < x.no
  BY <1>2, <1>3, <1>4 DEF Numbered
<1>6. Numbered'
  <2>1. logs' \subseteq Row /\ IsFiniteSet(logs')
    BY <1>1, <1>2, <1>3, FS_AddElement DEF Numbered
  <2>2. records' <= saves' /\ \A r \in logs' : r.no <= records'
    BY <1>1, <1>2, <1>3, <1>4 DEF Numbered
  <2>3. \A r, s \in logs' : r.no = s.no => r = s
    BY <1>1, <1>2, <1>3, <1>4, <1>5 DEF Numbered
  <2>4. /\ seq' \in Nat /\ records' \in Nat /\ saves' \in Nat /\ restarts' \in Nat
        /\ inOrder' \in BOOLEAN
    BY <1>1, <1>3 DEF Numbered
  <2> QED BY <2>1, <2>2, <2>3, <2>4 DEF Numbered
<1>7. SqlIds'
  BY <1>1, <1>2 DEF SqlIds, TablesInv
<1>8. TimesAscend'
  <2> SUFFICES ASSUME inOrder', NEW r \in logs', NEW s \in logs', r.no < s.no
               PROVE  r.ts <= s.ts
    BY DEF TimesAscend
  <2>1. inOrder /\ \A q \in logs : q.ts <= t
    BY <1>1
  <2>2. r # x
    BY <1>1, <1>2, <1>3, <1>4, <1>5 DEF Numbered
  <2>3. CASE s = x
    BY <1>1, <1>2, <2>1, <2>2, <2>3
  <2>4. CASE s # x
    BY <1>1, <2>1, <2>2, <2>4 DEF TimesAscend, TablesInv
  <2> QED BY <2>3, <2>4
<1>9. ChIds'
  <2> SUFFICES ASSUME driver = "clickhouse", saves + 1 < idSeq
               PROVE  /\ seq' <= saves'
                      /\ \A r \in logs' : Low(r)' \in 0..saves'
                      /\ LowsAscend'
    BY <1>1 DEF ChIds
  <2>1. /\ seq <= saves /\ \A r \in logs : Low(r) \in 0..saves
        /\ LowsAscend
    BY <1>3 DEF ChIds, TablesInv, Numbered
  <2>2. seq' = seq + 1 /\ Low(x) = seq + 1
    BY <1>1, <1>2
  <2>3. \A r : Low(r)' = Low(r)
    BY DEF Low
  <2>4. \A r \in logs' : Low(r) \in 0..saves'
    BY <1>1, <1>3, <2>1, <2>2 DEF Numbered
  <2>5. LowsAscend'
    <3> SUFFICES ASSUME restarts = 0 \/ inOrder, NEW r \in logs'
                 PROVE  Low(r) <= seq' /\ \A s \in logs' : r.no < s.no => Low(r) < Low(s)
      BY <1>1, <2>3 DEF LowsAscend
    <3>1. \A q \in logs : Low(q) \in Nat /\ Low(q) <= seq
      BY <1>3, <2>1 DEF LowsAscend, Numbered
    <3>2. CASE r = x
      <4>1. \A s \in logs' : ~(r.no < s.no)
        BY <1>1, <1>2, <1>3, <1>4, <1>5, <3>2 DEF Numbered
      <4> QED BY <1>3, <2>2, <3>2, <4>1 DEF Numbered
    <3>3. CASE r # x
      <4>1. r \in logs
        BY <1>1, <3>3
      <4>2. Low(r) <= seq' /\ Low(r) < Low(x)
        BY <1>3, <2>2, <3>1, <4>1 DEF Numbered
      <4>3. \A s \in logs : r.no < s.no => Low(r) < Low(s)
        BY <2>1, <4>1 DEF LowsAscend
      <4> QED BY <1>1, <4>2, <4>3
    <3> QED BY <3>2, <3>3
  <2> QED BY <1>1, <1>3, <2>1, <2>2, <2>3, <2>4, <2>5 DEF Numbered
<1> QED BY <1>6, <1>7, <1>8, <1>9 DEF TablesInv

LEMMA SaveSpansTables ==
    ASSUME TablesInv, NEW t \in Times, NEW p \in SpanShapes, SaveSpans(t, p)
    PROVE  TablesInv'
<1>1. /\ logs' = logs /\ saves' = saves + 1 /\ records' = records
      /\ driver' = driver /\ restarts' = restarts
      /\ seq' = IF driver = "clickhouse" THEN seq + 1 ELSE seq
      /\ inOrder' \in BOOLEAN /\ (inOrder' => inOrder)
  BY DEF SaveSpans, Saved, TablesInv, Numbered
<1>2. Numbered /\ idSeq \in Nat
  BY TablesAssumption DEF TablesInv
<1>3. \A r \in logs : r.no \in Nat
  BY <1>2 DEF Numbered, Row
<1>4. Numbered'
  BY <1>1, <1>2, <1>3 DEF Numbered
<1>5. SqlIds' /\ TimesAscend'
  BY <1>1 DEF SqlIds, TimesAscend, TablesInv
<1>6. ChIds'
  <2>1. \A r : Low(r)' = Low(r)
    BY DEF Low
  <2> SUFFICES ASSUME driver = "clickhouse", saves + 1 < idSeq
               PROVE  /\ seq' <= saves'
                      /\ \A r \in logs : Low(r) \in 0..saves'
                      /\ LowsAscend'
    BY <1>1, <2>1 DEF ChIds
  <2>2. seq <= saves /\ (\A r \in logs : Low(r) \in 0..saves) /\ LowsAscend
    BY <1>2 DEF ChIds, TablesInv, Numbered
  <2>3. LowsAscend'
    BY <1>1, <1>2, <2>1, <2>2 DEF LowsAscend, Numbered
  <2> QED BY <1>1, <1>2, <2>2, <2>3 DEF Numbered
<1> QED BY <1>4, <1>5, <1>6 DEF TablesInv
-----------------------------------------------------------------------------
(* Ranks                                                                   *)

(* below[a] is what comes before a in a total order of S.                  *)
TotalOrder(S, below) ==
    /\ below \in [S -> SUBSET S]
    /\ \A a \in S : a \notin below[a]
    /\ \A a, b \in S : a \in below[b] => below[a] \subseteq below[b]
    /\ \A a, b \in S : a # b => a \in below[b] \/ b \in below[a]

Ranked(S, below) ==
    /\ Cardinality(S) \in Nat
    /\ \A a \in S : Cardinality(below[a]) \in 0..Cardinality(S) - 1
    /\ \A a, b \in S : a \in below[b] <=> Cardinality(below[a]) < Cardinality(below[b])
    /\ \A a, b \in S : Cardinality(below[a]) = Cardinality(below[b]) => a = b
    /\ \A k \in 0..Cardinality(S) - 1 : \E a \in S : Cardinality(below[a]) = k

(* In a finite total order the elements before an element number it, from  *)
(* 0 on and without a gap.                                                 *)
LEMMA Ranking ==
    ASSUME NEW S, IsFiniteSet(S), NEW below, TotalOrder(S, below)
    PROVE  Ranked(S, below)
<1> DEFINE n == Cardinality(S)
<1>1. n \in Nat
  BY FS_CardinalityType
<1>2. PICK rank : rank = [a \in S |-> Cardinality(below[a])]
  OBVIOUS
<1>3. ASSUME NEW a \in S
      PROVE  IsFiniteSet(below[a]) /\ rank[a] \in 0..n - 1 /\ rank[a] = Cardinality(below[a])
  <2>1. below[a] \in SUBSET S /\ below[a] # S
    BY DEF TotalOrder
  <2>2. /\ IsFiniteSet(below[a]) /\ Cardinality(below[a]) <= n
        /\ Cardinality(below[a]) # n
    BY <2>1, FS_Subset
  <2>3. Cardinality(below[a]) \in Nat
    BY <2>2, FS_CardinalityType
  <2> QED BY <1>1, <1>2, <2>2, <2>3
<1>4. ASSUME NEW a \in S, NEW b \in S, a \in below[b]
      PROVE  rank[a] < rank[b]
  <2>1. /\ IsFiniteSet(below[a] \cup {a})
        /\ Cardinality(below[a] \cup {a}) = Cardinality(below[a]) + 1
    <3>1. a \notin below[a]
      BY DEF TotalOrder
    <3> QED BY <1>3, <3>1, FS_AddElement
  <2>2. below[a] \cup {a} \in SUBSET below[b]
    BY <1>4 DEF TotalOrder
  <2>3. Cardinality(below[a] \cup {a}) <= Cardinality(below[b])
    BY <1>3, <2>2, FS_Subset
  <2>4. rank[a] \in Int /\ rank[b] \in Int
    BY <1>1, <1>3
  <2> QED BY <1>3, <2>1, <2>3, <2>4
<1>5. ASSUME NEW a \in S, NEW b \in S, rank[a] = rank[b]
      PROVE  a = b
  <2>1. rank[a] \in Int /\ rank[b] \in Int
    BY <1>1, <1>3
  <2>2. a \notin below[b] /\ b \notin below[a]
    BY <1>4, <1>5, <2>1
  <2> QED BY <2>2 DEF TotalOrder
<1>6. ASSUME NEW a \in S, NEW b \in S, rank[a] < rank[b]
      PROVE  a \in below[b]
  <2>1. rank[a] \in Int /\ rank[b] \in Int
    BY <1>1, <1>3
  <2>2. a # b /\ b \notin below[a]
    BY <1>4, <1>6, <2>1
  <2> QED BY <2>2 DEF TotalOrder
<1>7. rank \in [S -> 0..n - 1]
  BY <1>2, <1>3
<1>8. rank \in Injection(S, 0..n - 1)
  BY <1>5, <1>7 DEF Injection, IsInjective
<1>9. IsFiniteSet(0..n - 1) /\ Cardinality(0..n - 1) = n
  <2>1. 0 \in Int /\ n - 1 \in Int
    BY <1>1
  <2>2. Cardinality(0..n - 1) = (IF 0 > n - 1 THEN 0 ELSE n - 1 - 0 + 1)
    BY <2>1, FS_Interval
  <2> QED BY <1>1, <2>1, <2>2, FS_Interval
<1>10. rank \in Surjection(S, 0..n - 1)
  BY <1>1, <1>8, <1>9, FS_Injection
<1>11. \A k \in 0..n - 1 : \E a \in S : rank[a] = k
  BY <1>10 DEF Surjection
<1>12. \A a \in S : rank[a] = Cardinality(below[a])
  BY <1>3
<1>13. \A a, b \in S : a \in below[b] <=> rank[a] < rank[b]
  BY <1>4, <1>6
<1> QED BY <1>1, <1>3, <1>5, <1>11, <1>12, <1>13 DEF Ranked

(* Rows that a listing by id puts into one order.                          *)
Sortable(R) ==
    /\ IsFiniteSet(R)
    /\ \A r \in R : r.id \in Int /\ r.no \in Int
    /\ \A r, s \in R : r.no = s.no => r = s

(* Row r is listed at position Place(R, r).                                *)
Place(R, r) == Rank(R, r) + 1

Listed(R) ==
    /\ Cardinality(R) \in Nat
    /\ DOMAIN Ascending(R) = 1..Cardinality(R)
    /\ \A i \in 1..Cardinality(R) : Ascending(R)[i] \in R /\ Place(R, Ascending(R)[i]) = i
    /\ \A r \in R : Place(R, r) \in 1..Cardinality(R) /\ Ascending(R)[Place(R, r)] = r
    /\ \A r, s \in R : Before(r, s) <=> Place(R, r) < Place(R, s)

LEMMA AscendingLists ==
    ASSUME NEW R, Sortable(R)
    PROVE  Listed(R)
<1>1. PICK below : below = [r \in R |-> {s \in R : Before(s, r)}]
  OBVIOUS
<1>2. \A r \in R : below[r] = {s \in R : Before(s, r)}
  BY <1>1
<1>3. TotalOrder(R, below)
  <2>1. below \in [R -> SUBSET R]
    BY <1>1
  <2>2. \A r \in R : r \notin below[r]
    BY <1>2 DEF Before, Sortable
  <2>3. \A r, s, t \in R : Before(t, r) /\ Before(r, s) => Before(t, s)
    BY DEF Before, Sortable
  <2>4. \A r, s \in R : r \in below[s] => below[r] \subseteq below[s]
    BY <1>2, <2>3
  <2>5. \A r, s \in R : r # s => Before(r, s) \/ Before(s, r)
    BY DEF Before, Sortable
  <2>6. \A r, s \in R : r # s => r \in below[s] \/ s \in below[r]
    BY <1>2, <2>5
  <2> QED BY <2>1, <2>2, <2>4, <2>6 DEF TotalOrder
<1>4. Ranked(R, below)
  BY <1>3, Ranking DEF Sortable
<1>5. \A r \in R : Rank(R, r) = Cardinality(below[r])
  BY <1>2 DEF Rank
<1> DEFINE n == Cardinality(R)
<1>6. n \in Nat /\ \A r \in R : Rank(R, r) \in 0..n - 1
  BY <1>4, <1>5 DEF Ranked
<1>7. \A r, s \in R : r \in below[s] <=> Rank(R, r) < Rank(R, s)
  BY <1>4, <1>5 DEF Ranked
<1>8. \A r, s \in R : Rank(R, r) = Rank(R, s) => r = s
  BY <1>4, <1>5 DEF Ranked
<1>9. \A k \in 0..n - 1 : \E r \in R : Rank(R, r) = k
  BY <1>4, <1>5 DEF Ranked
<1>10. DOMAIN Ascending(R) = 1..n
  BY DEF Ascending
<1>11. ASSUME NEW i \in 1..n
       PROVE  Ascending(R)[i] \in R /\ Rank(R, Ascending(R)[i]) = i - 1
  <2>1. i - 1 \in 0..n - 1
    BY <1>6
  <2>2. \E r \in R : Rank(R, r) = i - 1
    BY <1>9, <2>1
  <2>3. Ascending(R)[i] = CHOOSE r \in R : Rank(R, r) = i - 1
    BY DEF Ascending
  <2> QED BY <2>2, <2>3
<1>12. ASSUME NEW i \in 1..n
       PROVE  Place(R, Ascending(R)[i]) = i
  BY <1>11 DEF Place
<1>13. ASSUME NEW r \in R
       PROVE  Place(R, r) \in 1..n /\ Ascending(R)[Place(R, r)] = r
  <2>1. Place(R, r) \in 1..n /\ Place(R, r) - 1 = Rank(R, r)
    BY <1>6 DEF Place
  <2>2. Ascending(R)[Place(R, r)] \in R /\ Rank(R, Ascending(R)[Place(R, r)]) = Rank(R, r)
    BY <1>11, <2>1
  <2> QED BY <1>8, <2>1, <2>2
<1>14. ASSUME NEW r \in R, NEW s \in R
       PROVE  Before(r, s) <=> Place(R, r) < Place(R, s)
  <2>1. Before(r, s) <=> Rank(R, r) < Rank(R, s)
    BY <1>2, <1>7
  <2> QED BY <1>6, <2>1 DEF Place
<1> QED BY <1>6, <1>10, <1>11, <1>12, <1>13, <1>14 DEF Listed

(* A finite set of numbers is ranked by what is below.                     *)
LEMMA NumbersRanked ==
    ASSUME NEW S, S \subseteq Int
    PROVE  TotalOrder(S, [i \in S |-> {j \in S : j < i}])
<1>1. PICK below : below = [i \in S |-> {j \in S : j < i}]
  OBVIOUS
<1>2. below \in [S -> SUBSET S] /\ \A i \in S : below[i] = {j \in S : j < i}
  BY <1>1
<1>3. \A i \in S : i \notin below[i]
  BY <1>2
<1>4. \A i, j \in S : i \in below[j] => below[i] \subseteq below[j]
  <2>1. \A i, j, k \in S : k < i /\ i < j => k < j
    OBVIOUS
  <2> QED BY <1>2, <2>1
<1>5. \A i, j \in S : i # j => i \in below[j] \/ j \in below[i]
  BY <1>2
<1> QED BY <1>1, <1>2, <1>3, <1>4, <1>5 DEF TotalOrder

(* The largest id of a table that is not empty.                            *)
LEMMA MaxIdFacts ==
    ASSUME NEW S, S \subseteq Int, IsFiniteSet(S), S # {}
    PROVE  MaxId(S) \in S /\ \A i \in S : i <= MaxId(S)
<1>1. PICK below : below = [i \in S |-> {j \in S : j < i}]
  OBVIOUS
<1>2. Ranked(S, below)
  BY <1>1, NumbersRanked, Ranking
<1>3. Cardinality(S) \in Nat /\ Cardinality(S) # 0
  BY FS_CardinalityType, FS_EmptySet
<1>4. PICK m \in S : Cardinality(below[m]) = Cardinality(S) - 1
  <2>1. Cardinality(S) - 1 \in 0..Cardinality(S) - 1
    BY <1>3
  <2> QED BY <1>2, <2>1 DEF Ranked
<1>5. \A i \in S : m \notin below[i]
  <2>1. \A i \in S : Cardinality(below[i]) \in 0..Cardinality(S) - 1
    BY <1>2 DEF Ranked
  <2>2. \A i \in S : ~(Cardinality(below[m]) < Cardinality(below[i]))
    BY <1>3, <1>4, <2>1
  <2> QED BY <1>2, <2>2 DEF Ranked
<1>6. \A i \in S : i <= m
  BY <1>1, <1>5
<1> QED BY <1>4, <1>6 DEF MaxId

LEMMA IdsFacts ==
    ASSUME Numbered
    PROVE  LET ids == {r.id : r \in logs} IN ids \subseteq Nat /\ IsFiniteSet(ids)
<1> DEFINE ids == {r.id : r \in logs}
<1>1. PICK f : f = [r \in logs |-> r.id]
  OBVIOUS
<1>2. f \in Surjection(logs, ids)
  BY <1>1 DEF Surjection
<1>3. IsFiniteSet(ids)
  BY <1>2, FS_Surjection DEF Numbered
<1>4. ids \subseteq Nat
  BY DEF Numbered, Row
<1> QED BY <1>3, <1>4
-----------------------------------------------------------------------------
(* The other steps                                                         *)

(* What the counter in an id amounts to.                                   *)
LEMMA LowFacts ==
    ASSUME TablesInv, driver = "clickhouse", saves < idSeq, NEW r \in logs
    PROVE  /\ Low(r) \in Nat /\ Low(r) <= saves /\ Low(r) < idSeq
           /\ r.ts \in Nat /\ r.no \in Nat /\ r.id \in Nat
           /\ r.ts * idSeq \in Nat /\ r.id = r.ts * idSeq + Low(r)
<1>1. r \in Row /\ saves \in Nat /\ idSeq \in Nat
  BY TablesAssumption DEF TablesInv, Numbered
<1>2. r.ts \in Nat /\ r.no \in Nat /\ r.id \in Nat
  BY <1>1, TablesAssumption DEF Row
<1>3. r.ts * idSeq \in Nat
  BY <1>1, <1>2, Products
<1>4. Low(r) \in 0..saves
  BY DEF TablesInv, ChIds
<1>5. r.id = r.ts * idSeq + Low(r)
  BY <1>2, <1>3 DEF Low
<1> QED BY <1>1, <1>2, <1>3, <1>4, <1>5

(* Among ids whose times and counters ascend the ids ascend, and a         *)
(* counter below 2^20 does not make up for an earlier time.                *)
LEMMA IdsOrdered ==
    ASSUME NEW r \in Row, NEW s \in Row
    PROVE  /\ r.ts <= s.ts /\ Low(r) < Low(s) => r.id < s.id
           /\ r.ts < s.ts /\ Low(r) < idSeq /\ 0 <= Low(s) => r.id < s.id
<1>1. /\ idSeq \in Nat /\ r.ts \in Nat /\ s.ts \in Nat /\ r.id \in Nat /\ s.id \in Nat
  BY TablesAssumption DEF Row
<1>2. r.ts * idSeq \in Nat /\ s.ts * idSeq \in Nat
  BY <1>1, Products
<1>3. /\ Low(r) \in Int /\ r.id = r.ts * idSeq + Low(r)
      /\ Low(s) \in Int /\ s.id = s.ts * idSeq + Low(s)
  BY <1>1, <1>2 DEF Low
<1>4. ASSUME r.ts <= s.ts, Low(r) < Low(s) PROVE r.id < s.id
  <2>1. r.ts * idSeq <= s.ts * idSeq
    BY <1>1, <1>4, Products
  <2> QED BY <1>1, <1>2, <1>3, <1>4, <2>1
<1>5. ASSUME r.ts < s.ts, Low(r) < idSeq, 0 <= Low(s) PROVE r.id < s.id
  <2>1. r.ts * idSeq + idSeq <= s.ts * idSeq
    BY <1>1, <1>5, Products
  <2> QED BY <1>1, <1>2, <1>3, <1>5, <2>1
<1> QED BY <1>4, <1>5

LEMMA ReopenTables ==
    ASSUME TablesInv, Reopen
    PROVE  TablesInv'
<1>1. /\ UNCHANGED <<driver, logs, spans, records, saves, inOrder>>
      /\ driver = "clickhouse" /\ restarts' = restarts + 1
      /\ seq' = MaxId({r.id : r \in logs}) % idSeq
  BY DEF Reopen
<1> DEFINE ids == {r.id : r \in logs}
           top == MaxId(ids)
<1>2. Numbered /\ idSeq \in Nat \ {0} /\ ids \subseteq Nat /\ IsFiniteSet(ids)
  BY TablesAssumption, IdsFacts DEF TablesInv
<1>3. top \in Nat /\ (ids = {} => top = 0) /\ (ids # {} => top \in ids /\ \A i \in ids : i <= top)
  <2>1. ids # {} => top \in ids /\ \A i \in ids : i <= top
    <3>1. ids \subseteq Int
      BY <1>2
    <3> QED BY <1>2, <3>1, MaxIdFacts
  <2>2. ids = {} => top = 0
    BY DEF MaxId
  <2> HIDE DEF ids, top
  <2>3. CASE ids = {}
    BY <2>1, <2>2, <2>3
  <2>4. CASE ids # {}
    <3>1. top \in ids /\ ids \subseteq Nat
      BY <1>2, <2>1, <2>4
    <3> QED BY <2>1, <2>4, <3>1
  <2> QED BY <2>3, <2>4
<1>4. \A r \in logs : r.id \in ids
  OBVIOUS
<1>5. logs = {} \/ \E r \in logs : r.id = top
  BY <1>3
<1>6. logs = {} => top = 0
  BY <1>3
<1>7. \A r \in logs : r.id <= top
  BY <1>3, <1>4
<1>8. seq' = top % idSeq
  BY <1>1
<1> HIDE DEF ids, top
<1>9. seq' \in Nat
  BY <1>2, <1>3, <1>8
<1>10. Numbered'
  BY <1>1, <1>2, <1>9 DEF Numbered
<1>11. SqlIds' /\ TimesAscend'
  BY <1>1 DEF SqlIds, TimesAscend, TablesInv
<1>12. ChIds'
  <2>1. \A r : Low(r)' = Low(r)
    BY DEF Low
  <2>2. restarts' # 0
    BY <1>1, <1>2 DEF Numbered
  <2> SUFFICES ASSUME saves < idSeq
               PROVE  /\ seq' <= saves
                      /\ inOrder => \A r \in logs : Low(r) <= seq'
    BY <1>1, <2>1, <2>2 DEF ChIds, LowsAscend, TablesInv
  <2>3. CASE logs = {}
    <3>1. seq' = 0
      BY <1>2, <1>6, <1>8, <2>3
    <3> QED BY <1>2, <2>3, <3>1 DEF Numbered
  <2>4. CASE logs # {}
    <3>1. PICK m \in logs : m.id = top
      BY <1>5, <2>4
    <3>2. /\ Low(m) \in Nat /\ Low(m) <= saves /\ Low(m) < idSeq
          /\ m.ts \in Nat /\ m.no \in Nat /\ m.id = m.ts * idSeq + Low(m)
      BY <1>1, LowFacts
    <3>3. seq' = Low(m)
      BY <1>2, <1>8, <3>1, <3>2, Remainder
    <3>4. ASSUME inOrder, NEW r \in logs
          PROVE  Low(r) <= Low(m)
      <4>1. r.no \in Nat /\ Low(r) \in Nat /\ r.id \in Nat /\ m.id \in Nat /\ r.id <= m.id
        BY <1>1, <1>7, <3>1, LowFacts
      <4>2. LowsAscend
        BY <1>1 DEF TablesInv, ChIds
      <4>3. CASE r.no < m.no
        BY <3>2, <3>4, <4>1, <4>2, <4>3 DEF LowsAscend
      <4>4. CASE r.no = m.no
        <5>1. r = m
          BY <1>2, <4>4 DEF Numbered
        <5> QED BY <3>2, <5>1
      <4>5. CASE m.no < r.no
        <5>1. Low(m) < Low(r) /\ m.ts <= r.ts
          BY <3>4, <4>2, <4>5 DEF LowsAscend, TablesInv, TimesAscend
        <5>2. m.id < r.id
          BY <1>2, <5>1, IdsOrdered DEF Numbered
        <5> QED BY <4>1, <5>2
      <4> QED BY <3>2, <4>1, <4>3, <4>4, <4>5
    <3> QED BY <3>2, <3>3, <3>4
  <2> QED BY <2>3, <2>4
<1> QED BY <1>10, <1>11, <1>12 DEF TablesInv

LEMMA RemovesTables ==
    ASSUME NEW rows, Removes(rows)
    PROVE  FewerRows
  BY DEF Removes, FewerRows

LEMMA TablesStep == TablesInv /\ [Next]_vars => TablesInv'
<1> SUFFICES ASSUME TablesInv, [Next]_vars PROVE TablesInv'
  OBVIOUS
<1>1. CASE \E t \in Times, d \in Recs : Save(t, d)
  BY <1>1, SaveTables
<1>2. CASE \E t \in Times, p \in SpanShapes : SaveSpans(t, p)
  BY <1>2, SaveSpansTables
<1>3. CASE Reopen
  BY <1>3, ReopenTables
<1>4. CASE Prune
  BY <1>4, RemovesTables, FewerTables DEF Prune
<1>5. CASE \E cutoff \in Times : PruneBefore(cutoff)
  BY <1>5, RemovesTables, FewerTables DEF PruneBefore
<1>6. CASE \E value \in Values, before \in Times \cup {0} : Purge(value, before)
  BY <1>6, RemovesTables, FewerTables DEF Purge
<1>7. CASE UNCHANGED vars
  BY <1>7, FewerTables DEF vars, FewerRows
<1> QED BY <1>1, <1>2, <1>3, <1>4, <1>5, <1>6, <1>7 DEF Next

LEMMA TablesHold == Spec => []TablesInv
  BY InitTables, TablesStep, PTL DEF Spec

(* While times do not go back and the counter has not wrapped, the ids of  *)
(* the records ascend in the order of saving, through any number of        *)
(* restarts, prunings and purges and whatever spans drew ids in between:   *)
(* NewClickHouse continues from the largest id that is left, which is the  *)
(* id of the record saved last among those left, and so has the largest    *)
(* counter.                                                                *)
THEOREM IdsCorrect == Spec => []IdsAscend
<1>1. TablesInv => IdsAscend
  <2> SUFFICES ASSUME TablesInv, inOrder, saves < idSeq,
                      NEW r \in logs, NEW s \in logs, r.no < s.no
               PROVE  r.id < s.id
    BY DEF IdsAscend
  <2>1. CASE driver # "clickhouse"
    BY <2>1 DEF TablesInv, SqlIds
  <2>2. CASE driver = "clickhouse"
    <3>1. Low(r) < Low(s) /\ r.ts <= s.ts
      BY <2>2 DEF TablesInv, ChIds, LowsAscend, TimesAscend
    <3> QED BY <3>1, IdsOrdered DEF TablesInv, Numbered
  <2> QED BY <2>1, <2>2
<1> QED BY <1>1, TablesHold, PTL
-----------------------------------------------------------------------------
(* Lists of rows                                                           *)

Entry(r) == [ts |-> r.ts, rec |-> r.rec]

ListOf(R) == [i \in 1..Cardinality(R) |-> Entry(Ascending(R)[i])]

LEMMA ListingIs == Listing = ListOf(logs) /\ Listing' = ListOf(logs')
  BY DEF Listing, ListOf, Entry, Ascending, Rank, Before

LEMMA ListLength ==
    ASSUME NEW R, Sortable(R)
    PROVE  Cardinality(R) \in Nat /\ Len(ListOf(R)) = Cardinality(R)
<1>1. Listed(R)
  BY AscendingLists
<1>2. Cardinality(R) \in Nat /\ \A i \in 1..Cardinality(R) : Ascending(R)[i] \in R
  BY <1>1 DEF Listed
<1>3. ListOf(R) \in [1..Cardinality(R) -> {Entry(r) : r \in R}]
  BY <1>2 DEF ListOf
<1> QED BY <1>2, <1>3

LEMMA SubsetSortable ==
    ASSUME NEW R, Sortable(R), NEW K, K \subseteq R
    PROVE  Sortable(K)
  BY FS_Subset DEF Sortable

(* The positions of the rows K in the listing of R.                        *)
Places(R, K) == {i \in 1..Cardinality(R) : Ascending(R)[i] \in K}

(* The listing of some of the rows is what stays of the listing when only  *)
(* their positions are kept.                                               *)
LEMMA KeptRows ==
    ASSUME NEW R, Sortable(R), NEW K, K \subseteq R
    PROVE  ListOf(K) = Promised!Only(ListOf(R), Places(R, K))
<1>1. Listed(R) /\ Listed(K) /\ Sortable(K)
  BY AscendingLists, SubsetSortable
<1> DEFINE I == Places(R, K)
           n == Cardinality(R)
<1>2. n \in Nat /\ Cardinality(K) \in Nat /\ I \subseteq 1..n /\ I \subseteq Int
  BY <1>1 DEF Listed, Places
<1>3. PICK f : f = [r \in K |-> Place(R, r)]
  OBVIOUS
<1>4. \A r \in K : f[r] = Place(R, r) /\ f[r] \in I /\ Ascending(R)[f[r]] = r
  BY <1>1, <1>3 DEF Listed, Places
<1>5. \A i \in I : Ascending(R)[i] \in K /\ f[Ascending(R)[i]] = i
  BY <1>1, <1>3 DEF Listed, Places
<1>6. f \in Bijection(K, I)
  <2>1. f \in [K -> I]
    BY <1>3, <1>4
  <2>2. \A r, s \in K : f[r] = f[s] => r = s
    BY <1>4
  <2>3. \A i \in I : \E r \in K : f[r] = i
    BY <1>5
  <2> QED BY <2>1, <2>2, <2>3 DEF Bijection, Injection, IsInjective, Surjection
<1>7. IsFiniteSet(I) /\ Cardinality(I) = Cardinality(K)
  BY <1>1, <1>6, FS_Bijection DEF ExistsBijection, Sortable
<1> HIDE DEF I
<1> DEFINE at(k) == CHOOSE i \in I : Cardinality({j \in I : j < i}) = k - 1
<1>8. ASSUME NEW k \in 1..Cardinality(K)
      PROVE  at(k) \in 1..n /\ Ascending(K)[k] = Ascending(R)[at(k)]
  <2>1. PICK a \in K : a = Ascending(K)[k] /\ Place(K, a) = k
    BY <1>1 DEF Listed
  <2>2. PICK p : p = f[a]
    OBVIOUS
  <2>3. p \in I /\ p = Place(R, a) /\ Ascending(R)[p] = a
    BY <1>4, <2>2
  <2> DEFINE U == {s \in K : Before(s, a)}
             V == {j \in I : j < p}
  <2>4. IsFiniteSet(U) /\ Cardinality(U) = k - 1
    <3>1. U \subseteq K
      OBVIOUS
    <3>2. IsFiniteSet(U)
      BY <1>1, <3>1, FS_Subset DEF Sortable
    <3>3. Cardinality(U) \in Nat /\ Cardinality(U) + 1 = k
      BY <2>1, <3>2, FS_CardinalityType DEF Place, Rank
    <3> QED BY <3>2, <3>3
  <2>5. \A s \in K : Before(s, a) <=> f[s] < p
    BY <1>1, <1>4, <2>3 DEF Listed
  <2>6. PICK g : g = [s \in U |-> f[s]]
    OBVIOUS
  <2>7. g \in Bijection(U, V)
    <3>1. g \in [U -> V]
      BY <1>4, <2>5, <2>6
    <3>2. \A r, s \in U : g[r] = g[s] => r = s
      BY <1>4, <2>6
    <3>3. \A i \in V : \E r \in U : g[r] = i
      <4> SUFFICES ASSUME NEW i \in V PROVE \E r \in U : g[r] = i
        OBVIOUS
      <4>1. PICK r \in K : f[r] = i
        BY <1>5
      <4>2. r \in U
        BY <2>5, <4>1
      <4> QED BY <2>6, <4>1, <4>2
    <3> QED BY <3>1, <3>2, <3>3 DEF Bijection, Injection, IsInjective, Surjection
  <2>8. Cardinality(V) = k - 1
    BY <2>4, <2>7, FS_Bijection DEF ExistsBijection
  <2>9. PICK q : q = at(k)
    OBVIOUS
  <2>10. q \in I /\ Cardinality({j \in I : j < q}) = k - 1
    BY <2>3, <2>8, <2>9
  <2>11. q = p
    <3>1. PICK below : below = [i \in I |-> {j \in I : j < i}]
      OBVIOUS
    <3>2. Ranked(I, below)
      BY <1>2, <1>7, <3>1, NumbersRanked, Ranking
    <3>3. Cardinality(below[p]) = Cardinality(below[q])
      BY <2>3, <2>8, <2>10, <3>1
    <3> QED BY <2>3, <2>10, <3>2, <3>3 DEF Ranked
  <2> QED BY <1>2, <2>1, <2>3, <2>9, <2>11
<1>9. Promised!Only(ListOf(R), I) = [k \in 1..Cardinality(I) |-> ListOf(R)[at(k)]]
  BY DEF Promised!Only, Promised!Cardinality, Cardinality
<1> HIDE DEF at
<1>10. \A k \in 1..Cardinality(K) : ListOf(R)[at(k)] = Entry(Ascending(K)[k])
  BY <1>8 DEF ListOf
<1>11. ListOf(K) = [k \in 1..Cardinality(K) |-> Entry(Ascending(K)[k])]
  BY DEF ListOf
<1>12. ListOf(K) = [k \in 1..Cardinality(K) |-> ListOf(R)[at(k)]]
  BY <1>10, <1>11
<1> QED BY <1>7, <1>9, <1>12 DEF I

(* When all that goes comes before all that stays, a suffix stays.         *)
LEMMA NewestRows ==
    ASSUME NEW R, Sortable(R), NEW K, K \subseteq R,
           \A r \in R \ K, s \in K : Before(r, s)
    PROVE  /\ Cardinality(K) \in Nat /\ Cardinality(R) \in Nat /\ Cardinality(K) <= Cardinality(R)
           /\ ListOf(K) = SubSeq(ListOf(R), Cardinality(R) - Cardinality(K) + 1, Cardinality(R))
<1> DEFINE n == Cardinality(R)
           k == Cardinality(K)
<1>1. Listed(R) /\ Listed(K) /\ IsFiniteSet(R) /\ IsFiniteSet(K)
  BY AscendingLists, SubsetSortable DEF Sortable
<1>2. n \in Nat /\ k \in Nat /\ k <= n
  BY <1>1, FS_Subset, FS_CardinalityType
<1>3. IsFiniteSet(R \ K) /\ Cardinality(R \ K) = n - k
  <2>1. R \cap K = K
    OBVIOUS
  <2> QED BY <1>1, <2>1, FS_Difference
<1>4. ASSUME NEW r \in K
      PROVE  Place(R, r) = Place(K, r) + (n - k)
  <2> DEFINE U == {s \in K : Before(s, r)}
             V == R \ K
             W == {s \in R : Before(s, r)}
  <2>1. U \cap V = {} /\ IsFiniteSet(U) /\ Cardinality(U) \in Nat
    <3>1. U \subseteq K /\ U \cap V = {}
      OBVIOUS
    <3>2. IsFiniteSet(U)
      BY <1>1, <3>1, FS_Subset
    <3> QED BY <3>1, <3>2, FS_CardinalityType
  <2>2. W = U \cup V
    OBVIOUS
  <2>3. Cardinality(U \cup V) = Cardinality(U) + Cardinality(V) - Cardinality(U \cap V)
    BY <1>3, <2>1, FS_Union
  <2>4. Cardinality(U \cap V) = 0
    BY <2>1, FS_EmptySet
  <2>5. Rank(R, r) = Cardinality(W) /\ Rank(K, r) = Cardinality(U)
    BY DEF Rank
  <2> HIDE DEF U, V, W
  <2>6. Cardinality(W) = Cardinality(U) + (n - k)
    BY <1>2, <1>3, <2>1, <2>2, <2>3, <2>4 DEF V
  <2> QED BY <1>2, <2>1, <2>5, <2>6 DEF Place
<1>5. ASSUME NEW i \in 1..k
      PROVE  i + (n - k) \in 1..n /\ Ascending(K)[i] = Ascending(R)[i + (n - k)]
  <2>1. PICK a \in K : a = Ascending(K)[i] /\ Place(K, a) = i
    BY <1>1 DEF Listed
  <2>2. Place(R, a) = i + (n - k)
    BY <1>4, <2>1
  <2>3. Ascending(R)[Place(R, a)] = a /\ Place(R, a) \in 1..n
    BY <1>1, <2>1 DEF Listed
  <2> QED BY <2>1, <2>2, <2>3
<1>6. ASSUME NEW i \in 1..k
      PROVE  ListOf(K)[i] = ListOf(R)[i + (n - k)]
  BY <1>5 DEF ListOf
<1>7. PICK E : E = {Entry(r) : r \in R}
  OBVIOUS
<1>8. \A i \in n - k + 1..n : ListOf(R)[i] \in E
  <2>1. \A i \in 1..n : ListOf(R)[i] \in E
    BY <1>1, <1>7 DEF ListOf, Listed
  <2> QED BY <1>2, <2>1
<1>9. PICK t : t = SubSeq(ListOf(R), n - k + 1, n)
  OBVIOUS
<1>10. /\ t \in Seq(E) /\ Len(t) = IF n - k + 1 <= n THEN n - (n - k + 1) + 1 ELSE 0
       /\ \A i \in 1..n - (n - k + 1) + 1 : t[i] = ListOf(R)[(n - k + 1) + i - 1]
  <2>1. n - k + 1 \in Int /\ n \in Int
    BY <1>2
  <2> QED BY <1>8, <1>9, <2>1, SubSeqProperties
<1>11. t \in Seq(E) /\ Len(t) = k /\ \A i \in 1..k : t[i] = ListOf(R)[i + (n - k)]
  BY <1>2, <1>10
<1>12. t = [i \in 1..k |-> t[i]]
  BY <1>11
<1>13. ListOf(K) = [i \in 1..k |-> ListOf(K)[i]]
  BY DEF ListOf
<1>14. \A i \in 1..k : t[i] = ListOf(K)[i]
  BY <1>6, <1>11
<1>15. t = ListOf(K)
  BY <1>12, <1>13, <1>14
<1> QED BY <1>2, <1>9, <1>15

(* An insertion element by element.                                        *)
Inserted(t, s, p, e) ==
    /\ Len(t) = Len(s) + 1
    /\ \A i \in 1..Len(s) + 1 : t[i] = IF i < p THEN s[i] ELSE IF i = p THEN e ELSE s[i - 1]

LEMMA Insertion ==
    ASSUME NEW E, NEW s \in Seq(E), NEW p \in 1..Len(s) + 1, NEW e \in E
    PROVE  Promised!InsertAt(s, p, e) \in Seq(E) /\ Inserted(Promised!InsertAt(s, p, e), s, p, e)
<1>1. PICK n \in Nat : n = Len(s)
  OBVIOUS
<1>2. p \in Nat /\ 1 <= p /\ p <= n + 1 /\ \A i \in 1..n : s[i] \in E
  BY <1>1
<1>3. PICK u : u = SubSeq(s, 1, p - 1)
  OBVIOUS
<1>4. PICK v : v = SubSeq(s, p, n)
  OBVIOUS
<1>5. u \in Seq(E) /\ Len(u) = p - 1 /\ \A i \in 1..p - 1 : u[i] = s[i]
  <2>1. 1 \in Int /\ p - 1 \in Int /\ \A i \in 1..p - 1 : s[i] \in E
    BY <1>2
  <2>2. /\ u \in Seq(E) /\ Len(u) = (IF 1 <= p - 1 THEN p - 1 - 1 + 1 ELSE 0)
        /\ \A i \in 1..p - 1 - 1 + 1 : u[i] = s[1 + i - 1]
    BY <1>3, <2>1, SubSeqProperties
  <2> QED BY <1>2, <2>2
<1>6. v \in Seq(E) /\ Len(v) = n - p + 1 /\ \A i \in 1..n - p + 1 : v[i] = s[p + i - 1]
  <2>1. p \in Int /\ n \in Int /\ \A i \in p..n : s[i] \in E
    BY <1>2
  <2>2. /\ v \in Seq(E) /\ Len(v) = (IF p <= n THEN n - p + 1 ELSE 0)
        /\ \A i \in 1..n - p + 1 : v[i] = s[p + i - 1]
    BY <1>4, <2>1, SubSeqProperties
  <2> QED BY <1>2, <2>2
<1>7. PICK w : w = u \o <<e>>
  OBVIOUS
<1>8. w \in Seq(E) /\ Len(w) = p /\ \A i \in 1..p : w[i] = IF i < p THEN s[i] ELSE e
  <2>1. <<e>> \in Seq(E) /\ Len(<<e>>) = 1 /\ <<e>>[1] = e
    OBVIOUS
  <2>2. /\ w \in Seq(E) /\ Len(w) = Len(u) + Len(<<e>>)
        /\ \A i \in 1..Len(u) + Len(<<e>>) :
              w[i] = IF i <= Len(u) THEN u[i] ELSE <<e>>[i - Len(u)]
    BY <1>5, <1>7, <2>1, ConcatProperties
  <2>3. Len(w) = p /\ \A i \in 1..p : w[i] = IF i <= p - 1 THEN u[i] ELSE <<e>>[i - (p - 1)]
    BY <1>2, <1>5, <2>1, <2>2
  <2>4. ASSUME NEW i \in 1..p PROVE w[i] = IF i < p THEN s[i] ELSE e
    <3>1. CASE i < p
      BY <1>2, <1>5, <2>3, <3>1
    <3>2. CASE i = p
      <4>1. i - (p - 1) = 1 /\ ~(i <= p - 1) /\ ~(i < p)
        BY <1>2, <3>2
      <4> QED BY <2>1, <2>3, <4>1
    <3> QED BY <1>2, <3>1, <3>2
  <2> QED BY <2>2, <2>3, <2>4
<1>9. PICK t : t = w \o v
  OBVIOUS
<1>10. /\ t \in Seq(E) /\ Len(t) = n + 1
       /\ \A i \in 1..n + 1 : t[i] = IF i <= p THEN w[i] ELSE v[i - p]
  <2>1. /\ t \in Seq(E) /\ Len(t) = Len(w) + Len(v)
        /\ \A i \in 1..Len(w) + Len(v) : t[i] = IF i <= Len(w) THEN w[i] ELSE v[i - Len(w)]
    BY <1>6, <1>8, <1>9, ConcatProperties
  <2>2. Len(w) + Len(v) = n + 1
    BY <1>1, <1>2, <1>6, <1>8
  <2> QED BY <1>8, <2>1, <2>2
<1>11. ASSUME NEW i \in 1..n + 1
       PROVE  t[i] = IF i < p THEN s[i] ELSE IF i = p THEN e ELSE s[i - 1]
  <2>1. CASE i <= p
    BY <1>2, <1>8, <1>10, <2>1
  <2>2. CASE i > p
    <3>1. i - p \in 1..n - p + 1 /\ p + (i - p) - 1 = i - 1 /\ ~(i <= p)
      BY <1>1, <1>2, <2>2
    <3>2. v[i - p] = s[i - 1]
      BY <1>6, <3>1
    <3> QED BY <1>2, <1>10, <2>2, <3>1, <3>2
  <2> QED BY <1>2, <2>1, <2>2
<1>12. t = Promised!InsertAt(s, p, e)
  BY <1>1, <1>3, <1>4, <1>7, <1>9 DEF Promised!InsertAt
<1>13. Inserted(t, s, p, e)
  BY <1>1, <1>10, <1>11 DEF Inserted
<1> QED BY <1>10, <1>12, <1>13

(* A row that joins a table is inserted into its listing.                  *)
LEMMA InsertedRow ==
    ASSUME NEW R, NEW x, x \notin R, Sortable(R \cup {x})
    PROVE  /\ Cardinality(R) \in Nat
           /\ Place(R \cup {x}, x) \in 1..Cardinality(R) + 1
           /\ ListOf(R \cup {x}) = Promised!InsertAt(ListOf(R), Place(R \cup {x}, x), Entry(x))
           /\ \A i \in 1..Cardinality(R) + 1 :
                 Place(R \cup {x}, x) < i => ListOf(R \cup {x})[i] = ListOf(R)[i - 1]
<1> DEFINE n == Cardinality(R)
<1>1. PICK N : N = R \cup {x}
  OBVIOUS
<1>2. /\ Listed(R) /\ Listed(N) /\ Sortable(N) /\ Sortable(R)
      /\ IsFiniteSet(R) /\ n \in Nat /\ Cardinality(N) = n + 1
  <2>1. R \subseteq N /\ Sortable(N)
    BY <1>1
  <2>2. Sortable(R)
    BY <2>1, SubsetSortable
  <2>3. IsFiniteSet(R) /\ n \in Nat
    BY <2>2, FS_CardinalityType DEF Sortable
  <2>4. Cardinality(N) = n + 1
    BY <1>1, <2>3, FS_AddElement
  <2> QED BY <2>1, <2>2, <2>3, <2>4, AscendingLists
<1>3. PICK p : p = Place(N, x)
  OBVIOUS
<1>4. p \in 1..n + 1 /\ Ascending(N)[p] = x
  BY <1>1, <1>2, <1>3 DEF Listed
<1>5. ASSUME NEW r \in R
      PROVE  Place(N, r) = IF Before(x, r) THEN Place(R, r) + 1 ELSE Place(R, r)
  <2> DEFINE U == {s \in R : Before(s, r)}
  <2>1. {s \in N : Before(s, r)} = IF Before(x, r) THEN U \cup {x} ELSE U
    BY <1>1
  <2>2. IsFiniteSet(U) /\ x \notin U /\ Cardinality(U) \in Nat
    <3>1. U \subseteq R
      OBVIOUS
    <3> QED BY <1>2, <3>1, FS_Subset, FS_CardinalityType
  <2>3. Cardinality(U \cup {x}) = Cardinality(U) + 1
    BY <2>2, FS_AddElement
  <2> QED BY <2>1, <2>2, <2>3 DEF Place, Rank
<1>6. ASSUME NEW r \in R
      PROVE  /\ Place(N, r) \in 1..n + 1 /\ Place(R, r) \in 1..n
             /\ Ascending(N)[Place(N, r)] = r /\ Ascending(R)[Place(R, r)] = r
             /\ Before(x, r) <=> p < Place(N, r)
             /\ Place(N, r) # p
  BY <1>1, <1>2, <1>3, <1>4 DEF Listed
<1>7. ASSUME NEW i \in 1..n + 1
      PROVE  ListOf(N)[i] = IF i < p THEN ListOf(R)[i] ELSE IF i = p THEN Entry(x)
                                                              ELSE ListOf(R)[i - 1]
  <2>1. ListOf(N)[i] = Entry(Ascending(N)[i])
    BY <1>2 DEF ListOf
  <2>2. CASE i = p
    BY <1>2, <1>4, <2>1, <2>2
  <2>3. CASE i # p
    <3>1. PICK r \in R : r = Ascending(N)[i] /\ Place(N, r) = i
      <4>1. Ascending(N)[i] \in N /\ Place(N, Ascending(N)[i]) = i
        BY <1>2 DEF Listed
      <4>2. Ascending(N)[i] # x
        BY <1>3, <2>3, <4>1
      <4> QED BY <1>1, <4>1, <4>2
    <3>2. Place(R, r) \in 1..n /\ Entry(Ascending(R)[Place(R, r)]) = Entry(r)
      BY <1>6
    <3>3. ListOf(R)[Place(R, r)] = Entry(r)
      BY <3>2 DEF ListOf
    <3>4. CASE i < p
      <4>1. ~Before(x, r)
        BY <1>2, <1>4, <1>6, <3>1, <3>4
      <4>2. Place(R, r) = i
        BY <1>5, <3>1, <4>1
      <4> QED BY <2>1, <3>1, <3>3, <3>4, <4>2
    <3>5. CASE p < i
      <4>1. Before(x, r)
        BY <1>6, <3>1, <3>5
      <4>2. Place(R, r) + 1 = i
        BY <1>5, <3>1, <4>1
      <4>3. Place(R, r) = i - 1 /\ ~(i < p)
        BY <1>2, <1>4, <3>2, <3>5, <4>2
      <4> QED BY <2>1, <2>3, <3>1, <3>3, <4>3
    <3> QED BY <1>2, <1>4, <2>3, <3>4, <3>5
  <2> QED BY <2>2, <2>3
<1>8. PICK E : E = {Entry(r) : r \in N}
  OBVIOUS
<1>9. PICK s : s = ListOf(R)
  OBVIOUS
<1>10. s \in Seq(E) /\ Len(s) = n /\ Entry(x) \in E
  <2>1. s \in [1..n -> E]
    BY <1>1, <1>2, <1>8, <1>9 DEF ListOf, Listed
  <2> QED BY <1>1, <1>2, <1>8, <2>1
<1>11. PICK t : t = Promised!InsertAt(s, p, Entry(x))
  OBVIOUS
<1>12. /\ t \in Seq(E) /\ Len(t) = n + 1
       /\ \A i \in 1..n + 1 : t[i] = IF i < p THEN s[i] ELSE IF i = p THEN Entry(x) ELSE s[i - 1]
  <2>1. p \in 1..Len(s) + 1
    BY <1>4, <1>10
  <2>2. t \in Seq(E) /\ Inserted(t, s, p, Entry(x))
    BY <1>10, <1>11, <2>1, Insertion
  <2> QED BY <1>10, <2>2 DEF Inserted
<1>13. t = [i \in 1..n + 1 |-> t[i]]
  BY <1>12
<1>14. ListOf(N) = [i \in 1..n + 1 |-> ListOf(N)[i]]
  BY <1>2 DEF ListOf
<1>15. \A i \in 1..n + 1 : t[i] = ListOf(N)[i]
  BY <1>7, <1>9, <1>12
<1>16. t = ListOf(N)
  BY <1>13, <1>14, <1>15
<1>17. \A i \in 1..n + 1 : p < i => ListOf(N)[i] = ListOf(R)[i - 1]
  BY <1>2, <1>4, <1>7
<1> QED BY <1>1, <1>2, <1>3, <1>4, <1>9, <1>11, <1>16, <1>17
-----------------------------------------------------------------------------
(* Each operation of a driver is an operation of the list                  *)

LEMMA LogsSortable ==
    ASSUME TablesInv
    PROVE  Sortable(logs)
  BY DEF TablesInv, Numbered, Sortable, Row

(* A row whose time is not later than a new record's comes before it.      *)
LEMMA EarlierBefore ==
    ASSUME TablesInv, NEW t \in Times, NEW d \in Recs, Save(t, d), Ordered',
           NEW y \in logs, y.ts <= t
    PROVE  y.id < NewRow(t, d).id
<1>1. PICK x : x = NewRow(t, d)
  OBVIOUS
<1>2. /\ x \in Row /\ x.no = records + 1 /\ x.ts = t
      /\ driver # "clickhouse" => x.id = records + 1
      /\ driver = "clickhouse" /\ saves + 1 < idSeq => Low(x) = seq + 1
  BY <1>1, NewRowFacts
<1>3. /\ y \in Row /\ y.no <= records /\ y.no \in Nat /\ records \in Nat
      /\ saves \in Nat /\ seq \in Nat
  BY DEF TablesInv, Numbered, Row
<1>4. CASE driver # "clickhouse"
  <2>1. y.id = y.no
    BY <1>4 DEF TablesInv, SqlIds
  <2> QED BY <1>1, <1>2, <1>3, <1>4, <2>1
<1>5. CASE driver = "clickhouse"
  <2>1. saves + 1 < idSeq /\ (restarts = 0 \/ inOrder)
    BY <1>5 DEF Ordered, Save, Saved
  <2>2. saves < idSeq
    BY <1>3, <2>1, TablesAssumption
  <2>3. Low(y) <= seq /\ Low(y) \in Nat
    BY <1>5, <2>1, <2>2, LowFacts DEF TablesInv, ChIds, LowsAscend
  <2>4. Low(y) < Low(x)
    BY <1>2, <1>3, <1>5, <2>1, <2>3
  <2> QED BY <1>1, <1>2, <1>3, <2>4, IdsOrdered
<1> QED BY <1>4, <1>5

LEMMA SaveImplements ==
    ASSUME TablesInv, NEW t \in Times, NEW d \in Recs, Save(t, d), Ordered'
    PROVE  Promised!Next
<1>1. PICK x : x = NewRow(t, d)
  OBVIOUS
<1>2. logs' = logs \cup {x}
  BY <1>1 DEF Save, NewRow
<1>3. x.no = records + 1 /\ x.ts = t /\ Entry(x) = [ts |-> t, rec |-> d] /\ x \in Row
  BY <1>1, NewRowFacts DEF Entry
<1>4. x \notin logs
  BY <1>3 DEF TablesInv, Numbered
<1>5. Sortable(logs) /\ Sortable(logs')
  <2>1. TablesInv'
    BY SaveTables
  <2>2. logs' \subseteq Row /\ IsFiniteSet(logs') /\ \A r, s \in logs' : r.no = s.no => r = s
    BY <2>1 DEF TablesInv, Numbered
  <2> QED BY <2>2, LogsSortable DEF Sortable, Row
<1>6. PICK n \in Nat : n = Cardinality(logs) /\ n = Len(Listing)
  BY <1>5, ListLength, ListingIs
<1>7. PICK i \in 1..n + 1 : i = Place(logs', x)
  BY <1>2, <1>4, <1>5, <1>6, InsertedRow
<1>8. /\ Listing' = Promised!InsertAt(Listing, i, [ts |-> t, rec |-> d])
      /\ i < n + 1 => Listing'[n + 1] = Listing[n]
  <2>1. /\ ListOf(logs') = Promised!InsertAt(ListOf(logs), i, Entry(x))
        /\ \A k \in 1..n + 1 : i < k => ListOf(logs')[k] = ListOf(logs)[k - 1]
    BY <1>2, <1>4, <1>5, <1>6, <1>7, InsertedRow
  <2>2. n + 1 \in 1..n + 1 /\ n + 1 - 1 = n
    BY <1>6
  <2>3. i < n + 1 => ListOf(logs')[n + 1] = ListOf(logs)[n]
    BY <2>1, <2>2
  <2> QED BY <1>3, <2>1, <2>3, ListingIs
<1>9. ASSUME i <= n
      PROVE  \E j \in i..n : Listing[j].ts > t
  <2>1. Listed(logs') /\ Cardinality(logs') = n + 1
    BY <1>2, <1>4, <1>5, <1>6, AscendingLists, FS_AddElement DEF Sortable
  <2>2. n + 1 \in 1..n + 1 /\ n \in i..n /\ i < n + 1
    BY <1>6, <1>7, <1>9
  <2>3. PICK y \in logs' : y = Ascending(logs')[n + 1] /\ Place(logs', y) = n + 1
    BY <2>1, <2>2 DEF Listed
  <2>4. x \in logs' /\ y # x
    BY <1>2, <1>7, <2>2, <2>3
  <2>5. Before(x, y)
    BY <1>7, <2>1, <2>2, <2>3, <2>4 DEF Listed
  <2>6. y \in logs
    BY <1>2, <2>3, <2>4
  <2>7. y \in Row /\ y.ts \in Nat /\ t \in Nat /\ y.id \in Nat /\ x.id \in Nat
    BY <1>3, <2>6, TablesAssumption DEF TablesInv, Numbered, Row
  <2>8. ~(y.id < x.id)
    BY <2>5, <2>7 DEF Before
  <2>9. y.ts > t
    BY <1>1, <2>6, <2>7, <2>8, EarlierBefore
  <2>10. Listing[n] = Entry(y)
    BY <1>8, <2>1, <2>2, <2>3, ListingIs DEF ListOf
  <2> QED BY <2>2, <2>9, <2>10 DEF Entry
<1>10. Promised!Save([ts |-> t, rec |-> d])
  BY <1>6, <1>7, <1>8, <1>9 DEF Promised!Save
<1> QED BY <1>10 DEF Promised!Next

(* No two records have the same id.                                        *)
LEMMA UniqueIds ==
    ASSUME TablesInv, Ordered, NEW r \in logs, NEW s \in logs, r.id = s.id
    PROVE  r = s
<1>1. r \in Row /\ s \in Row /\ r.no \in Nat /\ s.no \in Nat /\ r.id \in Nat /\ s.id \in Nat
  BY DEF TablesInv, Numbered, Row
<1>2. CASE driver # "clickhouse"
  BY <1>2 DEF TablesInv, SqlIds, Numbered
<1>3. CASE driver = "clickhouse"
  <2>1. saves < idSeq /\ (restarts = 0 \/ inOrder)
    BY <1>3 DEF Ordered
  <2>2. ASSUME NEW a \in logs, NEW b \in logs, a.no < b.no
        PROVE  a.id # b.id
    <3>1. /\ a \in Row /\ a.ts \in Nat /\ a.id \in Nat /\ Low(a) \in Nat /\ Low(a) < idSeq
          /\ b \in Row /\ b.ts \in Nat /\ b.id \in Nat /\ Low(b) \in Nat /\ Low(b) < idSeq
      BY <1>3, <2>1, LowFacts DEF TablesInv, Numbered
    <3>2. Low(a) < Low(b)
      BY <1>3, <2>1, <2>2 DEF TablesInv, ChIds, LowsAscend
    <3>3. CASE a.ts <= b.ts
      <4>1. a.id < b.id
        BY <3>1, <3>2, <3>3, IdsOrdered
      <4> QED BY <3>1, <4>1
    <3>4. CASE b.ts < a.ts
      <4>1. b.id < a.id
        BY <3>1, <3>4, IdsOrdered
      <4> QED BY <3>1, <4>1
    <3> QED BY <3>1, <3>3, <3>4
  <2>3. ~(r.no < s.no) /\ ~(s.no < r.no)
    BY <2>2
  <2>4. r.no = s.no
    BY <1>1, <2>3
  <2> QED BY <2>4 DEF TablesInv, Numbered
<1> QED BY <1>2, <1>3

(* Rows numbered apart by f are no more than the numbers.                  *)
LEMMA Counted ==
    ASSUME NEW K, NEW a \in Int, NEW b \in Int, a <= b + 1, NEW f \in [K -> a..b],
           \A r, s \in K : f[r] = f[s] => r = s
    PROVE  Cardinality(K) <= b - a + 1
<1>1. f \in Injection(K, a..b)
  BY DEF Injection, IsInjective
<1>2. IsFiniteSet(a..b) /\ Cardinality(a..b) = IF a > b THEN 0 ELSE b - a + 1
  BY FS_Interval
<1>3. Cardinality(K) <= Cardinality(a..b)
  BY <1>1, <1>2, FS_Injection
<1> QED BY <1>2, <1>3

(* Removing rows that come before all the others, so that MaxRows stay.    *)
LEMMA CutImplements ==
    ASSUME TablesInv, logs' \subseteq logs, logs' # logs,
           MaxRows > 0, Cardinality(logs') = MaxRows,
           \A r \in logs \ logs', s \in logs' : Before(r, s)
    PROVE  Promised!Next
<1>1. Sortable(logs)
  BY LogsSortable
<1>2. PICK K : K = logs'
  OBVIOUS
<1>3. PICK n \in Nat : n = Cardinality(logs) /\ n = Len(Listing)
  BY <1>1, ListLength, ListingIs
<1>4. PICK k \in Nat : k = Cardinality(K)
  BY <1>1, <1>2, NewestRows
<1>5. k <= n /\ ListOf(K) = SubSeq(ListOf(logs), n - k + 1, n)
  BY <1>1, <1>2, <1>3, <1>4, NewestRows
<1>6. k = MaxRows /\ k < n
  <2>1. k # n
    <3>1. IsFiniteSet(logs)
      BY DEF TablesInv, Numbered
    <3> QED BY <1>2, <1>3, <1>4, <3>1, FS_Subset
  <2> QED BY <1>2, <1>4, <1>5, <2>1
<1>7. Listing' = SubSeq(Listing, Len(Listing) - k + 1, Len(Listing))
  BY <1>2, <1>3, <1>5, ListingIs
<1>8. Promised!Prune(MaxRows)
  BY <1>3, <1>6, <1>7 DEF Promised!Prune
<1> QED BY <1>8 DEF Promised!Next

LEMMA SqlPruneImplements ==
    ASSUME TablesInv, Ordered, driver # "clickhouse", MaxRows > 0, NoGaps,
           Removes({r \in logs : r.id \in PrunedIds({s.id : s \in logs}, MaxRows)})
    PROVE  Promised!Next
<1> DEFINE ids == {s.id : s \in logs}
<1>1. PICK top : top = MaxId(ids)
  OBVIOUS
<1>2. logs' = logs \ {r \in logs : r.id \in PrunedIds(ids, MaxRows)} /\ logs # {}
  BY DEF Removes
<1>3. ids \subseteq Nat /\ IsFiniteSet(ids) /\ ids # {} /\ MaxRows \in Nat
  BY <1>2, IdsFacts, TablesAssumption DEF TablesInv
<1>4. top \in Nat /\ top \in ids /\ \A i \in ids : i <= top
  <2>1. PICK S : S = ids
    OBVIOUS
  <2>2. S \subseteq Int /\ IsFiniteSet(S) /\ S # {}
    BY <1>3, <2>1
  <2>3. top \in S /\ \A i \in S : i <= top
    BY <1>1, <2>1, <2>2, MaxIdFacts
  <2> QED BY <1>3, <2>1, <2>3
<1>5. \A r \in logs : r.id \in ids /\ r.id \in Nat
  BY <1>3
<1>6. \A i \in ids : i \in PrunedIds(ids, MaxRows) <=> i <= top - MaxRows
  BY <1>1 DEF PrunedIds
<1> HIDE DEF ids
<1>7. \A r \in logs : r.id <= top /\ (r \in logs' <=> top - MaxRows < r.id)
  BY <1>2, <1>3, <1>4, <1>5, <1>6
<1>8. logs' \subseteq logs /\ \A r \in logs \ logs', s \in logs' : Before(r, s)
  <2>1. logs' \subseteq logs
    BY <1>2
  <2>2. \A r \in logs \ logs', s \in logs' : r.id < s.id
    BY <1>3, <1>4, <1>5, <1>7, <2>1
  <2> QED BY <2>1, <2>2 DEF Before
<1>9. PICK low \in logs : low \notin logs'
  BY <1>2 DEF Removes
<1>10. PICK newest \in logs : newest.id = top
  BY <1>4 DEF ids
<1>11. Cardinality(logs') <= MaxRows
  <2>1. PICK K : K = logs'
    OBVIOUS
  <2>2. PICK f : f = [r \in K |-> r.id]
    OBVIOUS
  <2>3. f \in [K -> top - MaxRows + 1..top]
    BY <1>3, <1>4, <1>5, <1>7, <1>8, <2>1, <2>2
  <2>4. \A r, s \in K : f[r] = f[s] => r = s
    BY <1>8, <2>1, <2>2, UniqueIds
  <2>5. top - MaxRows + 1 \in Int /\ top \in Int /\ top - MaxRows + 1 <= top + 1
    BY <1>3, <1>4
  <2>6. Cardinality(K) <= top - (top - MaxRows + 1) + 1
    BY <2>3, <2>4, <2>5, Counted
  <2> QED BY <1>3, <1>4, <2>1, <2>6
<1>12. MaxRows <= Cardinality(logs')
  <2>1. PICK K : K = logs'
    OBVIOUS
  <2>2. ASSUME NEW i \in top - MaxRows + 1..top
        PROVE  \E r \in K : r.id = i
    <3>1. i \in low.id..newest.id
      BY <1>3, <1>4, <1>5, <1>7, <1>9, <1>10
    <3>2. PICK r \in logs : r.id = i
      BY <1>9, <1>10, <3>1 DEF NoGaps
    <3> QED BY <1>3, <1>4, <1>7, <2>1, <3>2
  <2>3. PICK I : I = top - MaxRows + 1..top
    OBVIOUS
  <2>4. PICK f : f = [i \in I |-> CHOOSE r \in K : r.id = i]
    OBVIOUS
  <2>5. \A i \in I : f[i] \in K /\ f[i].id = i
    BY <2>2, <2>3, <2>4
  <2>6. f \in Injection(I, K)
    BY <2>4, <2>5 DEF Injection, IsInjective
  <2>7. Cardinality(I) = MaxRows /\ IsFiniteSet(K)
    <3>1. IsFiniteSet(logs)
      BY DEF TablesInv, Numbered
    <3>2. IsFiniteSet(K)
      BY <1>8, <2>1, <3>1, FS_Subset
    <3>3. PICK a \in Int, b \in Int : a = top - MaxRows + 1 /\ b = top
      BY <1>3, <1>4
    <3>4. Cardinality(I) = b - a + 1
      BY <1>3, <1>4, <2>3, <3>3, FS_Interval
    <3> QED BY <1>3, <1>4, <3>2, <3>3, <3>4
  <2> QED BY <2>1, <2>6, <2>7, FS_Injection
<1>13. Cardinality(logs') = MaxRows
  <2>1. IsFiniteSet(logs')
    BY <1>8, FS_Subset DEF TablesInv, Numbered
  <2>2. Cardinality(logs') \in Nat
    BY <2>1, FS_CardinalityType
  <2> QED BY <1>3, <1>11, <1>12, <2>2
<1> QED BY <1>8, <1>9, <1>13, CutImplements

LEMMA ChPruneImplements ==
    ASSUME TablesInv, Ordered, driver = "clickhouse", MaxRows > 0, Cardinality(logs) > MaxRows,
           Removes({r \in logs : r.id < Ascending(logs)[Len(Ascending(logs)) - MaxRows + 1].id})
    PROVE  Promised!Next
<1> DEFINE n == Cardinality(logs)
<1>1. Listed(logs) /\ MaxRows \in Nat /\ n \in Nat
  BY LogsSortable, AscendingLists, TablesAssumption DEF Listed
<1>2. Len(Ascending(logs)) = n
  <2>1. Ascending(logs) \in [1..n -> logs]
    BY <1>1 DEF Listed, Ascending
  <2> QED BY <1>1, <2>1
<1>3. n - MaxRows + 1 \in 1..n
  BY <1>1
<1>4. PICK m \in logs : m = Ascending(logs)[n - MaxRows + 1] /\ Place(logs, m) = n - MaxRows + 1
  BY <1>1, <1>3 DEF Listed
<1>5. logs' = logs \ {r \in logs : r.id < m.id}
  BY <1>2, <1>4 DEF Removes
<1>6. \A r \in logs : r.id \in Nat /\ r.no \in Nat /\ Place(logs, r) \in 1..n
  BY <1>1 DEF Listed, TablesInv, Numbered, Row
<1>7. logs' \subseteq logs /\ \A r \in logs' : m.id <= r.id
  BY <1>4, <1>5, <1>6
<1>8. \A r \in logs \ logs', s \in logs' : Before(r, s)
  <2>1. \A r \in logs \ logs', s \in logs' : r.id < s.id
    BY <1>4, <1>5, <1>6, <1>7
  <2> QED BY <2>1 DEF Before
<1>9. ASSUME NEW r \in logs'
      PROVE  Place(logs, r) \in n - MaxRows + 1..n
  <2>1. r \in logs /\ m.id <= r.id /\ r.id \in Nat /\ m.id \in Nat
    BY <1>4, <1>6, <1>7
  <2>2. ~Before(r, m)
    <3>1. CASE r.id = m.id
      <4>1. r = m
        BY <2>1, <3>1, UniqueIds
      <4> QED BY <1>6, <2>1, <4>1 DEF Before
    <3>2. CASE r.id # m.id
      BY <2>1, <3>2 DEF Before
    <3> QED BY <3>1, <3>2
  <2>3. ~(Place(logs, r) < Place(logs, m))
    BY <1>1, <2>1, <2>2 DEF Listed
  <2> QED BY <1>1, <1>4, <1>6, <2>1, <2>3
<1>10. Cardinality(logs') <= MaxRows
  <2>1. PICK K : K = logs'
    OBVIOUS
  <2>2. PICK f : f = [r \in K |-> Place(logs, r)]
    OBVIOUS
  <2>3. f \in [K -> n - MaxRows + 1..n]
    BY <1>9, <2>1, <2>2
  <2>4. \A r \in K : f[r] = Place(logs, r) /\ Ascending(logs)[f[r]] = r
    BY <1>1, <1>7, <2>1, <2>2 DEF Listed
  <2>5. n - MaxRows + 1 \in Int /\ n \in Int /\ n - MaxRows + 1 <= n + 1
    BY <1>1
  <2>6. Cardinality(K) <= n - (n - MaxRows + 1) + 1
    <3>1. \A r, s \in K : f[r] = f[s] => r = s
      BY <2>4
    <3> QED BY <2>3, <2>5, <3>1, Counted
  <2> QED BY <1>1, <2>1, <2>6
<1>11. MaxRows <= Cardinality(logs')
  <2>1. PICK K : K = logs'
    OBVIOUS
  <2>2. PICK I : I = n - MaxRows + 1..n
    OBVIOUS
  <2>3. PICK f : f = [i \in I |-> Ascending(logs)[i]]
    OBVIOUS
  <2>4. ASSUME NEW i \in I
        PROVE  f[i] \in K /\ Place(logs, f[i]) = i
    <3>1. i \in 1..n
      BY <1>1, <2>2
    <3>2. f[i] \in logs /\ Place(logs, f[i]) = i
      BY <1>1, <2>3, <3>1 DEF Listed
    <3>3. ~(Place(logs, f[i]) < Place(logs, m))
      BY <1>1, <1>4, <2>2, <3>2
    <3>4. ~Before(f[i], m)
      BY <1>1, <1>4, <3>2, <3>3 DEF Listed
    <3>5. ~(f[i].id < m.id)
      BY <3>4 DEF Before
    <3> QED BY <1>5, <2>1, <3>2, <3>5
  <2>5. f \in Injection(I, K)
    BY <2>3, <2>4 DEF Injection, IsInjective
  <2>6. Cardinality(I) = MaxRows /\ IsFiniteSet(K)
    <3>1. IsFiniteSet(logs)
      BY DEF TablesInv, Numbered
    <3>2. IsFiniteSet(K)
      BY <1>7, <2>1, <3>1, FS_Subset
    <3>3. PICK a \in Int, b \in Int : a = n - MaxRows + 1 /\ b = n
      BY <1>1
    <3>4. Cardinality(I) = b - a + 1
      BY <1>1, <2>2, <3>3, FS_Interval
    <3> QED BY <1>1, <3>2, <3>3, <3>4
  <2> QED BY <2>1, <2>5, <2>6, FS_Injection
<1>12. Cardinality(logs') = MaxRows
  <2>1. IsFiniteSet(logs')
    BY <1>7, FS_Subset DEF TablesInv, Numbered
  <2>2. Cardinality(logs') \in Nat
    BY <2>1, FS_CardinalityType
  <2> QED BY <1>1, <1>10, <1>11, <2>2
<1>13. logs' # logs
  BY <1>1, <1>12
<1> QED BY <1>7, <1>8, <1>12, <1>13, CutImplements

(* What stays of the list when a set of rows is removed.                   *)
LEMMA RemovesKeeps ==
    ASSUME TablesInv, NEW rows, Removes(rows)
    PROVE  /\ Listed(logs) /\ Listing = ListOf(logs) /\ DOMAIN Listing = 1..Cardinality(logs)
           /\ Listing' = Promised!Only(Listing, Places(logs, logs \ rows))
<1>1. PICK K : K = logs \ rows
  OBVIOUS
<1>2. logs' = K /\ K \subseteq logs
  BY <1>1 DEF Removes
<1>3. Sortable(logs) /\ Listed(logs)
  BY LogsSortable, AscendingLists
<1>4. ListOf(K) = Promised!Only(ListOf(logs), Places(logs, K))
  BY <1>2, <1>3, KeptRows
<1>5. DOMAIN ListOf(logs) = 1..Cardinality(logs)
  BY DEF ListOf
<1> QED BY <1>1, <1>2, <1>3, <1>4, <1>5, ListingIs

LEMMA PruneBeforeImplements ==
    ASSUME TablesInv, NEW cutoff \in Times, PruneBefore(cutoff)
    PROVE  Promised!Next
<1>1. PICK rows : rows = {r \in logs : r.ts < cutoff}
  OBVIOUS
<1>2. Removes(rows)
  BY <1>1 DEF PruneBefore
<1>3. /\ Listed(logs) /\ Listing = ListOf(logs) /\ DOMAIN Listing = 1..Cardinality(logs)
      /\ Listing' = Promised!Only(Listing, Places(logs, logs \ rows))
  BY <1>2, RemovesKeeps
<1>4. \A r \in logs : r.ts \in Nat /\ cutoff \in Nat
  BY TablesAssumption DEF TablesInv, Numbered, Row
<1>5. \A i \in DOMAIN Listing : Ascending(logs)[i] \in logs /\ Listing[i].ts = Ascending(logs)[i].ts
  BY <1>3 DEF Listed, ListOf, Entry
<1>6. Places(logs, logs \ rows) = {i \in DOMAIN Listing : Listing[i].ts >= cutoff}
  BY <1>1, <1>3, <1>4, <1>5 DEF Places
<1>7. Promised!PruneBefore(cutoff)
  BY <1>3, <1>6 DEF Promised!PruneBefore
<1> QED BY <1>7 DEF Promised!Next

LEMMA PurgeImplements ==
    ASSUME TablesInv, NEW value \in Values, NEW before \in Times \cup {0}, Purge(value, before),
           NoTwin(value)
    PROVE  Promised!Next
<1> DEFINE tag == [d \in Recs |-> Label(d.labels, PurgeLabel)]
<1>1. PICK rows : rows = {r \in logs : /\ Label(r.rec.labels, PurgeLabel) = value
                                       /\ before # 0 => r.ts < before}
  OBVIOUS
<1>2. Removes(rows)
  <2>1. \A r \in logs : LabelMatches(Label(r.rec.labels, PurgeLabel), value)
                          <=> Label(r.rec.labels, PurgeLabel) = value
    BY DEF NoTwin, LabelMatches
  <2>2. rows = {r \in logs : /\ LabelMatches(Label(r.rec.labels, PurgeLabel), value)
                             /\ before # 0 => r.ts < before}
    BY <1>1, <2>1
  <2> QED BY <2>2 DEF Purge
<1>3. /\ Listed(logs) /\ Listing = ListOf(logs) /\ DOMAIN Listing = 1..Cardinality(logs)
      /\ Listing' = Promised!Only(Listing, Places(logs, logs \ rows))
  BY <1>2, RemovesKeeps
<1>4. \A r \in logs : tag[r.rec] = Label(r.rec.labels, PurgeLabel)
  BY DEF TablesInv, Numbered, Row
<1> HIDE DEF tag
<1>5. \A i \in DOMAIN Listing : /\ Ascending(logs)[i] \in logs
                                /\ Listing[i].ts = Ascending(logs)[i].ts
                                /\ Listing[i].rec = Ascending(logs)[i].rec
  BY <1>3 DEF Listed, ListOf, Entry
<1>6. Places(logs, logs \ rows)
        = {i \in DOMAIN Listing :
              ~(tag[Listing[i].rec] = value /\ (before # 0 => Listing[i].ts < before))}
  BY <1>1, <1>3, <1>4, <1>5 DEF Places
<1>7. Promised!Purge(value, before)
  BY <1>3, <1>6 DEF Promised!Purge, tag
<1> QED BY <1>7 DEF Promised!Next

LEMMA StepImplements ==
    TablesInv /\ [Next]_vars =>
        [/\ Ordered'
         /\ Prune => NoGaps
         /\ \A v \in Values, t \in Times \cup {0} : Purge(v, t) => NoTwin(v)
         => Promised!Next]_Listing
<1> SUFFICES ASSUME TablesInv, [Next]_vars, Ordered', Prune => NoGaps,
                    \A v \in Values, t \in Times \cup {0} : Purge(v, t) => NoTwin(v)
             PROVE  Promised!Next \/ Listing' = Listing
  OBVIOUS
<1>1. CASE \E t \in Times, d \in Recs : Save(t, d)
  BY <1>1, SaveImplements
<1>2. CASE logs' = logs
  BY <1>2, ListingIs
<1>3. CASE Prune
  <2>1. Ordered /\ NoGaps
    BY <1>3 DEF Prune, Removes, Ordered
  <2> QED BY <1>3, <2>1, SqlPruneImplements, ChPruneImplements DEF Prune
<1>4. CASE \E cutoff \in Times : PruneBefore(cutoff)
  BY <1>4, PruneBeforeImplements
<1>5. CASE \E value \in Values, before \in Times \cup {0} : Purge(value, before)
  BY <1>5, PurgeImplements
<1>6. (\E t \in Times, p \in SpanShapes : SaveSpans(t, p)) \/ Reopen \/ UNCHANGED vars
        => logs' = logs
  BY DEF SaveSpans, Reopen, vars
<1> QED BY <1>1, <1>2, <1>3, <1>4, <1>5, <1>6 DEF Next

(* Every driver implements the list of ext.Store, for any records, times,  *)
(* row limit and number of saves, removals and restarts: a save inserts    *)
(* the record behind all the others or ahead of a later one, row retention *)
(* leaves exactly the last MaxRows of the list and nothing goes under the  *)
(* cap, age retention and erasure leave exactly what they do not name, in  *)
(* its order, and spans and restarts leave the list alone.  It is required *)
(* of ClickHouse as long as its counter has not wrapped and, across a      *)
(* restart, times do not go back; of row retention in SQLite and Postgres  *)
(* when no id is missing in between; of an erasure in SQLite when no label *)
(* differs from the named one only in case.                                *)
THEOREM DriversImplement == Spec => ImplementsLogStore
<1>1. Init => Promised!Init
  <2> SUFFICES ASSUME Init PROVE Listing = <<>>
    BY DEF Promised!Init
  <2>1. Cardinality(logs) = 0
    BY FS_EmptySet DEF Init
  <2>2. ListOf(logs) = <<>>
    BY <2>1 DEF ListOf
  <2> QED BY <2>2, ListingIs
<1> QED BY <1>1, StepImplements, TablesHold, PTL DEF Spec, ImplementsLogStore
=============================================================================
