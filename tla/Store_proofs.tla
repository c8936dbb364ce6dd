---------------------------- MODULE Store_proofs ----------------------------
(***************************************************************************)
(* The write path: what AsyncWriter hands to the store and in which order, *)
(* and what retention and erasure leave in the three tables of             *)
(* TelemetryStore, for every driver, every set of records, tenants and     *)
(* traces, every queue size and every retention setting.                   *)
(***************************************************************************)
EXTENDS AsyncWriter, TelemetryStore, SequenceTheorems, FunctionTheorems, FiniteSetTheorems, TLAPS

-----------------------------------------------------------------------------
(* An id is the number of the row, or lies in the range of its time.       *)
IdOf(r) ==
    IF driver = "clickhouse" THEN r.ts * IdSeq <= r.id /\ r.id < r.ts * IdSeq + IdSeq
    ELSE r.id = r.no

(* The tables: what a row says of the ids handed out and of the records    *)
(* that were ever saved.                                                   *)
Stored ==
    /\ logs \subseteq Record /\ IsFiniteSet(logs)
    /\ \A r, s \in logs : r.no = s.no => r = s
    /\ issued \in 0..MaxRecords
    /\ \A r \in logs : r.no <= issued /\ <<r.trace, r.tenant>> \in served
    /\ \A r \in logs : IdOf(r)
    /\ lines \in [Tables -> SUBSET Line]
    /\ written \in 0..MaxLines
    /\ \A t \in Tables : \A c \in lines[t] : c.no <= written
    /\ driver \in Drivers /\ clock \in 1..MaxTime

(* ClickHouse's Prune: once it has its boundary, at most MaxRows ids       *)
(* lie on the side it keeps, whatever a purge takes meanwhile.             *)
Kept == {i \in Ids : i >= pruner.cutoff}
Pruning ==
    /\ pruner \in [at : {"idle", "counted", "bounded"}, cutoff : Nat]
    /\ pruner.at # "idle" => MaxRows > 0
    /\ pruner.at = "bounded" => Cardinality(Kept) <= MaxRows

PurgeStates ==
    [at : {"idle", "begun", "app_logs", "spans", "logs", "commit", "ok", "failed"},
     tenant : Tenants \cup {""}, before : Nat, traces : SUBSET Traces,
     doomed : [Tables -> SUBSET Line], records : SUBSET Record, upto : Nat,
     seen : [Tables -> SUBSET Line], erased : SUBSET Record]

(* A trace of some record of the tenant to erase.                          *)
Witnessed(trace) ==
    /\ trace # NoTrace
    /\ \E tenant : <<trace, tenant>> \in served /\ LabelMatches(tenant, purge.tenant)

(* What a purge has picked so far is the tenant's.                         *)
Purging ==
    /\ purge \in PurgeStates
    /\ purge.records \subseteq Targets(purge.records, purge)
    /\ \A t \in Tables : \A c \in purge.doomed[t] : Witnessed(c.trace)
    /\ \A x \in purge.traces : Witnessed(x)

(* The rows it looked up are older than any to come, and gone before the   *)
(* records are.                                                            *)
Looked ==
    /\ \A t \in Tables : \A c \in purge.seen[t] : c.no <= written
    /\ purge.erased # {} => purge.at = "ok" /\ \A t \in Tables : purge.seen[t] \cap lines[t] = {}
    /\ driver = "postgres" => purge.doomed = purge.seen
    /\ driver = "clickhouse" =>
        /\ \A t \in Tables : \A c \in purge.seen[t] : c.trace \in purge.traces
        /\ purge.at \in {"spans", "logs"} => purge.seen["app_logs"] \cap lines["app_logs"] = {}
        /\ purge.at = "logs" => purge.seen["spans"] \cap lines["spans"] = {}

(* What Postgres has not picked when it deletes the records came later.    *)
Late ==
    /\ purge.upto <= issued
    /\ purge.at = "commit" => \A r \in Targets(logs, purge) \ purge.records : r.no > purge.upto

StoreInv == Stored /\ Pruning /\ Purging /\ Looked /\ Late
-----------------------------------------------------------------------------
(* The number of rows above a row numbers a finite set of ids.             *)
Over(S, i) == {j \in S : j > i}

(* From the newest row down every place is taken.                          *)
LEMMA Places ==
    ASSUME NEW S, S \subseteq Int, IsFiniteSet(S), NEW k \in 0..Cardinality(S) - 1
    PROVE  \E i \in S : Cardinality(Over(S, i)) = k
<1> DEFINE n == Cardinality(S)
<1>1. n \in Nat BY FS_CardinalityType
<1>2. PICK place : place = [i \in S |-> Cardinality(Over(S, i))] OBVIOUS
<1>3. ASSUME NEW i \in S
      PROVE  IsFiniteSet(Over(S, i)) /\ place[i] \in 0..n - 1 /\ place[i] = Cardinality(Over(S, i))
    <2>1. Over(S, i) \in SUBSET S /\ i \notin Over(S, i) BY DEF Over
    <2>2. Over(S, i) # S BY <2>1
    <2>3. /\ IsFiniteSet(Over(S, i)) /\ Cardinality(Over(S, i)) <= n
          /\ Cardinality(Over(S, i)) # n
        BY <2>1, <2>2, FS_Subset
    <2>4. Cardinality(Over(S, i)) \in Nat BY <2>3, FS_CardinalityType
    <2>5. QED BY <1>1, <1>2, <2>3, <2>4
<1>4. ASSUME NEW i \in S, NEW j \in S, i > j PROVE place[i] < place[j]
    <2>1. /\ IsFiniteSet(Over(S, i) \cup {i})
          /\ Cardinality(Over(S, i) \cup {i}) = Cardinality(Over(S, i)) + 1
        <3>1. i \notin Over(S, i) BY DEF Over
        <3>2. QED BY <1>3, <3>1, FS_AddElement
    <2>2. Over(S, i) \cup {i} \in SUBSET Over(S, j)
        <3>1. \A x \in S : x > i => x > j BY <1>4
        <3>2. QED BY <1>4, <3>1 DEF Over
    <2>3. Cardinality(Over(S, i) \cup {i}) <= Cardinality(Over(S, j)) BY <1>3, <2>2, FS_Subset
    <2>4. place[i] \in Int /\ place[j] \in Int BY <1>1, <1>3
    <2>5. QED BY <1>3, <2>1, <2>3, <2>4
<1>5. \A i, j \in S : place[i] = place[j] => i = j
    <2> SUFFICES ASSUME NEW i \in S, NEW j \in S, place[i] = place[j] PROVE i = j OBVIOUS
    <2>1. place[i] \in Int /\ place[j] \in Int BY <1>1, <1>3
    <2>2. ~(i > j) /\ ~(j > i) BY <1>4, <2>1
    <2>3. QED BY <2>2
<1>6. place \in [S -> 0..n - 1] BY <1>2, <1>3
<1>7. place \in Injection(S, 0..n - 1) BY <1>5, <1>6 DEF Injection, IsInjective
<1>8. IsFiniteSet(0..n - 1) /\ Cardinality(0..n - 1) = n
    <2>1. 0 \in Int /\ n - 1 \in Int BY <1>1
    <2>2. Cardinality(0..n - 1) = (IF 0 > n - 1 THEN 0 ELSE n - 1 - 0 + 1) BY <2>1, FS_Interval
    <2>3. QED BY <1>1, <2>1, <2>2, FS_Interval
<1>9. place \in Surjection(S, 0..n - 1) BY <1>1, <1>7, <1>8, FS_Injection
<1>10. PICK i \in S : place[i] = k BY <1>9 DEF Surjection
<1>11. QED BY <1>3, <1>10

(* The largest id.                                                         *)
LEMMA MaxIdFacts ==
    ASSUME NEW S, S \subseteq Int, IsFiniteSet(S), S # {}
    PROVE  MaxId(S) \in S /\ \A i \in S : i <= MaxId(S)
<1>1. Cardinality(S) \in Nat /\ Cardinality(S) # 0 BY FS_CardinalityType, FS_EmptySet
<1>2. 0 \in 0..Cardinality(S) - 1 BY <1>1
<1>3. PICK m \in S : Cardinality(Over(S, m)) = 0 BY <1>2, Places
<1>4. Over(S, m) = {}
    <2>1. Over(S, m) \subseteq S BY DEF Over
    <2>2. IsFiniteSet(Over(S, m)) BY <2>1, FS_Subset
    <2>3. QED BY <1>3, <2>2, FS_EmptySet
<1>5. \A i \in S : i <= m BY <1>4 DEF Over
<1>6. QED BY <1>3, <1>5 DEF MaxId

(* And the smallest.                                                       *)
LEMMA MinIdFacts ==
    ASSUME NEW S, S \subseteq Int, IsFiniteSet(S), S # {}
    PROVE  \E m \in S : \A i \in S : m <= i
<1>1. Cardinality(S) \in Nat /\ Cardinality(S) # 0 BY FS_CardinalityType, FS_EmptySet
<1>2. Cardinality(S) - 1 \in 0..Cardinality(S) - 1 BY <1>1
<1>3. PICK m \in S : Cardinality(Over(S, m)) = Cardinality(S) - 1 BY <1>2, Places
<1>4. PICK T : T = Over(S, m) \cup {m} OBVIOUS
<1>5. T \in SUBSET S /\ m \notin Over(S, m) /\ Over(S, m) \in SUBSET S BY <1>4 DEF Over
<1>6. Cardinality(T) = Cardinality(S)
    <2>1. IsFiniteSet(Over(S, m)) BY <1>5, FS_Subset
    <2>2. Cardinality(T) = Cardinality(Over(S, m)) + 1 BY <1>4, <1>5, <2>1, FS_AddElement
    <2>3. QED BY <1>1, <1>3, <2>2
<1>7. T = S BY <1>5, <1>6, FS_Subset
<1>8. \A i \in S : m <= i BY <1>4, <1>7 DEF Over
<1>9. QED BY <1>8

(* The ids of a set of rows are no more than the rows.                     *)
LEMMA IdsOfRows ==
    ASSUME NEW R, IsFiniteSet(R), \A r \in R : r.id \in Nat
    PROVE  /\ {r.id : r \in R} \subseteq Nat /\ IsFiniteSet({r.id : r \in R})
           /\ Cardinality({r.id : r \in R}) <= Cardinality(R)
           /\ Cardinality({r.id : r \in R}) \in Nat /\ Cardinality(R) \in Nat
<1>1. PICK S : S = {r.id : r \in R} OBVIOUS
<1>2. PICK f : f = [r \in R |-> r.id] OBVIOUS
<1>3. f \in Surjection(R, S) BY <1>1, <1>2 DEF Surjection
<1>4. IsFiniteSet(S) /\ Cardinality(S) <= Cardinality(R) BY <1>3, FS_Surjection
<1>5. Cardinality(S) \in Nat /\ Cardinality(R) \in Nat BY <1>4, FS_CardinalityType
<1>6. QED BY <1>1, <1>4, <1>5

(* The n-th of at least n rows by descending id: fewer than n lie above    *)
(* it, and no fewer than n at or above it.                                 *)
LEMMA NthNewestFacts ==
    ASSUME NEW R, IsFiniteSet(R), \A r \in R : r.id \in Nat, NEW n \in Nat \ {0},
           Cardinality(R) >= n
    PROVE  /\ NthNewest(R, n) \in {r.id : r \in R}
           /\ Cardinality(Above(R, NthNewest(R, n))) < n
           /\ Cardinality(AtLeast(R, NthNewest(R, n))) >= n
<1>1. PICK ids : ids = {r.id : r \in R} OBVIOUS
<1>2. IsFiniteSet(ids) /\ ids \subseteq Nat /\ ids \subseteq Int
    <2>1. IsFiniteSet(ids) /\ ids \subseteq Nat BY <1>1, IdsOfRows
    <2>2. QED BY <2>1
<1>3. PICK S : S = {i \in ids : Cardinality(AtLeast(R, i)) >= n} OBVIOUS
<1>4. S \subseteq Int /\ IsFiniteSet(S) BY <1>2, <1>3, FS_Subset
<1>5. S # {}
    <2>1. R # {} BY FS_EmptySet
    <2>2. ids # {} BY <1>1, <2>1
    <2>3. PICK m \in ids : \A i \in ids : m <= i BY <1>2, <2>2, MinIdFacts
    <2>4. AtLeast(R, m) = R BY <1>1, <1>2, <2>3 DEF AtLeast
    <2>5. QED BY <1>3, <2>3, <2>4
<1>6. PICK i : i = MaxId(S) OBVIOUS
<1>7. i \in S /\ \A j \in S : j <= i BY <1>4, <1>5, <1>6, MaxIdFacts
<1>8. IsFiniteSet(Above(R, i))
    <2>1. Above(R, i) \in SUBSET R BY DEF Above
    <2>2. QED BY <2>1, FS_Subset
<1>9. Cardinality(Above(R, i)) < n
    <2>1. CASE Above(R, i) = {} BY <2>1, FS_EmptySet
    <2>2. CASE Above(R, i) # {}
        <3>1. PICK T : T = {r.id : r \in Above(R, i)} OBVIOUS
        <3>2. T # {} /\ T \subseteq ids BY <1>1, <2>2, <3>1 DEF Above
        <3>3. T \subseteq Int /\ IsFiniteSet(T) BY <1>2, <3>2, FS_Subset
        <3>4. PICK j \in T : \A k \in T : j <= k BY <3>2, <3>3, MinIdFacts
        <3>5. j > i /\ j \in Nat /\ i \in Nat BY <1>2, <1>3, <1>7, <3>1, <3>2, <3>4 DEF Above
        <3>6. AtLeast(R, j) = Above(R, i)
            <4>1. \A r \in R : r.id >= j => r.id > i BY <3>5
            <4>2. \A r \in R : r.id > i => r.id >= j BY <3>1, <3>4, <3>5 DEF Above
            <4>3. QED BY <4>1, <4>2 DEF AtLeast, Above
        <3>7. j \notin S BY <1>7, <3>5
        <3>8. ~(Cardinality(AtLeast(R, j)) >= n) BY <1>3, <3>2, <3>7
        <3>9. Cardinality(Above(R, i)) \in Nat BY <1>8, FS_CardinalityType
        <3>10. QED BY <3>6, <3>8, <3>9
    <2>3. QED BY <2>1, <2>2
<1>10. PICK c : c = NthNewest(R, n) OBVIOUS
<1>11. \E x \in {r.id : r \in R} : /\ Cardinality(Above(R, x)) < n
                                   /\ Cardinality(AtLeast(R, x)) >= n
    BY <1>1, <1>3, <1>7, <1>9
<1>12. QED BY <1>11 DEF NthNewest

(* So there are at most n ids from the n-th row up.                        *)
LEMMA NewestIds ==
    ASSUME NEW R, IsFiniteSet(R), \A r \in R : r.id \in Nat, NEW n \in Nat, NEW c \in Nat,
           Cardinality(Above(R, c)) < n
    PROVE  Cardinality({i \in {r.id : r \in R} : i >= c}) <= n
<1>1. PICK up : up = Above(R, c) OBVIOUS
<1>2. up \in SUBSET R BY <1>1 DEF Above
<1>3. IsFiniteSet(up) /\ \A r \in up : r.id \in Nat BY <1>2, FS_Subset
<1>4. PICK T : T = {r.id : r \in up} OBVIOUS
<1>5. /\ IsFiniteSet(T) /\ Cardinality(T) <= Cardinality(up)
      /\ Cardinality(T) \in Nat /\ Cardinality(up) \in Nat
    BY <1>3, <1>4, IdsOfRows
<1>6. PICK U : U = {i \in {r.id : r \in R} : i >= c} OBVIOUS
<1>7. U \in SUBSET (T \cup {c})
    <2>1. \A r \in R : r.id >= c => r.id = c \/ r \in up BY <1>1 DEF Above
    <2>2. QED BY <1>4, <1>6, <2>1
<1>8. c \notin T BY <1>1, <1>4 DEF Above
<1>9. IsFiniteSet(T \cup {c}) /\ Cardinality(T \cup {c}) = Cardinality(T) + 1
    BY <1>5, <1>8, FS_AddElement
<1>10. Cardinality(U) <= Cardinality(T \cup {c}) /\ Cardinality(U) \in Nat
    BY <1>7, <1>9, FS_Subset, FS_CardinalityType
<1>11. QED BY <1>1, <1>5, <1>6, <1>9, <1>10

(* The ids of the table.                                                   *)
LEMMA IdsFacts ==
    ASSUME Stored
    PROVE  IsFiniteSet(Ids) /\ Ids \subseteq Nat
<1>1. \A r \in logs : r.id \in Nat BY DEF Stored, Record
<1>2. QED BY <1>1, IdsOfRows DEF Ids, Stored
-----------------------------------------------------------------------------
(* The initial states satisfy it.                                          *)
LEMMA StoreInit == Init => StoreInv
<1> SUFFICES ASSUME Init PROVE StoreInv OBVIOUS
<1>1. Stored
    <2>1. IsFiniteSet({}) BY FS_EmptySet
    <2>2. QED BY <2>1, StoreAssumption DEF Init, Stored
<1>2. Pruning BY DEF Init, Pruning
<1>3. Purging BY DEF Init, Purging, NoPurge, PurgeStates, Targets
<1>4. Looked BY DEF Init, Looked, NoPurge
<1>5. Late
    <2>1. purge.upto = 0 /\ purge.at = "idle" /\ issued = 0 BY DEF Init, NoPurge
    <2>2. QED BY <2>1 DEF Late
<1>6. QED BY <1>1, <1>2, <1>3, <1>4, <1>5 DEF StoreInv

(* What a deletion leaves.                                                 *)
Fewer ==
    /\ logs' \subseteq logs
    /\ lines' \in [Tables -> SUBSET Line]
    /\ \A t \in Tables : lines'[t] \subseteq lines[t]
    /\ UNCHANGED <<driver, issued, written, clock, served>>

(* Deleting rows keeps the tables in order.                                *)
LEMMA FewerStored ==
    ASSUME Stored, Fewer PROVE Stored'
<1>1. IsFiniteSet(logs') BY FS_Subset DEF Stored, Fewer
<1>2. QED BY <1>1 DEF Stored, Fewer, IdOf

(* A purge beside a Prune takes records on both sides of its boundary.     *)
LEMMA FewerKept ==
    ASSUME Stored, Pruning, logs' \subseteq logs, pruner' = pruner PROVE Pruning'
<1>1. Kept' \subseteq Kept BY DEF Kept, Ids
<1>2. IsFiniteSet(Kept)
    <2>1. Kept \subseteq Ids BY DEF Kept
    <2>2. QED BY <2>1, IdsFacts, FS_Subset
<1>3. /\ Cardinality(Kept') <= Cardinality(Kept)
      /\ Cardinality(Kept') \in Nat /\ Cardinality(Kept) \in Nat
    BY <1>1, <1>2, FS_Subset, FS_CardinalityType
<1>4. QED BY <1>3, StoreAssumption DEF Pruning

(* Nor does it bring back what a purge looked up.                          *)
LEMMA FewerLooked ==
    ASSUME Looked, Fewer, purge' = purge PROVE Looked'
BY DEF Looked, Fewer, Tables

(* A purge does not forget whom it serves.                                 *)
LEMMA PurgingKept ==
    ASSUME Purging, served \subseteq served', UNCHANGED <<purge, driver>> PROVE Purging'
BY DEF Purging, Targets, LabelMatches, Witnessed

(* The two counts of records.                                              *)
LEMMA CountsFacts ==
    ASSUME Stored, Purging PROVE issued \in Nat /\ purge.upto \in Nat
<1>1. issued \in Nat BY StoreAssumption DEF Stored
<1>2. purge \in PurgeStates BY DEF Purging
<1>3. purge.upto \in Nat BY <1>2 DEF PurgeStates
<1>4. QED BY <1>1, <1>3

(* Nor which records had been saved when it deleted them.                  *)
LEMMA LateKept ==
    ASSUME Late, issued \in Nat, issued' \in Nat, issued <= issued', UNCHANGED <<purge, driver>>,
           purge.upto \in Nat, \A r \in logs' : r \in logs \/ r.no = issued + 1
    PROVE  Late'
<1>1. \A r \in Targets(logs, purge)' : r \in Targets(logs, purge) \/ r.no = issued + 1
    BY DEF Targets, LabelMatches
<1>2. QED BY <1>1 DEF Late

(* Another statement of a purge counts anew or leaves the count.           *)
LEMMA LateMoved ==
    ASSUME Late, issued \in Nat, issued' = issued, purge'.upto \in {0, purge.upto, issued},
           purge'.at # "commit"
    PROVE  Late'
BY DEF Late

(* The steps of the writer, the collectors and the clock.                  *)
LEMMA StoreSaves ==
    ASSUME StoreInv, driver' = driver,
           \/ Tick
           \/ \E o \in Origins : \E ts \in 0..clock : Save(o, ts)
           \/ \E table \in Tables, trace \in Traces : SaveLines(table, trace)
    PROVE  StoreInv'
<1> USE DEF StoreInv
<1>0. issued \in Nat /\ purge.upto \in Nat BY CountsFacts
<1>1. CASE Tick
    <2>1. Stored' BY <1>1, StoreAssumption DEF Tick, Stored, IdOf
    <2>2. Pruning' BY <1>1, FewerKept DEF Tick
    <2>3. Purging' BY <1>1, PurgingKept DEF Tick
    <2>4. Looked' BY <1>1 DEF Tick, Looked
    <2>5. Late' BY <1>0, <1>1, LateKept DEF Tick
    <2>6. QED BY <2>1, <2>2, <2>3, <2>4, <2>5
<1>2. ASSUME NEW o \in Origins, NEW ts \in 0..clock, Save(o, ts) PROVE StoreInv'
    <2>1. PICK row : row = [no |-> issued + 1, id |-> NextId(ts), ts |-> ts,
                            trace |-> o[1], tenant |-> o[2]]
        OBVIOUS
    <2>2. /\ logs' = logs \cup {row} /\ issued' = issued + 1 /\ pruner.at = "idle"
          /\ served' = served \cup {o} /\ issued < MaxRecords
          /\ UNCHANGED <<lines, written, clock, pruner, purge, purges>>
        BY <1>2, <2>1 DEF Save
    <2>3. issued \in 0..MaxRecords /\ clock \in 1..MaxTime /\ written \in Nat
        BY StoreAssumption DEF Stored
    <2>4. issued' \in 1..MaxRecords /\ ts \in 0..MaxTime /\ ts \in Nat
        BY <2>2, <2>3, StoreAssumption
    <2>5. NextId(ts) \in Nat /\ IdOf(row) /\ IdOf(row)'
        <3>1. IdSeq \in Nat \ {0} /\ ts * IdSeq \in Nat BY <2>4, StoreAssumption
        <3>2. (issued + written + 1) % IdSeq \in 0..IdSeq - 1 BY <1>0, <2>3, <3>1
        <3>3. PICK x, y : x = ts * IdSeq /\ y = (issued + written + 1) % IdSeq OBVIOUS
        <3>4. NextId(ts) = IF driver = "clickhouse" THEN x + y ELSE issued + 1
            BY <3>3 DEF NextId
        <3>5. x \in Nat /\ y \in Nat /\ y < IdSeq BY <3>1, <3>2, <3>3
        <3>6. row.no = issued + 1 /\ row.id = NextId(ts) /\ row.ts * IdSeq = x BY <2>1, <3>3
        <3>7. QED BY <1>0, <3>1, <3>4, <3>5, <3>6 DEF IdOf
    <2>6. o \in Traces \X Tenants /\ o = <<o[1], o[2]>> BY StoreAssumption
    <2>7. row \in Record /\ row.no = issued + 1 /\ <<row.trace, row.tenant>> = o
        BY <2>1, <2>2, <2>4, <2>5, <2>6 DEF Record
    <2>8. IsFiniteSet(logs') BY <2>2, FS_AddElement DEF Stored
    <2>9. \A r \in logs : r.no \in Nat /\ r.no <= issued /\ r.no # row.no
        <3>1. \A r \in logs : r.no \in 1..MaxRecords /\ r.no <= issued BY DEF Stored, Record
        <3>2. QED BY <1>0, <2>7, <3>1, StoreAssumption
    <2>10. \A r \in logs' : r.no <= issued' /\ <<r.trace, r.tenant>> \in served'
        <3>1. \A r \in logs : <<r.trace, r.tenant>> \in served BY DEF Stored
        <3>2. \A r \in logs : r.no <= issued' BY <1>0, <2>2, <2>9
        <3>3. row.no <= issued' BY <1>0, <2>2, <2>7
        <3>4. QED BY <2>2, <2>7, <3>1, <3>2, <3>3
    <2>11. \A r, s \in logs' : r.no = s.no => r = s BY <2>2, <2>9 DEF Stored
    <2>12. \A r \in logs' : IdOf(r)'
        <3>1. \A r \in logs : IdOf(r)' BY DEF IdOf, Stored
        <3>2. QED BY <2>2, <2>5, <3>1
    <2>13. Stored' BY <2>2, <2>4, <2>7, <2>8, <2>10, <2>11, <2>12 DEF Stored
    <2>14. Pruning' BY <2>2 DEF Pruning
    <2>15. Purging' BY <2>2, PurgingKept
    <2>16. Looked' BY <2>2 DEF Looked
    <2>17. Late' BY <1>0, <2>2, <2>7, LateKept
    <2>18. QED BY <2>13, <2>14, <2>15, <2>16, <2>17
<1>3. ASSUME NEW table \in Tables, NEW trace \in Traces, SaveLines(table, trace) PROVE StoreInv'
    <2>1. PICK row : row = [no |-> written + 1, ts |-> clock, trace |-> trace] OBVIOUS
    <2>2. /\ lines' = [lines EXCEPT ![table] = @ \cup {row}] /\ written' = written + 1
          /\ written < MaxLines
          /\ UNCHANGED <<logs, issued, clock, pruner, purge, purges, served>>
        BY <1>3, <2>1 DEF SaveLines
    <2>3. written \in 0..MaxLines /\ clock \in 1..MaxTime BY DEF Stored
    <2>4. written' \in 1..MaxLines /\ written \in Nat BY <2>2, <2>3, StoreAssumption
    <2>5. row \in Line /\ row.no = written + 1 BY <2>1, <2>2, <2>3, <2>4 DEF Line
    <2>6. lines' \in [Tables -> SUBSET Line] BY <2>2, <2>5 DEF Stored
    <2>7. \A t \in Tables : \A c \in lines'[t] : c \in lines[t] \/ c = row BY <2>2 DEF Stored
    <2>8. \A t \in Tables : \A c \in lines[t] \cup purge.seen[t] : c.no \in Nat /\ c.no <= written
        <3>1. \A t \in Tables : lines[t] \cup purge.seen[t] \subseteq Line
            BY DEF Stored, Purging, PurgeStates
        <3>2. \A c \in Line : c.no \in 1..MaxLines BY DEF Line
        <3>3. \A t \in Tables : \A c \in lines[t] \cup purge.seen[t] : c.no <= written
            BY DEF Stored, Looked
        <3>4. QED BY <3>1, <3>2, <3>3, StoreAssumption
    <2>9. Stored'
        <3>1. \A t \in Tables : \A c \in lines'[t] : c.no <= written'
            BY <2>2, <2>4, <2>5, <2>7, <2>8
        <3>2. QED BY <2>2, <2>4, <2>6, <3>1 DEF Stored, IdOf
    <2>10. Pruning' BY <2>2, FewerKept
    <2>11. Purging' BY <2>2, PurgingKept
    <2>12. Looked'
        <3>1. \A t \in Tables : row \notin purge.seen[t] BY <2>4, <2>5, <2>8
        <3>2. \A t \in Tables : purge.seen[t] \cap lines'[t] \subseteq purge.seen[t] \cap lines[t]
            BY <2>7, <3>1
        <3>3. \A t \in Tables : \A c \in purge.seen[t] : c.no <= written' BY <2>2, <2>4, <2>8
        <3>4. QED BY <2>2, <3>2, <3>3 DEF Looked, Tables
    <2>13. Late' BY <1>0, <2>2, LateKept
    <2>14. QED BY <2>9, <2>10, <2>11, <2>12, <2>13
<1>4. QED BY <1>1, <1>2, <1>3

(* The steps of retention.                                                 *)
LEMMA StorePrunes ==
    ASSUME StoreInv, driver' = driver,
           \/ SqlPrune \/ ChPruneCounts \/ ChPruneFindsCutoff \/ ChPruneDeletes
           \/ PruneBefore \/ \E table \in Tables : PruneLinesBefore(table)
    PROVE  StoreInv'
<1> USE DEF StoreInv
<1>1. /\ logs' \subseteq logs
      /\ UNCHANGED <<issued, written, clock, purge, purges, served>>
    BY DEF SqlPrune, ChPruneCounts, ChPruneFindsCutoff, ChPruneDeletes, PruneBefore,
        PruneLinesBefore, AtLeast
<1>2. lines' \in [Tables -> SUBSET Line] /\ \A t \in Tables : lines'[t] \subseteq lines[t]
    <2>1. CASE lines' = lines BY <2>1 DEF Stored
    <2>2. ASSUME NEW table \in Tables, PruneLinesBefore(table)
          PROVE  /\ lines' \in [Tables -> SUBSET Line]
                 /\ \A t \in Tables : lines'[t] \subseteq lines[t]
        BY <2>2 DEF PruneLinesBefore, Stored
    <2>3. QED BY <2>1, <2>2 DEF SqlPrune, ChPruneCounts, ChPruneFindsCutoff, ChPruneDeletes,
            PruneBefore
<1>3. Fewer BY <1>1, <1>2 DEF Fewer
<1>4. Stored' BY <1>3, FewerStored
<1>5. Purging' BY <1>1, PurgingKept
<1>6. Looked' BY <1>1, <1>3, FewerLooked
<1>7. Pruning'
    <2>1. CASE pruner' = pruner BY <1>1, <2>1, FewerKept
    <2>2. CASE pruner' = [at |-> "idle", cutoff |-> 0] BY <2>2 DEF Pruning
    <2>3. CASE ChPruneCounts BY <2>3 DEF ChPruneCounts, Pruning
    <2>4. CASE /\ pruner.at = "counted" /\ logs' = logs /\ Cardinality(logs) >= MaxRows
               /\ pruner' = [at |-> "bounded", cutoff |-> NthNewest(logs, MaxRows)]
        <3>1. MaxRows \in Nat \ {0} BY <2>4, StoreAssumption DEF Pruning
        <3>2. IsFiniteSet(logs) /\ \A r \in logs : r.id \in Nat BY DEF Stored, Record
        <3>3. PICK c : c = NthNewest(logs, MaxRows) OBVIOUS
        <3>4. c \in Ids /\ Cardinality(Above(logs, c)) < MaxRows
            BY <2>4, <3>1, <3>2, <3>3, NthNewestFacts DEF Ids
        <3>5. c \in Nat BY <3>4, IdsFacts
        <3>6. Cardinality({i \in Ids : i >= c}) <= MaxRows
            BY <3>1, <3>2, <3>4, <3>5, NewestIds DEF Ids
        <3>7. Kept' = {i \in Ids : i >= c} BY <2>4, <3>3 DEF Kept, Ids
        <3>8. pruner'.at = "bounded" /\ pruner'.cutoff \in Nat BY <2>4, <3>3, <3>5
        <3>9. QED BY <2>4, <3>1, <3>3, <3>5, <3>6, <3>7, <3>8 DEF Pruning
    <2>5. QED BY <2>1, <2>2, <2>3, <2>4 DEF SqlPrune, ChPruneFindsCutoff, ChPruneDeletes,
            PruneBefore, PruneLinesBefore
<1>8. Late'
    <2>1. issued \in Nat /\ purge.upto \in Nat
        BY CountsFacts
    <2>2. QED BY <1>1, <2>1, LateKept
<1>9. QED BY <1>4, <1>5, <1>6, <1>7, <1>8

(* A record a purge picks leads to its trace.                              *)
LEMMA TargetsWitnessed ==
    ASSUME Stored, NEW R, R \subseteq logs, NEW x \in TargetTraces(R, purge)
    PROVE  x \in Traces /\ Witnessed(x)
<1>1. PICK r \in Targets(R, purge) : x = r.trace /\ x # NoTrace BY DEF TargetTraces
<1>2. r \in logs /\ LabelMatches(r.tenant, purge.tenant) BY <1>1 DEF Targets
<1>3. <<r.trace, r.tenant>> \in served /\ r.trace \in Traces BY <1>2 DEF Stored, Record
<1>4. QED BY <1>1, <1>2, <1>3 DEF Witnessed

(* What is picked is what was named.                                       *)
LEMMA TargetsOfTargets ==
    ASSUME NEW R, NEW p PROVE Targets(Targets(R, p), p) = Targets(R, p)
BY DEF Targets

(* The new purge, and the failed one.                                      *)
LEMMA PurgeStarts ==
    ASSUME StoreInv, driver' = driver,
           \/ \E tenant \in Tenants : \E before \in 0..clock : BeginPurge(tenant, before)
           \/ PurgeFails
    PROVE  StoreInv'
<1> USE DEF StoreInv
<1>1. UNCHANGED <<logs, lines, issued, written, clock, pruner, served>>
    BY DEF BeginPurge, PurgeFails
<1>2. /\ purge'.traces = {} /\ purge'.records = {} /\ purge'.erased = {}
      /\ purge'.doomed = [t \in Tables |-> {}] /\ purge'.seen = [t \in Tables |-> {}]
      /\ purge'.at \in {"begun", "failed"} /\ purge'.upto = 0
    BY DEF BeginPurge, PurgeFails, NoPurge
<1>3. purge' \in PurgeStates
    <2>1. CASE PurgeFails BY <2>1 DEF PurgeFails, NoPurge, PurgeStates
    <2>2. ASSUME NEW tenant \in Tenants, NEW before \in 0..clock, BeginPurge(tenant, before)
          PROVE  purge' \in PurgeStates
        <3>1. clock \in Nat BY StoreAssumption DEF Stored
        <3>2. before \in Nat BY <3>1
        <3>3. QED BY <2>2, <3>2 DEF BeginPurge, NoPurge, PurgeStates
    <2>3. QED BY <2>1, <2>2
<1>4. Stored' BY <1>1 DEF Stored, IdOf
<1>5. Pruning' BY <1>1, FewerKept
<1>6. Purging' BY <1>2, <1>3 DEF Purging, Targets
<1>7. Looked' BY <1>2 DEF Looked, Tables
<1>8. Late'
    <2>1. issued \in Nat BY StoreAssumption DEF Stored
    <2>2. QED BY <1>1, <1>2, <2>1, LateMoved
<1>9. QED BY <1>4, <1>5, <1>6, <1>7, <1>8

(* The rows of a set of traces.                                            *)
LEMMA RowsFacts ==
    ASSUME Stored, NEW t \in Tables, NEW T
    PROVE  /\ RowsOf(t, T) \subseteq lines[t] /\ RowsOf(t, T) \subseteq Line
           /\ \A c \in RowsOf(t, T) : c.trace \in T /\ c.no <= written
BY DEF RowsOf, Stored

(* SQLite's purge is one transaction.                                      *)
LEMMA StoreSqlitePurge ==
    ASSUME StoreInv, driver' = driver, SqlitePurge PROVE StoreInv'
<1> USE DEF StoreInv
<1>0. issued \in Nat BY StoreAssumption DEF Stored
<1>1. PICK T : T = TargetTraces(logs, purge) OBVIOUS
<1>2. PICK gone : gone = Targets(logs, purge) OBVIOUS
<1>3. PICK rows : rows = [t \in Tables |-> RowsOf(t, T)] OBVIOUS
<1>4. /\ driver = "sqlite" /\ logs' = logs \ gone
      /\ lines' = [t \in Tables |-> lines[t] \ RowsOf(t, T)]
      /\ purge' = [purge EXCEPT !.at = "ok", !.traces = T, !.records = gone,
                                !.seen = rows, !.erased = gone, !.upto = issued]
      /\ UNCHANGED <<issued, written, clock, pruner, purges, served>>
    BY <1>1, <1>2, <1>3 DEF SqlitePurge
<1>5. \A x \in T : x \in Traces /\ Witnessed(x) BY <1>1, TargetsWitnessed
<1>6. rows \in [Tables -> SUBSET Line] /\ \A t \in Tables : \A c \in rows[t] : c.no <= written
    BY <1>3, RowsFacts
<1>7. gone \subseteq logs /\ gone \subseteq Record BY <1>2 DEF Targets, Stored
<1>8. /\ purge' \in PurgeStates /\ purge'.at = "ok" /\ purge'.records = gone
      /\ purge'.upto = issued /\ purge'.traces = T /\ purge'.seen = rows /\ purge'.doomed = purge.doomed
      /\ purge'.tenant = purge.tenant /\ purge'.before = purge.before
    BY <1>4, <1>5, <1>6, <1>7, <1>0 DEF Purging, PurgeStates
<1>9. Fewer BY <1>4, <1>7 DEF Fewer, Stored
<1>10. Stored' BY <1>9, FewerStored
<1>11. Pruning' BY <1>4, <1>7, FewerKept
<1>12. Purging'
    <2>1. \A x : Witnessed(x) => Witnessed(x)' BY <1>4, <1>8 DEF Witnessed, LabelMatches
    <2>2. gone \subseteq Targets(gone, purge)' BY <1>2, <1>4, <1>8 DEF Targets, LabelMatches
    <2>3. QED BY <1>5, <1>8, <2>1, <2>2 DEF Purging
<1>13. Looked'
    <2>1. \A t \in Tables : rows[t] \cap lines'[t] = {} BY <1>3, <1>4
    <2>2. QED BY <1>4, <1>6, <1>8, <2>1 DEF Looked
<1>14. Late' BY <1>4, <1>8, <1>0, LateMoved
<1>16. QED BY <1>10, <1>11, <1>12, <1>13, <1>14

(* A statement of Postgres's purge.                                        *)
LEMMA StorePgLines ==
    ASSUME StoreInv, driver' = driver, NEW table \in Tables, NEW at,
           NEW next \in {"spans", "logs"}, at \in {"begun", "spans"},
           PgDeleteLines(table, at, next)
    PROVE  StoreInv'
<1> USE DEF StoreInv
<1>1. PICK T : T = TargetTraces(logs \ purge.records, purge) OBVIOUS
<1>2. PICK rows : rows = RowsOf(table, T) OBVIOUS
<1>3. /\ driver = "postgres" /\ purge.at = at
      /\ purge' = [purge EXCEPT !.at = next, !.doomed[table] = rows, !.seen[table] = rows]
      /\ UNCHANGED <<logs, lines, issued, written, clock, pruner, purges, served>>
    BY <1>1, <1>2 DEF PgDeleteLines
<1>4. \A x \in T : x \in Traces /\ Witnessed(x)
    <2>1. PICK R : R = logs \ purge.records OBVIOUS
    <2>2. R \subseteq logs /\ T = TargetTraces(R, purge) BY <1>1, <2>1
    <2>3. QED BY <2>2, TargetsWitnessed
<1>5. rows \subseteq Line /\ \A c \in rows : c.no <= written /\ c.trace \in T BY <1>2, RowsFacts
<1>6. /\ purge' \in PurgeStates /\ purge'.at = next /\ purge'.records = purge.records
      /\ purge'.traces = purge.traces /\ purge'.erased = purge.erased
      /\ purge'.tenant = purge.tenant /\ purge'.before = purge.before
      /\ purge'.upto = purge.upto
      /\ purge'.seen = [purge.seen EXCEPT ![table] = rows]
      /\ purge'.doomed = [purge.doomed EXCEPT ![table] = rows]
    BY <1>3, <1>5 DEF Purging, PurgeStates
<1>7. /\ purge.seen \in [Tables -> SUBSET Line] /\ purge.doomed \in [Tables -> SUBSET Line]
    BY DEF Purging, PurgeStates
<1>8. Stored' /\ Pruning' BY <1>3, FewerKept DEF Stored, IdOf
<1>9. Purging'
    <2>1. \A x : Witnessed(x) => Witnessed(x)' BY <1>3, <1>6 DEF Witnessed, LabelMatches
    <2>2. \A t \in Tables : \A c \in purge'.doomed[t] : Witnessed(c.trace)
        BY <1>4, <1>5, <1>6, <1>7 DEF Purging
    <2>3. purge'.records \subseteq Targets(purge.records, purge)'
        BY <1>3, <1>6 DEF Purging, Targets, LabelMatches
    <2>4. QED BY <1>6, <2>1, <2>2, <2>3 DEF Purging
<1>10. Looked'
    <2>1. purge.at # "ok" BY <1>3
    <2>2. \A t \in Tables : \A c \in purge'.seen[t] : c.no <= written
        BY <1>5, <1>6, <1>7 DEF Looked
    <2>3. purge'.doomed = purge'.seen BY <1>3, <1>6, <1>7 DEF Looked
    <2>4. QED BY <1>3, <1>6, <2>1, <2>2, <2>3 DEF Looked
<1>11. Late'
    <2>1. issued \in Nat BY StoreAssumption DEF Stored
    <2>2. QED BY <1>3, <1>6, <2>1, LateMoved
<1>12. QED BY <1>8, <1>9, <1>10, <1>11

(* Its records, and its COMMIT.                                            *)
LEMMA StorePgRecords ==
    ASSUME StoreInv, driver' = driver, PgDeleteRecords \/ PgCommit
    PROVE  StoreInv'
<1> USE DEF StoreInv
<1>1. purge \in PurgeStates BY DEF Purging
<1>0. issued \in Nat BY StoreAssumption DEF Stored
<1>2. CASE PgDeleteRecords
    <2>1. PICK gone : gone = Targets(logs, purge) OBVIOUS
    <2>2. /\ driver = "postgres" /\ purge.at = "logs"
          /\ purge' = [purge EXCEPT !.at = "commit", !.upto = issued, !.records = gone]
          /\ UNCHANGED <<logs, lines, issued, written, clock, pruner, purges, served>>
        BY <1>2, <2>1 DEF PgDeleteRecords
    <2>3. gone \subseteq Record BY <2>1 DEF Targets, Stored
    <2>4. /\ purge' \in PurgeStates /\ purge'.at = "commit" /\ purge'.records = gone
          /\ purge'.upto = issued
          /\ purge'.traces = purge.traces /\ purge'.erased = purge.erased
          /\ purge'.tenant = purge.tenant /\ purge'.before = purge.before
          /\ purge'.seen = purge.seen /\ purge'.doomed = purge.doomed
        BY <1>1, <2>2, <2>3, <1>0 DEF PurgeStates
    <2>5. Stored' /\ Pruning' BY <2>2, FewerKept DEF Stored, IdOf
    <2>6. Purging'
        <3>1. \A x : Witnessed(x) => Witnessed(x)' BY <2>2, <2>4 DEF Witnessed, LabelMatches
        <3>2. gone \subseteq Targets(gone, purge)' BY <2>1, <2>2, <2>4 DEF Targets, LabelMatches
        <3>3. QED BY <2>4, <3>1, <3>2 DEF Purging
    <2>7. Looked' BY <2>2, <2>4 DEF Looked
    <2>8. Late'
        <3>1. Targets(logs, purge)' = gone BY <2>1, <2>2, <2>4 DEF Targets, LabelMatches
        <3>2. QED BY <2>2, <2>4, <1>0, <3>1 DEF Late
    <2>10. QED BY <2>5, <2>6, <2>7, <2>8
<1>3. CASE PgCommit
    <2>1. /\ driver = "postgres" /\ purge.at = "commit" /\ logs' = logs \ purge.records
          /\ lines' = [t \in Tables |-> lines[t] \ purge.doomed[t]]
          /\ purge' = [purge EXCEPT !.at = "ok", !.erased = purge.records]
          /\ UNCHANGED <<issued, written, clock, pruner, purges, served>>
        BY <1>3 DEF PgCommit
    <2>2. /\ purge' \in PurgeStates /\ purge'.at = "ok" /\ purge'.records = purge.records
          /\ purge'.traces = purge.traces /\ purge'.erased = purge.records
          /\ purge'.tenant = purge.tenant /\ purge'.before = purge.before
          /\ purge'.seen = purge.seen /\ purge'.doomed = purge.doomed
          /\ purge'.upto = purge.upto
        BY <1>1, <2>1 DEF PurgeStates
    <2>3. Fewer BY <2>1 DEF Fewer, Stored
    <2>4. Stored' BY <2>3, FewerStored
    <2>5. Pruning' BY <2>1, FewerKept
    <2>6. Purging'
        <3>1. \A x : Witnessed(x) => Witnessed(x)' BY <2>1, <2>2 DEF Witnessed, LabelMatches
        <3>2. purge'.records \subseteq Targets(purge.records, purge)'
            BY <2>1, <2>2 DEF Purging, Targets, LabelMatches
        <3>3. QED BY <2>2, <3>1, <3>2 DEF Purging
    <2>7. Looked'
        <3>1. purge.doomed = purge.seen BY <2>1 DEF Looked
        <3>2. \A t \in Tables : purge.seen[t] \cap lines'[t] = {} BY <2>1, <3>1
        <3>3. QED BY <2>1, <2>2, <3>1, <3>2 DEF Looked
    <2>8. Late'
        <3>1. issued \in Nat BY StoreAssumption DEF Stored
        <3>2. QED BY <2>1, <2>2, <3>1, LateMoved
    <2>9. QED BY <2>4, <2>5, <2>6, <2>7, <2>8
<1>4. QED BY <1>2, <1>3

(* ClickHouse looks the traces up first.                                   *)
LEMMA StoreChCollect ==
    ASSUME StoreInv, driver' = driver, ChCollect PROVE StoreInv'
<1> USE DEF StoreInv
<1>0. issued \in Nat BY StoreAssumption DEF Stored
<1>1. purge \in PurgeStates BY DEF Purging
<1>2. PICK T : T = TargetTraces(logs, purge) OBVIOUS
<1>3. PICK rows : rows = [t \in Tables |-> RowsOf(t, T)] OBVIOUS
<1>4. /\ driver = "clickhouse" /\ purge.at = "begun"
      /\ \/ purge' = [purge EXCEPT !.at = "ok", !.upto = issued]
         \/ purge' = [purge EXCEPT !.at = IF T = {} THEN "logs" ELSE "app_logs",
                                   !.traces = T, !.seen = rows]
      /\ UNCHANGED <<logs, lines, issued, written, clock, pruner, purges, served>>
    BY <1>2, <1>3 DEF ChCollect
<1>5. \A x \in T : x \in Traces /\ Witnessed(x) BY <1>2, TargetsWitnessed
<1>6. rows \in [Tables -> SUBSET Line]
    BY <1>3, RowsFacts
<1>7. \A t \in Tables : \A c \in rows[t] : c.no <= written /\ c.trace \in T BY <1>3, RowsFacts
<1>8. /\ purge' \in PurgeStates /\ purge'.records = purge.records
      /\ purge'.tenant = purge.tenant /\ purge'.before = purge.before
      /\ purge'.erased = purge.erased /\ purge'.doomed = purge.doomed
      /\ purge'.upto \in {purge.upto, issued}
      /\ \/ purge'.at = "ok" /\ purge'.traces = purge.traces /\ purge'.seen = purge.seen
         \/ /\ purge'.at \in {"logs", "app_logs"} /\ purge'.traces = T /\ purge'.seen = rows
            /\ purge'.at = "logs" => T = {}
    BY ZenonT(30), <1>1, <1>4, <1>5, <1>6, <1>0 DEF PurgeStates
<1>9. Stored' /\ Pruning' BY <1>4, FewerKept DEF Stored, IdOf
<1>10. Purging'
    <2>1. \A x : Witnessed(x) => Witnessed(x)' BY <1>4, <1>8 DEF Witnessed, LabelMatches
    <2>2. purge'.records \subseteq Targets(purge.records, purge)'
        BY <1>4, <1>8 DEF Purging, Targets, LabelMatches
    <2>3. \A x \in purge'.traces : Witnessed(x) BY <1>5, <1>8 DEF Purging
    <2>4. QED BY <1>8, <2>1, <2>2, <2>3 DEF Purging
<1>11. Looked'
    <2>1. purge.erased = {} BY <1>4 DEF Looked
    <2>2. CASE purge'.at = "ok" /\ purge'.traces = purge.traces /\ purge'.seen = purge.seen
        BY <1>4, <1>8, <2>1, <2>2 DEF Looked
    <2>3. CASE /\ purge'.at \in {"logs", "app_logs"} /\ purge'.traces = T /\ purge'.seen = rows
               /\ purge'.at = "logs" => T = {}
        <3>1. purge'.at = "logs" => rows["app_logs"] = {} /\ rows["spans"] = {}
            BY <1>3, <2>3 DEF RowsOf, Tables
        <3>2. QED BY <1>4, <1>7, <1>8, <2>1, <2>3, <3>1 DEF Looked
    <2>4. QED BY <1>8, <2>2, <2>3
<1>12. Late' BY <1>4, <1>8, <1>0, LateMoved
<1>14. QED BY <1>9, <1>10, <1>11, <1>12

(* It deletes the lines, then the spans.                                   *)
LEMMA StoreChLines ==
    ASSUME StoreInv, driver' = driver, NEW table \in Tables, NEW at, NEW next,
           \/ table = "app_logs" /\ at = "app_logs" /\ next = "spans"
           \/ table = "spans" /\ at = "spans" /\ next = "logs",
           ChDeleteLines(table, at, next)
    PROVE  StoreInv'
<1> USE DEF StoreInv
<1>1. purge \in PurgeStates BY DEF Purging
<1>2. /\ driver = "clickhouse" /\ purge.at = at
      /\ lines' = [lines EXCEPT ![table] = @ \ RowsOf(table, purge.traces)]
      /\ purge' = [purge EXCEPT !.at = next]
      /\ UNCHANGED <<logs, issued, written, clock, pruner, purges, served>>
    BY DEF ChDeleteLines
<1>3. /\ purge' \in PurgeStates /\ purge'.at = next /\ purge'.records = purge.records
      /\ purge'.traces = purge.traces /\ purge'.erased = purge.erased
      /\ purge'.tenant = purge.tenant /\ purge'.before = purge.before
      /\ purge'.seen = purge.seen /\ purge'.doomed = purge.doomed
      /\ purge'.upto = purge.upto
    BY <1>1, <1>2 DEF PurgeStates
<1>4. /\ lines' \in [Tables -> SUBSET Line] /\ \A t \in Tables : lines'[t] \subseteq lines[t]
      /\ lines'[table] = lines[table] \ RowsOf(table, purge.traces)
    BY <1>2 DEF Stored
<1>5. Fewer BY <1>2, <1>4 DEF Fewer
<1>6. Stored' BY <1>5, FewerStored
<1>7. Pruning' BY <1>2, FewerKept
<1>8. Purging'
    <2>1. \A x : Witnessed(x) => Witnessed(x)' BY <1>2, <1>3 DEF Witnessed, LabelMatches
    <2>2. purge'.records \subseteq Targets(purge.records, purge)'
        BY <1>2, <1>3 DEF Purging, Targets, LabelMatches
    <2>3. QED BY <1>3, <2>1, <2>2 DEF Purging
<1>9. Looked'
    <2>1. purge.erased = {} BY <1>2 DEF Looked
    <2>2. purge.seen[table] \cap lines'[table] = {}
        <3>1. \A c \in purge.seen[table] : c.trace \in purge.traces BY <1>2 DEF Looked
        <3>2. QED BY <1>4, <3>1 DEF RowsOf
    <2>3. table = "spans" => purge.seen["app_logs"] \cap lines'["app_logs"] = {}
        BY <1>2, <1>4 DEF Looked, Tables
    <2>4. QED BY <1>2, <1>3, <2>1, <2>2, <2>3 DEF Looked
<1>10. Late'
    <2>1. issued \in Nat BY StoreAssumption DEF Stored
    <2>2. QED BY <1>2, <1>3, <2>1, LateMoved
<1>11. QED BY <1>6, <1>7, <1>8, <1>9, <1>10

(* And the records last.                                                   *)
LEMMA StoreChRecords ==
    ASSUME StoreInv, driver' = driver, ChDeleteRecords PROVE StoreInv'
<1> USE DEF StoreInv
<1>0. issued \in Nat BY StoreAssumption DEF Stored
<1>1. purge \in PurgeStates BY DEF Purging
<1>2. PICK gone : gone = Targets(logs, purge) OBVIOUS
<1>3. /\ driver = "clickhouse" /\ purge.at = "logs" /\ logs' = logs \ gone
      /\ purge' = [purge EXCEPT !.at = "ok", !.records = gone, !.erased = gone,
                                !.upto = issued]
      /\ UNCHANGED <<lines, issued, written, clock, pruner, purges, served>>
    BY <1>2 DEF ChDeleteRecords
<1>4. gone \subseteq Record BY <1>2 DEF Targets, Stored
<1>5. /\ purge' \in PurgeStates /\ purge'.at = "ok" /\ purge'.records = gone
      /\ purge'.upto = issued
      /\ purge'.traces = purge.traces /\ purge'.tenant = purge.tenant
      /\ purge'.before = purge.before
      /\ purge'.seen = purge.seen /\ purge'.doomed = purge.doomed
    BY <1>1, <1>3, <1>4, <1>0 DEF PurgeStates
<1>6. Fewer BY <1>3 DEF Fewer, Stored
<1>7. Stored' BY <1>6, FewerStored
<1>8. Pruning' BY <1>3, FewerKept
<1>9. Purging'
    <2>1. \A x : Witnessed(x) => Witnessed(x)' BY <1>3, <1>5 DEF Witnessed, LabelMatches
    <2>2. gone \subseteq Targets(gone, purge)' BY <1>2, <1>3, <1>5 DEF Targets, LabelMatches
    <2>3. QED BY <1>5, <2>1, <2>2 DEF Purging
<1>10. Looked'
    <2>1. \A t \in Tables : purge.seen[t] \cap lines[t] = {} BY <1>3 DEF Looked, Tables
    <2>2. QED BY <1>3, <1>5, <2>1 DEF Looked
<1>11. Late' BY <1>3, <1>5, <1>0, LateMoved
<1>13. QED BY <1>7, <1>8, <1>9, <1>10, <1>11

(* Every step preserves it.                                                *)
LEMMA StoreStep == StoreInv /\ [Next]_vars => StoreInv'
<1> SUFFICES ASSUME StoreInv, [Next]_vars PROVE StoreInv' OBVIOUS
<1>1. CASE UNCHANGED vars
    <2>1. UNCHANGED <<driver, logs, lines, issued, written, clock, pruner, purge, purges, served>>
        BY <1>1 DEF vars
    <2>2. Stored' /\ Pruning' BY <2>1, FewerKept DEF StoreInv, Stored, IdOf
    <2>3. Purging' BY <2>1, PurgingKept DEF StoreInv
    <2>4. Looked' BY <2>1 DEF StoreInv, Looked
    <2>5. Late' BY <2>1 DEF StoreInv, Late, Targets, LabelMatches
    <2>6. QED BY <2>2, <2>3, <2>4, <2>5 DEF StoreInv
<1>2. CASE Next
    <2>1. driver' = driver /\ Step BY <1>2 DEF Next
    <2>2. CASE PurgeStep
        <3>1. "app_logs" \in Tables /\ "spans" \in Tables BY DEF Tables
        <3>2. QED BY <2>1, <2>2, <3>1, StoreSqlitePurge, StorePgLines, StorePgRecords,
                StoreChCollect, StoreChLines, StoreChRecords DEF PurgeStep
    <2>3. QED BY <2>1, <2>2, StoreSaves, StorePrunes, PurgeStarts DEF Step
<1>3. QED BY <1>1, <1>2

(* It holds throughout.                                                    *)
LEMMA StoreHolds == Spec => []StoreInv
BY StoreInit, StoreStep, PTL DEF Spec
-----------------------------------------------------------------------------
(* A purge removes no record but those it names, and no line or span but   *)
(* those of traces of the tenant it names, as long as no tenant is a case  *)
(* twin in SQLite; and it leaves none of the records it names that were    *)
(* there when its last DELETE ran (Purge of sqlite.go, postgres.go and     *)
(* clickhouse.go).                                                         *)
THEOREM ErasureCorrect == Spec => PurgeExact
<1>1. ASSUME StoreInv, PurgeStep, driver = "sqlite" => NoTwin PROVE ErasesNoOther
    <2>2. \A tenant, trace : /\ <<trace, tenant>> \in served
                             /\ LabelMatches(tenant, purge.tenant)
                             => tenant = purge.tenant
        BY <1>1 DEF NoTwin, LabelMatches
    <2>3. Removed \subseteq Targets(logs, purge)
        <3>1. CASE PgCommit
            <4>1. Removed \subseteq purge.records BY <3>1 DEF PgCommit, Removed
            <4>2. purge.records \subseteq Targets(purge.records, purge)
                BY <1>1 DEF StoreInv, Purging
            <4>3. QED BY <4>1, <4>2 DEF Removed, Targets
        <3>2. CASE ~PgCommit
            BY <1>1, <3>2 DEF PurgeStep, SqlitePurge, PgDeleteLines, PgDeleteRecords, ChCollect,
                ChDeleteLines, ChDeleteRecords, Removed
        <3>3. QED BY <3>1, <3>2
    <2>4. \A r \in Removed : Named(r)
        <3>1. \A r \in Removed : <<r.trace, r.tenant>> \in served
            BY <1>1 DEF StoreInv, Stored, Removed
        <3>2. QED BY <2>2, <2>3, <3>1 DEF Targets, Named
    <2>5. ASSUME NEW t \in Tables, NEW c \in lines[t], c \notin lines'[t] PROVE Witnessed(c.trace)
        <3>1. CASE SqlitePurge
            <4>1. c.trace \in TargetTraces(logs, purge) BY <2>5, <3>1 DEF SqlitePurge, RowsOf
            <4>2. QED BY <1>1, <4>1, TargetsWitnessed DEF StoreInv
        <3>2. CASE PgCommit
            <4>1. c \in purge.doomed[t] BY <2>5, <3>2 DEF PgCommit
            <4>2. QED BY <1>1, <4>1 DEF StoreInv, Purging
        <3>3. ASSUME NEW table \in Tables, NEW at, NEW next, ChDeleteLines(table, at, next)
              PROVE  Witnessed(c.trace)
            <4>1. c.trace \in purge.traces
                BY <1>1, <2>5, <3>3 DEF ChDeleteLines, RowsOf, StoreInv, Stored
            <4>2. QED BY <1>1, <4>1 DEF StoreInv, Purging
        <3>4. CASE UNCHANGED lines BY <2>5, <3>4
        <3>5. "app_logs" \in Tables /\ "spans" \in Tables BY DEF Tables
        <3>6. QED BY <1>1, <3>1, <3>2, <3>3, <3>4, <3>5 DEF PurgeStep, PgDeleteLines,
                PgDeleteRecords, ChCollect, ChDeleteRecords
    <2>6. \A x : Witnessed(x) => x # NoTrace /\ <<x, purge.tenant>> \in served
        BY <2>2 DEF Witnessed
    <2>7. QED BY <2>4, <2>5, <2>6 DEF ErasesNoOther
<1>2. ASSUME StoreInv, PurgeStep, Succeeds PROVE ErasesAll
    <2>1. purge \in PurgeStates BY <1>2 DEF StoreInv, Purging
    <2>2. purge'.at = "ok" BY <1>2 DEF Succeeds
    <2>3. \A r \in logs : Named(r) => r \in Targets(logs, purge)
        BY DEF Named, Targets, LabelMatches
    <2>4. CASE SqlitePurge \/ ChDeleteRecords
        <3>1. logs' = logs \ Targets(logs, purge) BY <2>4 DEF SqlitePurge, ChDeleteRecords
        <3>2. QED BY <2>3, <3>1 DEF ErasesAll
    <2>5. CASE ChCollect
        <3>1. Targets(logs, purge) = {} /\ logs' = logs
            BY <2>1, <2>2, <2>5 DEF ChCollect, PurgeStates
        <3>2. QED BY <2>3, <3>1 DEF ErasesAll
    <2>6. CASE PgCommit
        <3>1. /\ purge.at = "commit" /\ logs' = logs \ purge.records
              /\ purge'.upto = purge.upto
            BY <2>1, <2>6 DEF PgCommit, PurgeStates
        <3>2. \A r \in Targets(logs, purge) \ purge.records : r.no > purge.upto
            BY <1>2, <3>1 DEF StoreInv, Late
        <3>3. QED BY <2>3, <3>1, <3>2 DEF ErasesAll
    <2>7. ASSUME NEW table, NEW at, NEW next \in {"spans", "logs"},
                 ChDeleteLines(table, at, next) \/ PgDeleteLines(table, at, next)
          PROVE  FALSE
        <3>1. purge'.at = next BY <2>1, <2>7 DEF ChDeleteLines, PgDeleteLines, PurgeStates
        <3>2. QED BY <2>2, <2>7, <3>1
    <2>8. ~PgDeleteRecords BY <2>1, <2>2 DEF PgDeleteRecords, PurgeStates
    <2>9. QED BY <1>2, <2>4, <2>5, <2>6, <2>7, <2>8 DEF PurgeStep
<1>3. StoreInv => [PurgeStep => /\ (driver = "sqlite" => NoTwin) => ErasesNoOther
                                /\ Succeeds => ErasesAll]_vars
    BY <1>1, <1>2
<1>4. QED BY <1>3, StoreHolds, PTL DEF PurgeExact

(* A lower id in ClickHouse is not of a later time.                        *)
LEMMA IdsByTime ==
    ASSUME Stored, driver = "clickhouse", NEW r \in logs, NEW s \in logs, r.id < s.id
    PROVE  r.ts <= s.ts
<1>1. r.ts \in Nat /\ s.ts \in Nat /\ r.id \in Nat /\ s.id \in Nat /\ IdSeq \in Nat \ {0}
    BY StoreAssumption DEF Stored, Record
<1>2. r.ts * IdSeq <= r.id /\ s.id < s.ts * IdSeq + IdSeq BY DEF Stored, IdOf
<1>3. ASSUME s.ts < r.ts PROVE FALSE
    <2>1. PICK d \in Nat : r.ts = s.ts + d + 1
        <3>1. r.ts - s.ts - 1 \in Nat /\ r.ts = s.ts + (r.ts - s.ts - 1) + 1 BY <1>1, <1>3
        <3>2. QED BY <3>1
    <2>2. /\ r.ts * IdSeq = s.ts * IdSeq + d * IdSeq + IdSeq
          /\ d * IdSeq \in Nat /\ s.ts * IdSeq \in Nat
        BY <1>1, <2>1
    <2>3. PICK a, b : a = s.ts * IdSeq /\ b = d * IdSeq OBVIOUS
    <2>4. a + b + IdSeq <= r.id /\ s.id < a + IdSeq /\ a \in Nat /\ b \in Nat
        BY <1>2, <2>2, <2>3
    <2>5. QED BY <1>1, <2>4
<1>4. QED BY <1>1, <1>3

(* Row retention leaves at most maxRows ids and removes nothing newer than *)
(* what it leaves, and not too much, though a purge may run between        *)
(* ClickHouse's statements (Prune of sqlite.go, postgres.go and            *)
(* clickhouse.go).                                                         *)
THEOREM RowRetentionCorrect == Spec => PruneKeepsNewest
<1> DEFINE Keeps ==
        /\ SqlPrune \/ ChPruneDeletes => KeepsNewest
        /\ SqlPrune /\ NoGaps => Cardinality(Left) = MaxRows
        /\ ChPruneFindsCutoff /\ pruner'.at = "bounded" =>
               Cardinality(AtLeast(logs, pruner'.cutoff)) >= MaxRows
        /\ ChPruneDeletes => \A r \in Removed : r.id < pruner.cutoff
<1>1. ASSUME StoreInv, SqlPrune
      PROVE  KeepsNewest /\ (NoGaps => Cardinality(Left) = MaxRows)
    <2>1. IsFiniteSet(Ids) /\ Ids \subseteq Nat /\ Ids \subseteq Int BY <1>1, IdsFacts DEF StoreInv
    <2>2. MaxRows \in Nat BY StoreAssumption
    <2>3. PICK m : m = MaxId(Ids) OBVIOUS
    <2>4. Ids # {} BY <1>1 DEF SqlPrune, PrunedIds
    <2>5. m \in Nat /\ m \in Ids /\ \A i \in Ids : i <= m BY <2>1, <2>3, <2>4, MaxIdFacts
    <2>6. logs' = {r \in logs : ~(r.id <= m - MaxRows)}
        BY <1>1, <2>3 DEF SqlPrune, PrunedIds, Ids
    <2>7. \A r \in logs : r.id \in Nat /\ r.id <= m BY <2>1, <2>5 DEF Ids
    <2>8. PICK S : S = (m - MaxRows + 1)..m OBVIOUS
    <2>9. IsFiniteSet(S) /\ Cardinality(S) = MaxRows BY <2>2, <2>5, <2>8, FS_Interval
    <2>10. Left \subseteq S BY <2>2, <2>5, <2>6, <2>7, <2>8 DEF Left
    <2>11. Cardinality(Left) <= MaxRows BY <2>9, <2>10, FS_Subset
    <2>12. \A r \in Removed, s \in logs' : Older(r, s)
        <3>1. driver # "clickhouse" BY <1>1 DEF SqlPrune
        <3>2. \A r \in logs : r.id = r.no BY <1>1, <3>1 DEF StoreInv, Stored, IdOf
        <3>3. \A r \in Removed, s \in logs' : r.id < s.id BY <2>2, <2>5, <2>6, <2>7 DEF Removed
        <3>4. QED BY <2>6, <3>1, <3>2, <3>3 DEF Older, Removed
    <2>13. ASSUME NoGaps PROVE Cardinality(Left) = MaxRows
        <3>1. PICK i \in Ids : i <= m - MaxRows BY <1>1, <2>3 DEF SqlPrune, PrunedIds
        <3>2. i \in Nat BY <2>1, <3>1
        <3>3. \A k \in i..m : k \in Ids BY <2>5, <2>13, <3>1 DEF NoGaps
        <3>4. S \subseteq i..m BY <2>2, <2>5, <2>8, <3>1, <3>2
        <3>5. \A k \in S : k \in Ids /\ ~(k <= m - MaxRows) BY <2>2, <2>5, <2>8, <3>3, <3>4
        <3>6. S \subseteq Left BY <2>6, <3>5 DEF Left, Ids
        <3>7. QED BY <2>9, <2>10, <3>6
    <2>14. QED BY <2>11, <2>12, <2>13 DEF KeepsNewest
<1>2. ASSUME StoreInv, ChPruneDeletes
      PROVE  KeepsNewest /\ \A r \in Removed : r.id < pruner.cutoff
    <2>1. /\ logs' = AtLeast(logs, pruner.cutoff) /\ pruner.at = "bounded"
          /\ driver = "clickhouse"
        BY <1>2 DEF ChPruneDeletes
    <2>2. \A r \in logs : r.id \in Nat BY <1>2 DEF StoreInv, Stored, Record
    <2>3. pruner.cutoff \in Nat /\ Cardinality(Kept) <= MaxRows
        BY <1>2, <2>1 DEF StoreInv, Pruning
    <2>4. Left = Kept BY <2>1 DEF Left, Kept, AtLeast, Ids
    <2>5. \A r \in Removed : r.id < pruner.cutoff BY <2>1, <2>2, <2>3 DEF Removed, AtLeast
    <2>6. ASSUME NEW r \in Removed, NEW s \in logs' PROVE Older(r, s)
        <3>1. r \in logs /\ s \in logs /\ s.id >= pruner.cutoff BY <2>1, <2>6 DEF Removed, AtLeast
        <3>2. r.id < s.id BY <2>2, <2>3, <2>5, <2>6, <3>1
        <3>3. r.ts <= s.ts BY <1>2, <2>1, <3>1, <3>2, IdsByTime DEF StoreInv
        <3>4. QED BY <2>1, <3>3 DEF Older
    <2>7. QED BY <2>3, <2>4, <2>5, <2>6 DEF KeepsNewest
<1>3. ASSUME StoreInv, ChPruneFindsCutoff, pruner'.at = "bounded"
      PROVE  Cardinality(AtLeast(logs, pruner'.cutoff)) >= MaxRows
    <2>1. /\ Cardinality(logs) >= MaxRows /\ pruner'.cutoff = NthNewest(logs, MaxRows)
          /\ pruner.at = "counted"
        BY <1>3 DEF ChPruneFindsCutoff
    <2>2. MaxRows \in Nat \ {0} BY <1>3, <2>1, StoreAssumption DEF StoreInv, Pruning
    <2>3. IsFiniteSet(logs) /\ \A r \in logs : r.id \in Nat BY <1>3 DEF StoreInv, Stored, Record
    <2>4. Cardinality(AtLeast(logs, NthNewest(logs, MaxRows))) >= MaxRows
        BY <2>1, <2>2, <2>3, NthNewestFacts
    <2>5. QED BY <2>1, <2>4
<1>4. StoreInv => [Keeps]_vars BY <1>1, <1>2, <1>3
<1>5. Spec => [][Keeps]_vars BY <1>4, StoreHolds, PTL
<1>6. QED BY <1>5 DEF PruneKeepsNewest

(* A record is never erased ahead of the lines and spans that were stored  *)
(* when the purge looked them up, wherever the purge fails, and erasure in *)
(* SQLite is whole ("the log lines go FIRST", clickhouse.go).              *)
THEOREM ErasureOrderCorrect == Spec => LinesErasedFirst
<1> DEFINE GoneFirst ==
        /\ TypeOK
        /\ \A t \in Tables : \A c \in purge.seen[t] \cap lines[t] :
              \A r \in purge.erased : r.trace # c.trace
<1>1. StoreInv => GoneFirst
    <2> SUFFICES ASSUME StoreInv PROVE GoneFirst OBVIOUS
    <2>1. TypeOK
        BY DEF StoreInv, Stored, IdOf, Purging, PurgeStates, Witnessed, TypeOK
    <2>2. \A t \in Tables : \A c \in purge.seen[t] \cap lines[t] :
              \A r \in purge.erased : r.trace # c.trace
        BY DEF StoreInv, Looked
    <2>3. QED BY <2>1, <2>2
<1>2. ASSUME StoreInv, [Next]_vars, driver = "sqlite", Succeeds PROVE WholeErasure
    <2>1. purge \in PurgeStates BY <1>2 DEF StoreInv, Purging
    <2>2. purge'.at = "ok" /\ purge.at # "ok" BY <1>2 DEF Succeeds
    <2>3. purge' # purge BY <2>2
    <2>4. SqlitePurge \/ PurgeFails \/ \E tenant, before : BeginPurge(tenant, before)
        BY <1>2, <2>3 DEF Next, Step, vars, Tick, Save, SaveLines, SqlPrune, ChPruneCounts,
            ChPruneFindsCutoff, ChPruneDeletes, PruneBefore, PruneLinesBefore, PurgeStep,
            PgDeleteLines, PgDeleteRecords, PgCommit, ChCollect, ChDeleteLines, ChDeleteRecords
    <2>5. SqlitePurge BY <2>2, <2>4 DEF PurgeFails, BeginPurge, NoPurge
    <2>6. purge'.erased = Targets(logs, purge) BY <2>1, <2>5 DEF SqlitePurge, PurgeStates
    <2>7. \A t \in Tables : \A c \in lines'[t] : c.trace \notin TargetTraces(logs, purge)
        BY <2>5 DEF SqlitePurge, RowsOf
    <2>8. QED BY <2>6, <2>7 DEF WholeErasure, TargetTraces
<1>3. StoreInv /\ [Next]_vars => [driver = "sqlite" /\ Succeeds => WholeErasure]_vars BY <1>2
<1>4. Spec => []GoneFirst BY <1>1, StoreHolds, PTL
<1>5. Spec => [][driver = "sqlite" /\ Succeeds => WholeErasure]_vars
    BY <1>3, StoreHolds, PTL DEF Spec
<1>6. QED BY <1>4, <1>5 DEF LinesErasedFirst
-----------------------------------------------------------------------------
(* The writer                                                              *)

(* The worker holds a record exactly while it is at the Save call, it has  *)
(* left only a closed and empty channel, and Close is what closes both.    *)
WorkerState ==
    /\ Len(inHand) = IF worker = "save" THEN 1 ELSE 0
    /\ worker = "exited" => closed /\ queue = <<>>
    /\ closed <=> closer # "open"
    /\ closer = "closed" /\ ~timedOut => worker = "exited"

WriterInv == WriterTypeOK /\ WorkerState /\ InOrder

USE WriterAssumption

(* What the provers need about the three ways a sequence changes here.     *)
LEMMA AppendFacts ==
    ASSUME NEW S, NEW s \in Seq(S), NEW e \in S
    PROVE  Append(s, e) \in Seq(S) /\ Len(Append(s, e)) = Len(s) + 1
OBVIOUS

(* The length of a sequence.                                               *)
LEMMA LenFacts ==
    ASSUME NEW S, NEW s \in Seq(S)
    PROVE  Len(s) \in Nat /\ (Len(s) = 0 <=> s = <<>>)
OBVIOUS

(* The empty sequence.                                                     *)
LEMMA EmptyFacts ==
    ASSUME NEW S
    PROVE  <<>> \in Seq(S) /\ Len(<<>>) = 0
OBVIOUS

(* A sequence of one element.                                              *)
LEMMA SingletonFacts ==
    ASSUME NEW S, NEW e \in S
    PROVE  <<e>> \in Seq(S) /\ Len(<<e>>) = 1
OBVIOUS

(* A record accepted at the end of the channel is accepted at the end of   *)
(* the whole: attempted, in hand, queued.                                  *)
LEMMA AcceptKeepsOrder ==
    ASSUME NEW S, NEW a \in Seq(S), NEW h \in Seq(S), NEW q \in Seq(S), NEW e \in S
    PROVE  a \o h \o Append(q, e) = Append(a \o h \o q, e)
<1>1. <<e>> \in Seq(S) BY SingletonFacts
<1>2. a \o h \in Seq(S) /\ a \o h \o q \in Seq(S) BY ConcatProperties
<1>3. Append(q, e) = q \o <<e>> /\ Append(a \o h \o q, e) = (a \o h \o q) \o <<e>>
    BY <1>2, AppendIsConcat
<1>4. QED BY <1>1, <1>2, <1>3, ConcatAssociative

(* Receiving moves the head of the channel into the worker's empty hand.   *)
LEMMA ReceiveKeepsOrder ==
    ASSUME NEW S, NEW a \in Seq(S), NEW q \in Seq(S), q # <<>>
    PROVE  a \o <<Head(q)>> \o Tail(q) = a \o <<>> \o q
<1>1. /\ Head(q) \in S /\ Tail(q) \in Seq(S)
      /\ q = <<Head(q)>> \o Tail(q)
    <2>1. Len(q) \in Nat \ {0} BY EmptySeq
    <2>2. SubSeq(q, 1, Len(q)) = <<q[1]>> \o SubSeq(q, 1 + 1, Len(q))
        BY <2>1, SubSeqRecursiveFirst
    <2>3. QED BY <2>2, HeadTailProperties, TailIsSubSeq, SubSeqFull
<1>2. <<Head(q)>> \in Seq(S) BY <1>1, SingletonFacts
<1>3. a \o <<>> = a BY ConcatEmptySeq
<1>4. QED BY <1>1, <1>2, <1>3, ConcatAssociative

(* Saving moves the worker's hand to the end of what was attempted.        *)
LEMMA AttemptKeepsOrder ==
    ASSUME NEW S, NEW a \in Seq(S), NEW h \in Seq(S), NEW q \in Seq(S)
    PROVE  (a \o h) \o <<>> \o q = a \o h \o q
<1>1. a \o h \in Seq(S) BY ConcatProperties
<1>2. QED BY <1>1, ConcatEmptySeq

(* The three facts about the variables themselves.                         *)
LEMMA OrderSteps ==
    ASSUME attempted \in Seq(Records), inHand \in Seq(Records), queue \in Seq(Records)
    PROVE  /\ \A r \in Records : attempted \o inHand \o Append(queue, r)
                                  = Append(attempted \o inHand \o queue, r)
           /\ queue # <<>> =>
                attempted \o <<Head(queue)>> \o Tail(queue) = attempted \o <<>> \o queue
           /\ (attempted \o inHand) \o <<>> \o queue = attempted \o inHand \o queue
<1>1. \A r \in Records : attempted \o inHand \o Append(queue, r)
                                  = Append(attempted \o inHand \o queue, r)
    BY AcceptKeepsOrder
<1>2. queue # <<>> =>
          attempted \o <<Head(queue)>> \o Tail(queue) = attempted \o <<>> \o queue
    BY ReceiveKeepsOrder
<1>3. (attempted \o inHand) \o <<>> \o queue = attempted \o inHand \o queue
    BY AttemptKeepsOrder
<1>4. QED BY <1>1, <1>2, <1>3

(* A write-through save adds one record to what the store was given.       *)
LEMMA SaveLengths ==
    ASSUME NEW s \in Seq(Records), NEW t \in Seq(Records), Len(t) = 1
    PROVE  s \o t \in Seq(Records) /\ Len(s \o t) = Len(s) + 1
<1>1. Len(s) \in Nat BY LenProperties
<1>2. QED BY ZenonT(30), <1>1, ConcatProperties

-----------------------------------------------------------------------------
(* The initial states satisfy the strengthening.                           *)
LEMMA WriterInitInv == WriterInit => WriterInv
<1> SUFFICES ASSUME WriterInit PROVE WriterInv
    OBVIOUS
<1>1. WriterTypeOK BY EmptyFacts DEF WriterInit, WriterTypeOK, PruneStages
<1>2. WorkerState BY EmptyFacts DEF WriterInit, WorkerState
<1>3. InOrder BY EmptyFacts DEF WriterInit, InOrder
<1>4. QED BY <1>1, <1>2, <1>3 DEF WriterInv

(* Every step preserves it.                                                *)
LEMMA WriterStepInv == WriterInv /\ [WriterNext]_writerVars => WriterInv'
<1> SUFFICES ASSUME WriterInv, [WriterNext]_writerVars PROVE WriterInv'
    OBVIOUS
<1> USE DEF WriterInv, WriterTypeOK, WorkerState, InOrder
<1>0. /\ Len(queue) \in Nat /\ Len(inHand) \in Nat /\ Len(accepted) \in Nat
      /\ Len(attempted) \in Nat /\ Len(saved) \in Nat
    BY LenFacts
<1>1. ASSUME NEW r \in Records, Enqueue(r) PROVE WriterInv'
    <2>1. CASE closed /\ caller' = [caller EXCEPT ![r] = "panicked"]
               /\ UNCHANGED <<queue, accepted, drops>>
        BY <1>1, <2>1 DEF Enqueue, queueVars, storeVars, closeVars
    <2>2. CASE /\ ~closed
               /\ Len(queue) < QueueSize
               /\ caller' = [caller EXCEPT ![r] = "returned"]
               /\ queue' = Append(queue, r)
               /\ accepted' = Append(accepted, r)
               /\ UNCHANGED drops
        <3>1. UNCHANGED <<closed, worker, inHand, attempted, saved, live, old,
                          closer, timedOut>>
            BY <1>1 DEF Enqueue, storeVars, closeVars
        <3>2. WriterTypeOK'
            BY <2>2, <3>1, AppendFacts
        <3>3. WorkerState'
            BY <2>2, <3>1
        <3>4. InOrder'
            <4>1. Len(queue') <= QueueSize
                BY <1>0, <2>2, AppendFacts
            <4>2. attempted \o inHand \o Append(queue, r)
                    = Append(attempted \o inHand \o queue, r)
                BY OrderSteps
            <4>3. QED BY <2>2, <3>1, <4>1, <4>2
        <3>5. QED BY <3>2, <3>3, <3>4
    <2>3. CASE /\ ~closed
               /\ Len(queue) >= QueueSize
               /\ caller' = [caller EXCEPT ![r] = "returned"]
               /\ drops' = drops + 1
               /\ UNCHANGED <<queue, accepted>>
        <3>1. UNCHANGED <<closed, worker, inHand, attempted, saved, live, old,
                          closer, timedOut>>
            BY <1>1 DEF Enqueue, storeVars, closeVars
        <3>2. WriterTypeOK' BY <2>3, <3>1
        <3>3. WorkerState' BY <2>3, <3>1
        <3>4. InOrder' BY <2>3, <3>1
        <3>5. QED BY <3>2, <3>3, <3>4
    <2>4. QED BY <1>1, <2>1, <2>2, <2>3 DEF Enqueue
<1>2. CASE Receive
    <2>1. /\ worker = "select" /\ queue # <<>> /\ worker' = "save"
          /\ inHand' = <<Head(queue)>> /\ queue' = Tail(queue)
          /\ UNCHANGED <<caller, closed, drops, accepted, attempted, saved, live,
                         old, closer, timedOut>>
        BY <1>2 DEF Receive, storeVars, closeVars
    <2>2. /\ Head(queue) \in Records /\ queue' \in Seq(Records)
          /\ Len(queue') = Len(queue) - 1
        BY <2>1, HeadTailProperties
    <2>3. inHand' \in Seq(Records) /\ Len(inHand') = 1
        BY <2>1, <2>2, SingletonFacts
    <2>4. WriterTypeOK' BY <2>1, <2>2, <2>3
    <2>5. WorkerState' BY <2>1, <2>3
    <2>6. inHand = <<>> BY <2>1, LenFacts
    <2>7. InOrder'
        <3>1. attempted \o <<Head(queue)>> \o Tail(queue) = attempted \o <<>> \o queue
            BY <2>1, OrderSteps
        <3>2. QED BY <1>0, <2>1, <2>2, <2>6, <3>1
    <2>8. QED BY <2>4, <2>5, <2>7
<1>3. CASE ReceiveClosed
    BY <1>3 DEF ReceiveClosed, queueVars, storeVars, closeVars
<1>4. CASE SaveInHand
    <2>1. /\ worker = "save" /\ worker' = "select" /\ inHand' = <<>>
          /\ attempted' = attempted \o inHand
          /\ UNCHANGED <<caller, queue, closed, drops, accepted, old, closer, timedOut>>
        BY <1>4 DEF SaveInHand, queueVars, closeVars
    <2>2. Len(inHand) = 1 BY <2>1
    <2>3. attempted' \in Seq(Records)
        BY <2>1, <2>2, SaveLengths
    <2>4. inHand' \in Seq(Records) /\ Len(inHand') = 0
        BY <2>1, EmptyFacts
    <2>5. saved' \in Seq(Records) /\ live' \in SUBSET (1..Len(saved'))
        <3>1. CASE saved' = saved \o inHand /\ live' = live \cup {Len(saved) + 1}
            <4>1. saved' \in Seq(Records) /\ Len(saved') = Len(saved) + 1
                BY <2>2, <3>1, SaveLengths
            <4>2. 1..Len(saved) \cup {Len(saved) + 1} \subseteq 1..Len(saved')
                BY <1>0, <4>1
            <4>3. QED BY <3>1, <4>1, <4>2
        <3>2. CASE UNCHANGED <<saved, live>>
            BY <3>2
        <3>3. QED BY <1>4, <3>1, <3>2 DEF SaveInHand
    <2>6. WriterTypeOK' BY <2>1, <2>3, <2>4, <2>5
    <2>7. WorkerState' BY <2>1, <2>4
    <2>8. InOrder'
        <3>1. (attempted \o inHand) \o <<>> \o queue = attempted \o inHand \o queue
            BY OrderSteps
        <3>2. QED BY <2>1, <3>1
    <2>9. QED BY <2>6, <2>7, <2>8
<1>5. CASE PruneTick
    BY <1>5 DEF PruneTick, queueVars, storeVars, closeVars, PruneStages
<1>6. CASE PruneOk \/ PruneFails
    <2>1. /\ worker \in PruneStages /\ worker' \in PruneStages \cup {"select"}
          /\ UNCHANGED <<caller, queue, closed, drops, accepted, inHand, attempted,
                         saved, closer, timedOut>>
        BY <1>6 DEF PruneOk, PruneFails, AfterStage, PruneStages, queueVars,
                    storeVars, closeVars
    <2>2. live' \subseteq live /\ old' \subseteq old
        BY <1>6 DEF PruneOk, PruneFails, Delete, storeVars
    <2>3. WriterTypeOK' BY <2>1, <2>2
    <2>4. WorkerState' BY <2>1 DEF PruneStages
    <2>5. InOrder' BY <2>1
    <2>6. QED BY <2>3, <2>4, <2>5
<1>7. CASE Expire
    <2>1. UNCHANGED <<caller, queue, closed, drops, accepted, inHand, attempted,
                      worker, saved, live, closer, timedOut>>
        BY <1>7 DEF Expire, queueVars, closeVars
    <2>2. \A i \in live : saved[i] \in Records
        OBVIOUS
    <2>3. old' \in SUBSET (Records \cup {"app_logs", "spans"})
        BY <1>7, <2>2 DEF Expire
    <2>4. QED BY <2>1, <2>3
<1>8. CASE CloseQueue
    BY <1>8 DEF CloseQueue, storeVars
<1>9. CASE CloseDrained
    BY <1>9 DEF CloseDrained, queueVars, storeVars
<1>10. CASE CloseTimedOut
    BY <1>10 DEF CloseTimedOut, queueVars, storeVars
<1>11. CASE UNCHANGED writerVars
    BY <1>11 DEF writerVars, queueVars, storeVars, closeVars
<1>12. QED
    BY <1>1, <1>2, <1>3, <1>4, <1>5, <1>6, <1>7, <1>8, <1>9, <1>10, <1>11 DEF WriterNext

-----------------------------------------------------------------------------
(* Every reachable state of the writer is well typed (async.go, the fields *)
(* of AsyncWriter and the rows of the logs table).                         *)
THEOREM TypeCorrect == WriterSpec => []WriterTypeOK
<1>1. WriterInv => WriterTypeOK BY DEF WriterInv
<1>2. QED BY WriterInitInv, WriterStepInv, <1>1, PTL DEF WriterSpec

(* The bounded channel and its single worker neither lose, duplicate nor   *)
(* reorder an accepted record (async.go, Enqueue and run).                 *)
THEOREM OrderCorrect == WriterSpec => []InOrder
<1>1. WriterInv => InOrder BY DEF WriterInv
<1>2. QED BY WriterInitInv, WriterStepInv, <1>1, PTL DEF WriterSpec

(* A Close that did not time out has offered every accepted record to the  *)
(* store before closing it (async.go, Close).                              *)
THEOREM DrainCorrect == WriterSpec => []DrainedBeforeClose
<1>1. WriterInv => DrainedBeforeClose
    <2> SUFFICES ASSUME WriterInv, closer = "closed", ~timedOut
                 PROVE  attempted = accepted
        BY DEF DrainedBeforeClose
    <2>1. worker = "exited" /\ queue = <<>> /\ inHand = <<>>
        BY LenFacts DEF WriterInv, WriterTypeOK, WorkerState
    <2>2. attempted \o <<>> \o <<>> = attempted
        BY ConcatEmptySeq DEF WriterInv, WriterTypeOK
    <2>3. QED BY <2>1, <2>2 DEF WriterInv, InOrder
<1>2. QED BY WriterInitInv, WriterStepInv, <1>1, PTL DEF WriterSpec

-----------------------------------------------------------------------------
(* A returned Enqueue adds one record to Returned, and there were finitely *)
(* many of them.                                                           *)
LEMMA ReturnAddsOne ==
    ASSUME WriterTypeOK, IsFiniteSet(Returned), NEW r \in Records, caller[r] = "running",
           caller' = [caller EXCEPT ![r] = "returned"]
    PROVE  IsFiniteSet(Returned') /\ Cardinality(Returned') = Cardinality(Returned) + 1
<1>1. Returned' = Returned \cup {r} /\ r \notin Returned
    BY DEF WriterTypeOK, Returned
<1>2. QED BY <1>1, FS_AddElement

(* A step counts a drop exactly when it returns one.                       *)
LEMMA StepDrops ==
    ASSUME WriterTypeOK, IsFiniteSet(Returned), DropsCounted, [WriterNext]_writerVars
    PROVE  (IsFiniteSet(Returned) /\ DropsCounted)'
<1>0. Len(accepted) \in Nat /\ drops \in Nat BY LenFacts DEF WriterTypeOK
<1>1. ASSUME NEW r \in Records, Enqueue(r)
      PROVE  (IsFiniteSet(Returned) /\ DropsCounted)'
    <2>0. caller[r] = "running" BY <1>1 DEF Enqueue
    <2>1. CASE closed
        <3>1. caller' = [caller EXCEPT ![r] = "panicked"] /\ UNCHANGED <<accepted, drops>>
            BY <1>1, <2>1 DEF Enqueue
        <3>2. Returned' = Returned BY <2>0, <3>1 DEF WriterTypeOK, Returned
        <3>3. QED BY <3>1, <3>2 DEF DropsCounted
    <2>2. CASE ~closed
        <3>1. /\ caller' = [caller EXCEPT ![r] = "returned"]
              /\ \/ accepted' = Append(accepted, r) /\ drops' = drops
                 \/ accepted' = accepted /\ drops' = drops + 1
            BY <1>1, <2>2 DEF Enqueue
        <3>2. /\ IsFiniteSet(Returned')
              /\ Cardinality(Returned') = Cardinality(Returned) + 1
            BY <2>0, <3>1, ReturnAddsOne
        <3>3. Len(accepted') + drops' = Len(accepted) + drops + 1
            BY <1>0, <3>1, AppendFacts DEF WriterTypeOK
        <3>4. QED BY <1>0, <3>2, <3>3 DEF DropsCounted
    <2>3. QED BY <2>1, <2>2
<1>2. CASE UNCHANGED <<caller, accepted, drops>>
    BY <1>2 DEF Returned, DropsCounted
<1>3. QED
    BY <1>1, <1>2 DEF WriterNext, Receive, ReceiveClosed, SaveInHand, PruneTick, PruneOk,
        PruneFails, Expire, CloseQueue, CloseDrained, CloseTimedOut, writerVars, queueVars

(* Every record whose Enqueue returned was accepted or counted as dropped, *)
(* for any number of concurrent request goroutines (async.go, Enqueue).    *)
THEOREM DropsCorrect == WriterSpec => []DropsCounted
<1>1. WriterInit => IsFiniteSet(Returned) /\ DropsCounted
    <2> SUFFICES ASSUME WriterInit PROVE IsFiniteSet(Returned) /\ DropsCounted
        OBVIOUS
    <2>1. Returned = {} BY DEF WriterInit, Returned
    <2>2. IsFiniteSet(Returned) /\ Cardinality(Returned) = 0
        BY <2>1, FS_EmptySet
    <2>3. QED BY <2>2, EmptyFacts DEF WriterInit, DropsCounted
<1>2. QED BY <1>1, TypeCorrect, StepDrops, PTL DEF WriterSpec

-----------------------------------------------------------------------------
(* The largest of the live row ids.                                        *)
LEMMA LiveMax ==
    ASSUME WriterTypeOK
    PROVE  \A i \in PrunedIds(live, MaxRows) : i <= Len(saved) - MaxRows
<1>1. Len(saved) \in Nat /\ live \subseteq 1..Len(saved) BY LenFacts DEF WriterTypeOK
<1>2. IsFiniteSet(live) /\ live \subseteq Int
    <2>1. IsFiniteSet(1..Len(saved)) BY <1>1, FS_Interval
    <2>2. IsFiniteSet(live) BY <1>1, <2>1, FS_Subset
    <2>3. live \subseteq Int BY <1>1
    <2>4. QED BY <2>2, <2>3
<1>3. ASSUME NEW i \in PrunedIds(live, MaxRows) PROVE i <= Len(saved) - MaxRows
    <2>1. i \in live /\ i <= MaxId(live) - MaxRows BY DEF PrunedIds
    <2>2. MaxId(live) \in live BY <1>2, <2>1, MaxIdFacts
    <2>3. i \in 1..Len(saved) /\ MaxId(live) \in 1..Len(saved) BY <1>1, <2>1, <2>2
    <2>4. MaxRows \in Nat BY WriterAssumption
    <2>5. QED BY <1>1, <2>1, <2>3, <2>4
<1>4. QED BY <1>3

(* Retention never deletes under a limit that is not set (the four ifs of  *)
(* the ticker's arm, async.go): the safety half of WorkerDuties.           *)
THEOREM RetentionCorrect == WriterSpec => OnlyConfiguredRetention
<1> DEFINE Configured ==
        /\ \A i \in live \ live' :
              \/ "logs" \in Horizons /\ saved[i] \in old
              \/ MaxRows > 0 /\ i <= Len(saved) - MaxRows
        /\ \A t \in old \ old' : t \in Horizons
<1>1. ASSUME WriterTypeOK, WriterNext PROVE Configured
    <2>1. CASE PruneOk
        <3>1. worker \in PruneStages /\ Delete(worker) BY <2>1 DEF PruneOk
        <3>2. CASE worker = "rows"
            <4>1. /\ live' = IF MaxRows > 0 THEN live \ PrunedIds(live, MaxRows) ELSE live
                  /\ old' = old
                BY <3>1, <3>2 DEF Delete
            <4>2. QED BY <1>1, <4>1, LiveMax
        <3>3. CASE worker = "logs"
            <4>1. /\ live' = IF "logs" \in Horizons
                             THEN {i \in live : saved[i] \notin old} ELSE live
                  /\ old' = old
                BY <3>1, <3>3 DEF Delete
            <4>2. QED BY <4>1
        <3>4. CASE worker \in {"app_logs", "spans"}
            <4>1. /\ old' = IF worker \in Horizons THEN old \ {worker} ELSE old
                  /\ live' = live
                BY <3>1, <3>4 DEF Delete
            <4>2. QED BY <4>1
        <3>5. QED BY <3>1, <3>2, <3>3, <3>4 DEF PruneStages
    <2>2. CASE live \subseteq live' /\ old \subseteq old' BY <2>2
    <2>3. QED BY <1>1, <2>1, <2>2 DEF WriterNext, Enqueue, Receive, ReceiveClosed, SaveInHand,
            PruneTick, PruneFails, Expire, CloseQueue, CloseDrained, CloseTimedOut, storeVars
<1>2. WriterTypeOK /\ [WriterNext]_writerVars => [Configured]_writerVars BY <1>1
<1>3. WriterSpec => [][Configured]_writerVars BY <1>2, TypeCorrect, PTL DEF WriterSpec
<1>4. QED BY <1>3 DEF OnlyConfiguredRetention
=============================================================================
