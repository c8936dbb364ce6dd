--------------------------- MODULE TelemetryStore ---------------------------
(***************************************************************************)
(* The three tables behind ext.Store, ext.AppLogStore and ext.SpanStore,   *)
(* and the operations that change them, for the three bundled drivers.     *)
(*                                                                         *)
(* Records are saved and pruned by the one goroutine of AsyncWriter; log   *)
(* lines and spans arrive from the collector and the ingest handlers; a    *)
(* purge comes from another process (optictrace purge).  What a driver     *)
(* does in one atomic step differs: SQLite holds the write lock for a      *)
(* whole transaction, a Postgres transaction takes a new snapshot for each *)
(* statement and publishes its deletes at COMMIT, ClickHouse has no        *)
(* transaction at all.                                                     *)
(***************************************************************************)
EXTENDS Retention

CONSTANTS
    Drivers,     \* the drivers to check, of "sqlite", "postgres", "clickhouse"
    Tenants,     \* values of the consumer label
    Fold,        \* Fold[v]: the value in lower case, as LIKE compares it
    Traces,      \* trace ids
    NoTrace,     \* the empty trace id of an uncorrelated record or line
    RecordAge,   \* retention_max_age of records, in ticks
    LineAge,     \* retention_max_age of log lines and spans, in ticks
    IdSeq,       \* 2^idSeqBits: the values of ClickHouse's id counter
    Origins,     \* bound: the pairs <<trace, tenant>> that records have
    MaxRecords,  \* bound: records saved
    MaxLines,    \* bound: log lines and spans saved
    MaxPurges,   \* bound: purges attempted
    MaxTime      \* bound: the clock

ASSUME StoreAssumption ==
    /\ Drivers \subseteq {"sqlite", "postgres", "clickhouse"}
    /\ NoTrace \in Traces /\ Origins \subseteq Traces \X Tenants
    /\ {MaxRows, MaxRecords, MaxLines, MaxPurges} \subseteq Nat
    /\ {RecordAge, LineAge, IdSeq, MaxTime} \subseteq Nat \ {0}

VARIABLES
    driver,    \* telemetry.store.driver, chosen at startup
    logs,      \* rows of table logs: [no, id, ts, tenant, trace], saved as the no-th
    lines,     \* lines[t]: rows of tables app_logs and spans: [no, ts, trace]
    issued,    \* number of records saved
    written,   \* number of log lines and spans saved
    clock,
    pruner,    \* ClickHouse's Prune between its statements
    purge,     \* the purge in progress, or the last one
    purges,    \* purges attempted
    served     \* history: <<trace, tenant>> of every record ever saved

vars == <<driver, logs, lines, issued, written, clock, pruner, purge, purges, served>>

Tables == {"app_logs", "spans"}
Ids == {r.id : r \in logs}

NoPurge == [at |-> "idle", tenant |-> "", before |-> 0, traces |-> {},
            doomed |-> [t \in Tables |-> {}], records |-> {}, upto |-> 0,
            seen |-> [t \in Tables |-> {}], erased |-> {}]

Init ==
    /\ driver \in Drivers
    /\ logs = {}
    /\ lines = [t \in Tables |-> {}]
    /\ issued = 0 /\ written = 0
    /\ clock = 1
    /\ pruner = [at |-> "idle", cutoff |-> 0]
    /\ purge = NoPurge
    /\ purges = 0
    /\ served = {}

Tick ==
    /\ clock < MaxTime
    /\ clock' = clock + 1
    /\ UNCHANGED <<logs, lines, issued, written, pruner, purge, purges, served>>
-----------------------------------------------------------------------------
(* The id of the next record.  SQLite and Postgres count the rows of the   *)
(* table; ClickHouse puts the record's own time above a counter that the   *)
(* rows of all three tables draw from and that wraps (nextID).             *)
NextId(ts) == IF driver = "clickhouse" THEN ts * IdSeq + ((issued + written + 1) % IdSeq)
              ELSE issued + 1

(* Save: an ingested record carries its client's time, so ts ascends with  *)
(* neither no nor the clock.  The writer's goroutine saves or prunes,      *)
(* never both.                                                             *)
Save(origin, ts) ==
    /\ issued < MaxRecords
    /\ pruner.at = "idle"
    /\ issued' = issued + 1
    /\ logs' = logs \cup {[no |-> issued + 1, id |-> NextId(ts), ts |-> ts,
                           trace |-> origin[1], tenant |-> origin[2]]}
    /\ served' = served \cup {origin}
    /\ UNCHANGED <<lines, written, clock, pruner, purge, purges>>

(* SaveAppLogs and SaveSpans: one transaction (in ClickHouse one block)    *)
(* for a batch; a row stands for the rows one batch adds to a trace.       *)
SaveLines(table, trace) ==
    /\ written < MaxLines
    /\ written' = written + 1
    /\ lines' = [lines EXCEPT ![table] =
                    @ \cup {[no |-> written + 1, ts |-> clock, trace |-> trace]}]
    /\ UNCHANGED <<logs, issued, clock, pruner, purge, purges, served>>
-----------------------------------------------------------------------------
(* Retention                                                               *)

(* Prune in SQLite and Postgres: one DELETE bounded by the largest id.     *)
SqlPrune ==
    /\ driver # "clickhouse" /\ MaxRows > 0
    /\ PrunedIds(Ids, MaxRows) # {}
    /\ logs' = {r \in logs : r.id \notin PrunedIds(Ids, MaxRows)}
    /\ UNCHANGED <<lines, issued, written, clock, pruner, purge, purges, served>>

Above(R, i) == {r \in R : r.id > i}
AtLeast(R, i) == {r \in R : r.id >= i}

(* The id of the n-th row by descending id: LIMIT 1 OFFSET n - 1.          *)
NthNewest(R, n) ==
    CHOOSE i \in {r.id : r \in R} : /\ Cardinality(Above(R, i)) < n
                                    /\ Cardinality(AtLeast(R, i)) >= n

(* Mutant: OFFSET maxRows.                                                 *)
ChPruneLooksTooFar ==
    /\ driver = "clickhouse" /\ pruner.at = "counted"
    /\ \/ /\ Cardinality(logs) > MaxRows
          /\ pruner' = [at |-> "bounded", cutoff |-> NthNewest(logs, MaxRows + 1)]
       \/ /\ Cardinality(logs) <= MaxRows
          /\ pruner' = [at |-> "idle", cutoff |-> 0]
    /\ UNCHANGED <<logs, lines, issued, written, clock, purge, purges, served>>

(* Prune in ClickHouse: count, find the boundary, delete below it.  With   *)
(* no row at the offset the boundary query fails and Prune returns.        *)
ChPruneCounts ==
    /\ driver = "clickhouse" /\ pruner.at = "idle"
    /\ MaxRows > 0 /\ Cardinality(logs) > MaxRows
    /\ pruner' = [at |-> "counted", cutoff |-> 0]
    /\ UNCHANGED <<logs, lines, issued, written, clock, purge, purges, served>>

ChPruneFindsCutoff ==
    /\ driver = "clickhouse" /\ pruner.at = "counted"
    /\ \/ /\ Cardinality(logs) >= MaxRows
          /\ pruner' = [at |-> "bounded", cutoff |-> NthNewest(logs, MaxRows)]
       \/ /\ Cardinality(logs) < MaxRows
          /\ pruner' = [at |-> "idle", cutoff |-> 0]
    /\ UNCHANGED <<logs, lines, issued, written, clock, purge, purges, served>>

ChPruneDeletes ==
    /\ driver = "clickhouse" /\ pruner.at = "bounded"
    /\ logs' = AtLeast(logs, pruner.cutoff)
    /\ pruner' = [at |-> "idle", cutoff |-> 0]
    /\ UNCHANGED <<lines, issued, written, clock, purge, purges, served>>

(* PruneBefore                                                             *)
PruneBefore ==
    /\ pruner.at = "idle"
    /\ \E r \in logs : r.ts < clock - RecordAge
    /\ logs' = {r \in logs : r.ts >= clock - RecordAge}
    /\ UNCHANGED <<lines, issued, written, clock, pruner, purge, purges, served>>

(* PruneAppLogsBefore, PruneSpansBefore: each table has its own horizon.   *)
PruneLinesBefore(table) ==
    /\ \E c \in lines[table] : c.ts < clock - LineAge
    /\ lines' = [lines EXCEPT ![table] = {c \in @ : c.ts >= clock - LineAge}]
    /\ UNCHANGED <<logs, issued, written, clock, pruner, purge, purges, served>>
-----------------------------------------------------------------------------
(* Purge                                                                   *)

(* SQLite compares the encoded pair with LIKE, the others compare values.  *)
LabelMatches(stored, wanted) ==
    IF driver = "sqlite" THEN Fold[stored] = Fold[wanted] ELSE stored = wanted

(* Mutant: the time bound is not applied.                                  *)
MatchesAnyAge(R, p) == {r \in R : LabelMatches(r.tenant, p.tenant)}

Targets(R, p) ==
    {r \in R : /\ LabelMatches(r.tenant, p.tenant)
               /\ p.before # 0 => r.ts < p.before}

TargetTraces(R, p) == {r.trace : r \in Targets(R, p)} \ {NoTrace}

RowsOf(table, T) == {c \in lines[table] : c.trace \in T}

Running == purge.at \notin {"idle", "ok", "failed"}

(* Purge is called; the zero time means no bound.                          *)
BeginPurge(tenant, before) ==
    /\ ~Running /\ purges < MaxPurges
    /\ purges' = purges + 1
    /\ purge' = [NoPurge EXCEPT !.at = "begun", !.tenant = tenant, !.before = before]
    /\ UNCHANGED <<logs, lines, issued, written, clock, pruner, served>>

(* Any statement may fail: the transaction rolls back; in ClickHouse what  *)
(* the earlier statements deleted stays deleted.                           *)
PurgeFails ==
    /\ Running
    /\ purge' = [NoPurge EXCEPT !.at = "failed"]
    /\ UNCHANGED <<logs, lines, issued, written, clock, pruner, purges, served>>

SqlitePurge ==
    /\ driver = "sqlite" /\ purge.at = "begun"
    /\ LET T == TargetTraces(logs, purge)
           gone == Targets(logs, purge)
       IN  /\ logs' = logs \ gone
           /\ lines' = [t \in Tables |-> lines[t] \ RowsOf(t, T)]
           /\ purge' = [purge EXCEPT !.at = "ok", !.traces = T, !.records = gone,
                                     !.seen = [t \in Tables |-> RowsOf(t, T)],
                                     !.erased = gone, !.upto = issued]
    /\ UNCHANGED <<issued, written, clock, pruner, purges, served>>

(* Postgres: each statement reads what is committed when it starts.        *)
PgDeleteLines(table, at, next) ==
    /\ driver = "postgres" /\ purge.at = at
    /\ LET rows == RowsOf(table, TargetTraces(logs \ purge.records, purge))
       IN  purge' = [purge EXCEPT !.at = next, !.doomed[table] = rows, !.seen[table] = rows]
    /\ UNCHANGED <<logs, lines, issued, written, clock, pruner, purges, served>>

PgDeleteRecords ==
    /\ driver = "postgres" /\ purge.at = "logs"
    /\ purge' = [purge EXCEPT !.at = "commit", !.upto = issued,
                              !.records = Targets(logs, purge)]
    /\ UNCHANGED <<logs, lines, issued, written, clock, pruner, purges, served>>

PgCommit ==
    /\ driver = "postgres" /\ purge.at = "commit"
    /\ logs' = logs \ purge.records
    /\ lines' = [t \in Tables |-> lines[t] \ purge.doomed[t]]
    /\ purge' = [purge EXCEPT !.at = "ok", !.erased = purge.records]
    /\ UNCHANGED <<issued, written, clock, pruner, purges, served>>

(* ClickHouse counts the targets, and with none returns; then collects     *)
(* their trace ids (two reads, taken as one: a record saved in between is  *)
(* as if it had been there or not).                                        *)
ChCollect ==
    /\ driver = "clickhouse" /\ purge.at = "begun"
    /\ LET T == TargetTraces(logs, purge) IN
       purge' = IF Targets(logs, purge) = {} THEN [purge EXCEPT !.at = "ok", !.upto = issued]
                ELSE [purge EXCEPT !.at = IF T = {} THEN "logs" ELSE "app_logs",
                                   !.traces = T,
                                   !.seen = [t \in Tables |-> RowsOf(t, T)]]
    /\ UNCHANGED <<logs, lines, issued, written, clock, pruner, purges, served>>

(* The spans are deleted after the lines, the records last.                *)
ChDeleteLines(table, at, next) ==
    /\ driver = "clickhouse" /\ purge.at = at
    /\ lines' = [lines EXCEPT ![table] = @ \ RowsOf(table, purge.traces)]
    /\ purge' = [purge EXCEPT !.at = next]
    /\ UNCHANGED <<logs, issued, written, clock, pruner, purges, served>>

(* Mutant: the records are deleted as soon as the lines are.               *)
ChRecordsBeforeSpans ==
    /\ driver = "clickhouse" /\ purge.at \in {"spans", "logs"}
    /\ logs' = logs \ Targets(logs, purge)
    /\ purge' = [purge EXCEPT !.at = "ok", !.records = Targets(logs, purge),
                              !.erased = Targets(logs, purge)]
    /\ UNCHANGED <<lines, issued, written, clock, pruner, purges, served>>

ChDeleteRecords ==
    /\ driver = "clickhouse" /\ purge.at = "logs"
    /\ logs' = logs \ Targets(logs, purge)
    /\ purge' = [purge EXCEPT !.at = "ok", !.records = Targets(logs, purge),
                              !.erased = Targets(logs, purge), !.upto = issued]
    /\ UNCHANGED <<lines, issued, written, clock, pruner, purges, served>>
-----------------------------------------------------------------------------
PurgeStep ==
    \/ SqlitePurge
    \/ PgDeleteLines("app_logs", "begun", "spans") \/ PgDeleteLines("spans", "spans", "logs")
    \/ PgDeleteRecords \/ PgCommit
    \/ ChCollect
    \/ ChDeleteLines("app_logs", "app_logs", "spans") \/ ChDeleteLines("spans", "spans", "logs")
    \/ ChDeleteRecords

Step ==
    \/ Tick
    \/ \E o \in Origins : \E ts \in 0..clock : Save(o, ts)
    \/ \E table \in Tables, trace \in Traces : SaveLines(table, trace)
    \/ SqlPrune \/ ChPruneCounts \/ ChPruneFindsCutoff \/ ChPruneDeletes
    \/ PruneBefore \/ \E table \in Tables : PruneLinesBefore(table)
    \/ \E tenant \in Tenants : \E before \in 0..clock : BeginPurge(tenant, before)
    \/ PurgeFails
    \/ PurgeStep

Next == Step /\ UNCHANGED driver

Spec == Init /\ [][Next]_vars
-----------------------------------------------------------------------------
Record == [no : 1..MaxRecords, id : Nat, ts : 0..MaxTime, tenant : Tenants, trace : Traces]
Line == [no : 1..MaxLines, ts : 1..MaxTime, trace : Traces]

TypeOK ==
    /\ driver \in Drivers
    /\ logs \subseteq Record
    /\ \A t \in Tables : lines[t] \subseteq Line
    /\ \A r, s \in logs : r.no = s.no => r = s
    /\ driver # "clickhouse" => \A r \in logs : r.id = r.no
    /\ issued \in 0..MaxRecords /\ written \in 0..MaxLines
    /\ clock \in 1..MaxTime
    /\ purge.traces \subseteq Traces \ {NoTrace}
    /\ purge.erased \subseteq Record

Removed == logs \ logs'
Succeeds == purge'.at = "ok" /\ purge.at # "ok"

(* The records a purge is told to erase.                                   *)
Named(r) == r.tenant = purge.tenant /\ (purge.before # 0 => r.ts < purge.before)

ErasesNoOther ==
    /\ \A r \in Removed : Named(r)
    /\ \A t \in Tables : \A c \in lines[t] \ lines'[t] :
          c.trace # NoTrace /\ <<c.trace, purge.tenant>> \in served

ErasesAll == \A r \in logs' : Named(r) => r.no > purge'.upto

(* No tenant ever served differs from the one to erase in its case only.   *)
NoTwin == \A s \in served : Fold[s[2]] = Fold[purge.tenant] => s[2] = purge.tenant

(* A purge erases the records of the tenant it was given, within the time  *)
(* bound, and no other, and takes only lines and spans of the traces of    *)
(* records of that tenant, never the uncorrelated ones.  SQLite keeps this *)
(* as long as no tenant has a twin: see PurgeLiteral.  When it succeeds,   *)
(* none of the records it names is left that was saved before the          *)
(* statement that deletes the records ran.                                 *)
PurgeExact ==
    [][PurgeStep => /\ (driver = "sqlite" => NoTwin) => ErasesNoOther
                    /\ Succeeds => ErasesAll]_vars

(* SQL ids without gaps: nothing was deleted but the oldest rows.          *)
NoGaps == \A i, j \in Ids : \A k \in i..j : k \in Ids

Left == {r.id : r \in logs'}

(* The order in which retention by rows takes the records.                 *)
Older(r, s) == IF driver = "clickhouse" THEN r.ts <= s.ts ELSE r.no < s.no

(* What a row limit leaves: at most maxRows ids, so as many rows while     *)
(* ClickHouse's counter has not come round within a millisecond; and all   *)
(* that go are older than all that stay.                                   *)
KeepsNewest ==
    /\ Cardinality(Left) <= MaxRows
    /\ \A r \in Removed, s \in logs' : Older(r, s)

(* Row retention keeps the newest maxRows records.  It does not delete too *)
(* much either: SQLite and Postgres leave exactly maxRows while the ids    *)
(* have no gap (with one the boundary MAX(id) - maxRows lies too high,     *)
(* against "Under the cap, nothing should be deleted", conformance.go);    *)
(* ClickHouse, gaps or not, finds a boundary with maxRows records at or    *)
(* above it and deletes none of those.                                     *)
PruneKeepsNewest ==
    [][/\ SqlPrune \/ ChPruneDeletes => KeepsNewest
       /\ SqlPrune /\ NoGaps => Cardinality(Left) = MaxRows
       /\ ChPruneFindsCutoff /\ pruner'.at = "bounded" =>
              Cardinality(AtLeast(logs, pruner'.cutoff)) >= MaxRows
       /\ ChPruneDeletes => \A r \in Removed : r.id < pruner.cutoff]_vars

(* No line or span of a trace that the purge erased.                       *)
WholeErasure ==
    \A t \in Tables : \A c \in lines'[t] : \A r \in purge'.erased :
        r.trace = NoTrace \/ r.trace # c.trace

(* A record is never erased ahead of the lines and spans that were stored  *)
(* when the purge looked them up, wherever the purge fails: a retry still  *)
(* finds what is left ("the log lines go FIRST", clickhouse.go).  In       *)
(* SQLite erasure is whole whatever the writers do meanwhile, because the  *)
(* first DELETE takes the write lock for the transaction.                  *)
LinesErasedFirst ==
    /\ [](/\ TypeOK
          /\ \A t \in Tables : \A c \in purge.seen[t] \cap lines[t] :
                \A r \in purge.erased : r.trace # c.trace)
    /\ [][driver = "sqlite" /\ Succeeds => WholeErasure]_vars
-----------------------------------------------------------------------------
(* A statement of the repository that the code does not keep.              *)

(* ext/store.go: "Match the label value LITERALLY": every record a purge   *)
(* erased was the tenant's.                                                *)
PurgeLiteral == \A r \in purge.erased : r.tenant = purge.tenant
=============================================================================
