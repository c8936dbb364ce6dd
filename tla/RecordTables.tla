---------------------------- MODULE RecordTables ----------------------------
(***************************************************************************)
(* The bundled drivers' tables of records and spans: how ids are given,    *)
(* what retention and erasure leave and what a restart loses.              *)
(*                                                                         *)
(* The steps inside one operation, and the lines and spans a purge takes   *)
(* along, are the subject of TelemetryStore.                               *)
(***************************************************************************)
EXTENDS Rows, Retention

CONSTANTS
    Drivers,      \* drivers to check, of "sqlite", "postgres", "clickhouse"
    Recs,         \* the records to save, without their time
    SpanShapes,   \* the spans to save, without their time
    Times,        \* times of records and spans, positive milliseconds
    idSeq,        \* 1 << idSeqBits, 2^20
    PurgeLabel,   \* the label a purge names
    Values,       \* its values
    MaxSaves,     \* bound: records and spans saved
    MaxRemovals,  \* bound: calls of Prune, PruneBefore and Purge
    MaxRestarts   \* bound: restarts of the process

ASSUME TablesAssumption ==
    /\ Times \subseteq Nat
    /\ idSeq \in Nat \ {0}
    /\ {MaxRows, MaxSaves, MaxRemovals, MaxRestarts} \subseteq Nat

VARIABLES
    driver,    \* the driver the process was started with
    logs,      \* rows of table logs
    spans,     \* rows of table spans
    seq,       \* ClickHouseStore.seq
    records,   \* records saved so far
    saves,     \* records and spans saved so far
    removals, restarts,
    inOrder    \* history: no record or span was older than a row it joined

vars == <<driver, logs, spans, seq, records, saves, removals, restarts, inOrder>>

Init ==
    /\ driver \in Drivers
    /\ logs = {} /\ spans = {}
    /\ seq = 0
    /\ records = 0 /\ saves = 0 /\ removals = 0 /\ restarts = 0
    /\ inOrder = TRUE
-----------------------------------------------------------------------------
(* Saving                                                                  *)

(* UnixMilli << 20 | seq & mask                                            *)
nextID(t) == t * idSeq + ((seq + 1) % idSeq)

(* SQLite and Postgres number the rows of each table.                      *)
NewId(t, no) == IF driver = "clickhouse" THEN nextID(t) ELSE no

Saved(t) ==
    /\ saves < MaxSaves
    /\ saves' = saves + 1
    /\ seq' = IF driver = "clickhouse" THEN seq + 1 ELSE seq
    /\ inOrder' = (inOrder /\ \A r \in logs \cup spans : r.ts <= t)
    /\ UNCHANGED <<driver, removals, restarts>>

(* An ingested record carries its client's time.                           *)
Save(t, d) ==
    /\ Saved(t)
    /\ records' = records + 1
    /\ logs' = logs \cup {[id |-> NewId(t, records + 1), no |-> records + 1, ts |-> t, rec |-> d]}
    /\ UNCHANGED spans

(* In ClickHouse spans draw their ids from the same counter.               *)
SaveSpans(t, s) ==
    LET no == saves - records + 1 IN
    /\ Saved(t)
    /\ spans' = spans \cup {[id |-> NewId(t, no), no |-> no, ts |-> t, span |-> s]}
    /\ UNCHANGED <<logs, records>>

(* Mutant: the counter starts again from zero.                             *)
ReopenFromZero ==
    /\ driver = "clickhouse" /\ restarts < MaxRestarts
    /\ restarts' = restarts + 1
    /\ seq' = 0
    /\ UNCHANGED <<driver, logs, spans, records, saves, removals, inOrder>>

(* NewClickHouse continues from the counter of the largest id in logs.     *)
Reopen ==
    /\ driver = "clickhouse" /\ restarts < MaxRestarts
    /\ restarts' = restarts + 1
    /\ seq' = MaxId({r.id : r \in logs}) % idSeq
    /\ UNCHANGED <<driver, logs, spans, records, saves, removals, inOrder>>
-----------------------------------------------------------------------------
(* Removing                                                                *)

Removes(rows) ==
    /\ removals < MaxRemovals /\ rows # {}
    /\ removals' = removals + 1
    /\ logs' = logs \ rows
    /\ UNCHANGED <<driver, spans, seq, records, saves, restarts, inOrder>>

(* Mutant: the boundary is the id of the oldest row that should stay.      *)
PruneOneMore ==
    LET ids == {r.id : r \in logs}
    IN  MaxRows > 0 /\ Removes({r \in logs : r.id <= MaxId(ids) - MaxRows + 1})

(* SQLite and Postgres cut at the largest id less maxRows, ClickHouse      *)
(* below the id of the maxRows-th newest row.                              *)
Prune ==
    LET byId == Ascending(logs)
        boundary == byId[Len(byId) - MaxRows + 1].id
    IN  \/ /\ driver # "clickhouse" /\ MaxRows > 0
           /\ Removes({r \in logs : r.id \in PrunedIds({s.id : s \in logs}, MaxRows)})
        \/ /\ driver = "clickhouse" /\ MaxRows > 0 /\ Cardinality(logs) > MaxRows
           /\ Removes({r \in logs : r.id < boundary})

PruneBefore(cutoff) == Removes({r \in logs : r.ts < cutoff})

(* SQLite compares the label with LIKE, which ignores the case of ASCII    *)
(* letters, the other two with =.                                          *)
LabelMatches(v, value) == IF driver = "sqlite" THEN Fold[v] = Fold[value] ELSE v = value

Purge(value, before) ==
    Removes({r \in logs : /\ LabelMatches(Label(r.rec.labels, PurgeLabel), value)
                          /\ before # 0 => r.ts < before})
-----------------------------------------------------------------------------
Next ==
    \/ \E t \in Times : \/ \E d \in Recs : Save(t, d)
                        \/ \E s \in SpanShapes : SaveSpans(t, s)
    \/ Reopen
    \/ Prune
    \/ \E cutoff \in Times : PruneBefore(cutoff)
    \/ \E value \in Values, before \in Times \cup {0} : Purge(value, before)

Spec == Init /\ [][Next]_vars
-----------------------------------------------------------------------------
(* The list a driver keeps: its rows in the order it lists them.           *)
Listing == LET byId == Ascending(logs)
           IN  [i \in DOMAIN byId |-> [ts |-> byId[i].ts, rec |-> byId[i].rec]]

Promised == INSTANCE LogStore WITH
    recs <- Listing,
    Tag <- [d \in Recs |-> Label(d.labels, PurgeLabel)],
    RowLimits <- {MaxRows}

(* ClickHouse's ids follow the order of saving, until its counter wraps,   *)
(* and across a restart only while times do not go back.                   *)
Ordered == driver = "clickhouse" => saves < idSeq /\ (restarts = 0 \/ inOrder)

(* No id of SQLite or Postgres between two rows is missing.                *)
NoGaps ==
    driver # "clickhouse" =>
        \A r, s \in logs : \A i \in r.id..s.id : \E q \in logs : q.id = i

(* No label that SQLite would erase differs from the value only in case.   *)
NoTwin(value) ==
    driver = "sqlite" =>
        \A r \in logs : LabelMatches(Label(r.rec.labels, PurgeLabel), value)
                            => Label(r.rec.labels, PurgeLabel) = value

(* Every driver keeps the list that ext.Store promises, whatever           *)
(* retention, erasure and restarts do to its ids: a step is one of the     *)
(* list's operations, or leaves the list alone ("Under the cap, nothing    *)
(* should be deleted", conformance.go; "Match the label value LITERALLY",  *)
(* ext/store.go).  Required while the ids are Ordered; of row retention    *)
(* when the ids have no gaps, and of an erasure when no label differs from *)
(* the named one only in case.                                             *)
ImplementsLogStore ==
    /\ Promised!Init
    /\ [][/\ Ordered'
          /\ Prune => NoGaps
          /\ \A v \in Values, t \in Times \cup {0} : Purge(v, t) => NoTwin(v)
          => Promised!Next]_Listing

(* ClickHouse's ids are given in the order of saving, and none twice,      *)
(* across restarts too, while times do not go back and the counter does    *)
(* not wrap ("Continue after whatever is already stored so IDs stay unique *)
(* across restarts even inside the same millisecond").                     *)
IdsAscend ==
    inOrder /\ saves < idSeq =>
        \A r, s \in logs : r.no < s.no => r.id < s.id
=============================================================================
