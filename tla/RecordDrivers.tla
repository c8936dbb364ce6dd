--------------------------- MODULE RecordDrivers ---------------------------
(***************************************************************************)
(* The tables of RecordTables, and what the four query implementations     *)
(* answer from the same rows.                                              *)
(***************************************************************************)
EXTENDS RecordRows, RecordTables

CONSTANTS
    Filters, SpanFilters, TraceFilters,  \* the queries to compare
    Buckets, Rules, Routes               \* and their other parameters

Mem == INSTANCE MemStore
Sqlite == INSTANCE SqliteQueries
Postgres == INSTANCE PostgresQueries
ClickHouse == INSTANCE ClickHouseQueries
-----------------------------------------------------------------------------
(* No query string holds the word the filter searches for.                 *)
QuietQuery(f) == \A r \in logs : f.search \notin r.rec.query

SameRecords ==
    LET recs == Ascending(logs) IN
    /\ \A f \in Filters :
          /\ Sqlite!Query(logs, f) = Postgres!Query(logs, f)
          /\ ClickHouse!Query(logs, f) = Mem!Query(recs, f)
          /\ QuietQuery(f) => Sqlite!Query(logs, f) = ClickHouse!Query(logs, f)
    /\ \A t \in Times :
          /\ {Sqlite!UsageByLabel(logs, t, PurgeLabel), Postgres!UsageByLabel(logs, t, PurgeLabel),
              ClickHouse!UsageByLabel(logs, t, PurgeLabel)}
                = {Mem!UsageByLabel(recs, t, PurgeLabel)}
          /\ \A rule \in Rules :
                {Sqlite!RuleMatchCounts(logs, t, rule), Postgres!RuleMatchCounts(logs, t, rule),
                 ClickHouse!RuleMatchCounts(logs, t, rule)}
                   = {Mem!RuleMatchCounts(recs, t, rule)}
          /\ {Sqlite!RecentFunc(logs, t, 2), Postgres!RecentFunc(logs, t, 2),
              ClickHouse!RecentFunc(logs, t, 2)} = {Mem!RecentFunc(recs, t, 2)}

(* The filter keeps all the hops of a trace or none.                       *)
WholeTraces(f) ==
    f.service = "" /\ f.search = "" /\
    \A r, s \in logs : r.rec.trace = s.rec.trace /\ r.rec.trace # "" /\ r.ts >= f.since => s.ts >= f.since

NoP95(B) == {[b EXCEPT !.p95 = 0] : b \in B}

SameTraces ==
    /\ \A f \in TraceFilters :
          /\ Postgres!Traces(logs, f) = ClickHouse!Traces(logs, f)
          /\ WholeTraces(f) => Sqlite!Traces(logs, f) = ClickHouse!Traces(logs, f)
    /\ \A f \in SpanFilters :
          {Sqlite!QuerySpans(spans, f), Postgres!QuerySpans(spans, f)} = {ClickHouse!QuerySpans(spans, f)}
    /\ \A t \in Times, route \in Routes :
          LET B == ClickHouse!SpanBreakdown(spans, logs, t, route) IN
          /\ Sqlite!SpanBreakdown(spans, logs, t, route) = B
          /\ MapThenSumSet(LAMBDA b : b.count, ClickHouse!SpanBreakdown(spans, logs, t, ""))
                = ClickHouse!SpanStats(spans, t).total
          /\ NoP95(Postgres!SpanBreakdown(spans, logs, t, route)) = NoP95(B)


(* The views an operator reads side by side account for the same requests: *)
(* routes, services, consumers, status classes and the time series of a    *)
(* window add up to its totals, errors and bytes, in every driver.         *)
Sum(V, field) == MapThenSumSet(LAMBDA v : v.all[field], V)

Reconciles(stats, routes, services, usage) ==
    /\ \A field \in {"count", "errors"} :
          {Sum(V, field) : V \in {stats.series, stats.top, routes, services, usage}}
            = {stats.all[field]}
    /\ Sum(routes, "reqBytes") + Sum(routes, "respBytes") = stats.all.reqBytes + stats.all.respBytes
    /\ MapThenSumSet(LAMBDA c : c.count, stats.classes) = stats.all.count
    /\ stats.kept <= stats.all.count

ViewsReconcile ==
    LET recs == Ascending(logs) IN
    \A t \in Times, b \in Buckets :
        /\ Reconciles(Mem!Stats(recs, t, b), Mem!RouteStats(recs, t), Mem!ServiceStats(recs, t),
                      Mem!UsageByLabel(recs, t, PurgeLabel))
        /\ Reconciles(Sqlite!Stats(logs, t, b), Sqlite!RouteStats(logs, t),
                      Sqlite!ServiceStats(logs, t), Sqlite!UsageByLabel(logs, t, PurgeLabel))
        /\ Reconciles(Postgres!Stats(logs, t, b), Postgres!RouteStats(logs, t),
                      Postgres!ServiceStats(logs, t), Postgres!UsageByLabel(logs, t, PurgeLabel))
        /\ Reconciles(ClickHouse!Stats(logs, t, b), ClickHouse!RouteStats(logs, t),
                      ClickHouse!ServiceStats(logs, t), ClickHouse!UsageByLabel(logs, t, PurgeLabel))

(* Over a group of requests that holds no stream every driver's percentile *)
(* is an order statistic with at least a fraction q of the group at or     *)
(* below it; Postgres interpolates between it and the one before.          *)
Below(G, v) == Cardinality({r \in G : r.rec.dur <= v})

QuantilesAgree ==
    \A t \in Times, q \in Quantiles :
        \A G \in {Since(logs, t)} \cup GroupsBy(Since(logs, t), LAMBDA r : r.rec.route) :
            G # {} /\ G = NonStream(G) =>
                LET v == Sqlite!percentile(G, q)
                    k == QuantileIndex(Cardinality(G), q)
                IN  /\ 100 * Below(G, v) >= q * Cardinality(G)
                    /\ {Mem!percentile(G, q), ClickHouse!percentile(G, q)} = {v}
                    /\ Postgres!percentile(G, q) <= 100 * v
                    /\ k > 0 => Postgres!percentile(G, q) >= 100 * AtOffset(Durations(G), k - 1)
=============================================================================
