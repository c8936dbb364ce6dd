--------------------------- MODULE SqliteQueries ---------------------------
(* What the SQLite driver answers from its tables.                         *)
EXTENDS RecordRows

(* buildWhere: LIKE ignores case, and a search looks at the query string   *)
(* too.                                                                    *)
Where(f, r) ==
    /\ WithinBounds(f, r)
    /\ f.method # "" => r.rec.method = Upper[f.method]
    /\ f.prefix # <<>> => IsPrefix(FoldedPath(f.prefix), FoldedPath(r.rec.path))
    /\ f.search # "" => Fold[f.search] \in Folded(ToSet(r.rec.path) \cup r.rec.query
                                                  \cup r.rec.reqBody \cup r.rec.respBody)
    /\ CarriesLabels(r.rec.labels, f.labels)

Query(R, f) ==
    LET hits == {r \in R : Where(f, r)}
    IN  [page |-> Slice(NewestFirst(hits), PageLimit(f.limit), f.offset), total |-> Cardinality(hits)]

(* Mutant: the rank reached, counted from one, is used as the offset less one. *)
percentileRank(G, q) ==
    IF G = {} THEN 0
    ELSE AtOffset(Durations(NonStream(G)), Max({0, ((q * Cardinality(G)) \div 100) - 1}))

(* The offset is taken over all the rows, the row from those that are not  *)
(* streams.                                                                *)
percentile(G, q) ==
    IF G = {} THEN 0 ELSE AtOffset(Durations(NonStream(G)), QuantileIndex(Cardinality(G), q))

(* MIN(duration_ms) of the ranks (from 1) that reach 95% of the bucket.    *)
bucketP95(G) ==
    LET n == Cardinality(NonStream(G))
        reach == (95 * n) \div 100
    IN  IF n = 0 THEN 0 ELSE AtOffset(Durations(NonStream(G)), IF reach = 0 THEN 0 ELSE reach - 1)

Stats(R, since, bucket) == Overview(Since(R, since), bucket, percentile, bucketP95)

RouteStats(R, since) == Busiest(200, ByRoute(Since(R, since), percentile))

(* The service's percentile is taken over its streams as well.             *)
ServiceStats(R, since) ==
    ByService(Since(R, since),
              LAMBDA G : AtOffset(Durations(G), QuantileIndex(Cardinality(G), 95)))

(* json_each expands each array into a row for each name.                  *)
RuleMatchCounts(R, since, rule) ==
    Cardinality(UNION {{<<r.no, i>> : i \in {i \in DOMAIN r.rec.rules : r.rec.rules[i] = rule}}
                         : r \in Since(R, since)})

RecentFunc(R, since, limit) == Slice(NewestFirst(Since(R, since)), AnalysisLimit(limit), 0)

UsageByLabel(R, since, label) ==
    UsageEntries(FoldLeft(LAMBDA acc, r : AddUsage(acc, r, label), <<>>,
                          Ascending(Since(R, since))))

(* The hops that make the summary are those the filter keeps; the root hop *)
(* is looked for among all the hops of the trace.                          *)
Traces(R, f) ==
    LET scope == {r \in R : /\ r.rec.trace # ""
                            /\ f.since > 0 => r.ts >= f.since
                            /\ f.service # "" => r.rec.service = f.service
                            /\ f.search # "" => Fold[f.search] \in
                                  Folded(ToSet(r.rec.path) \cup {r.rec.route})}
    IN  {s \in {[sum |-> Rollup(G), root |-> Roots({r \in R : r.rec.trace = Rollup(G).trace})]
                   : G \in GroupsBy(scope, TraceOf)} :
           /\ f.errorsOnly => s.sum.errors > 0
           /\ \E r \in s.root : CarriesLabels(r.rec.labels, f.labels)}

spanWhere(f, s) ==
    SpanWithin(f, s) /\ (f.search # "" => Fold[f.search] \in Folded(s.span.words))

QuerySpans(S, f) ==
    LET hits == {s \in S : spanWhere(f, s)}
    IN  [page |-> Slice(OldestFirst(hits), IF f.limit <= 0 THEN 200 ELSE f.limit, f.offset),
         total |-> Cardinality(hits)]

SpanBreakdown(S, R, since, route) ==
    ByName(OnRoute(Since(S, since), R, since, route),
           LAMBDA G : AtOffset(SpanDurations(G), QuantileIndex(Cardinality(G), 95)))

SpanStats(S, since) == SpanSummary(Since(S, since))
=============================================================================
