------------------------- MODULE ClickHouseQueries -------------------------
(* What the ClickHouse driver answers from its tables.                     *)
EXTENDS RecordRows

(* chBuildWhere: startsWith and position mind case, and a search leaves    *)
(* the query string out.                                                   *)
Where(f, r) ==
    /\ WithinBounds(f, r)
    /\ f.method # "" => Upper[r.rec.method] = Upper[f.method]
    /\ f.prefix # <<>> => IsPrefix(f.prefix, r.rec.path)
    /\ f.search # "" => f.search \in ToSet(r.rec.path) \cup r.rec.reqBody \cup r.rec.respBody
    /\ CarriesLabels(r.rec.labels, f.labels)

Query(R, f) ==
    LET hits == {r \in R : Where(f, r)}
    IN  [page |-> Slice(NewestFirst(hits), PageLimit(f.limit), f.offset), total |-> Cardinality(hits)]

(* quantileExact: the element at q * size; of no element it is NaN.        *)
NaN == -1
quantileExact(D, q) == IF D = {} THEN NaN ELSE AtOffset(D, QuantileIndex(Cardinality(D), q))

percentile(G, q) == quantileExact(Durations(NonStream(G)), q)
p95(G) == percentile(G, 95)

Stats(R, since, bucket) == Overview(Since(R, since), bucket, percentile, p95)

RouteStats(R, since) == Busiest(200, ByRoute(Since(R, since), percentile))

ServiceStats(R, since) == ByService(Since(R, since), p95)

(* arrayJoin expands each array into a row for each name.                  *)
RuleMatchCounts(R, since, rule) ==
    LET expanded == UNION {{[row |-> r.no, at |-> i, rule |-> r.rec.rules[i]]
                              : i \in DOMAIN r.rec.rules} : r \in Since(R, since)}
    IN  Cardinality({x \in expanded : x.rule = rule})

RecentFunc(R, since, limit) == Slice(NewestFirst(Since(R, since)), AnalysisLimit(limit), 0)

UsageByLabel(R, since, label) ==
    UsageEntries(FoldLeft(LAMBDA acc, r : AddUsage(acc, r, label), <<>>,
                          Ascending(Since(R, since))))

(* argMin over (parent_span != '', ts) among the hops the filter keeps.    *)
Traces(R, f) ==
    LET scoped == {r \in R : /\ r.rec.trace # ""
                             /\ f.since > 0 => r.ts >= f.since
                             /\ f.service # "" => r.rec.service = f.service
                             /\ f.search # "" => f.search \in ToSet(r.rec.path) \cup {r.rec.route}}
    IN  {s \in {[sum |-> Rollup(G), root |-> Roots(G)] : G \in GroupsBy(scoped, TraceOf)} :
           /\ f.errorsOnly => s.sum.errors > 0
           /\ \E r \in s.root : CarriesLabels(r.rec.labels, f.labels)}

chSpanWhere(f, s) == SpanWithin(f, s) /\ (f.search # "" => f.search \in s.span.words)

QuerySpans(S, f) ==
    LET hits == {s \in S : chSpanWhere(f, s)}
    IN  [page |-> Slice(OldestFirst(hits), IF f.limit <= 0 THEN 200 ELSE f.limit, f.offset),
         total |-> Cardinality(hits)]

SpanBreakdown(S, R, since, route) ==
    ByName(OnRoute(Since(S, since), R, since, route),
           LAMBDA G : quantileExact(SpanDurations(G), 95))

SpanStats(S, since) == SpanSummary(Since(S, since))
=============================================================================
