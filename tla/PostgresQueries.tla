-------------------------- MODULE PostgresQueries --------------------------
(***************************************************************************)
(* What the Postgres driver answers from its tables.  Its percentiles are  *)
(* interpolated: they are given here in hundredths of a millisecond.       *)
(***************************************************************************)
EXTENDS RecordRows


(* pgBuildWhere: LIKE minds case, ->> reads a label.                       *)
Where(f, r) ==
    /\ WithinBounds(f, r)
    /\ f.method # "" => r.rec.method = Upper[f.method]
    /\ f.prefix # <<>> => IsPrefix(f.prefix, r.rec.path)
    /\ f.search # "" => f.search \in ToSet(r.rec.path) \cup r.rec.query
                                     \cup r.rec.reqBody \cup r.rec.respBody
    /\ CarriesLabels(r.rec.labels, f.labels)

Query(R, f) ==
    LET hits == {r \in R : Where(f, r)}
    IN  [page |-> Slice(NewestFirst(hits), PageLimit(f.limit), f.offset), total |-> Cardinality(hits)]

(* percentile_cont(q) of the durations D: the point q of the way from the  *)
(* first to the last.                                                      *)
percentile_cont(D, q) ==
    LET x == q * (Cardinality(D) - 1)
        low == AtOffset(D, x \div 100)
        high == AtOffset(D, (x + 99) \div 100)
    IN  IF D = {} THEN 0 ELSE 100 * low + (x % 100) * (high - low)

percentile(G, q) == percentile_cont(Durations(NonStream(G)), q)
p95(G) == percentile(G, 95)

Stats(R, since, bucket) == Overview(Since(R, since), bucket, percentile, p95)

RouteStats(R, since) == Busiest(200, ByRoute(Since(R, since), percentile))

ServiceStats(R, since) == ByService(Since(R, since), p95)

(* matched_rules @> '["name"]': the rows whose array holds the name.       *)
RuleMatchCounts(R, since, rule) ==
    Cardinality({r \in Since(R, since) : rule \in ToSet(r.rec.rules)})

RecentFunc(R, since, limit) == Slice(NewestFirst(Since(R, since)), AnalysisLimit(limit), 0)

(* Mutant: the records without the label are left out.                     *)
UsageOfLabelled(R, since, label) ==
    LET W == {r \in Since(R, since) : Label(r.rec.labels, label) # ""}
    IN  {[consumer |-> c, all |-> Totals({r \in W : Consumer(r, label) = c}), meters |-> <<>>]
            : c \in {Consumer(r, label) : r \in W}}

(* One query groups the records, a second one the meters; a meter is       *)
(* added to the consumer's entry of the first.                             *)
UsageByLabel(R, since, label) ==
    LET W == Since(R, since)
        perMeter == {[consumer |-> c, key |-> m,
                      val |-> MapThenSumSet(LAMBDA r : r.rec.meters[m],
                                 {r \in W : Consumer(r, label) = c /\ m \in Meters(r)})]
                       : <<c, m>> \in UNION {{Consumer(r, label)} \X Meters(r) : r \in W}}
        entry(c) == {x \in perMeter : x.consumer = c}
    IN  {[consumer |-> c, all |-> Totals({r \in W : Consumer(r, label) = c}),
          meters |-> [m \in {x.key : x \in entry(c)} |-> (CHOOSE x \in entry(c) : x.key = m).val]]
            : c \in {Consumer(r, label) : r \in W}}

(* The root hop is taken from the hops the filter keeps.                   *)
Traces(R, f) ==
    LET scoped == {r \in R : /\ r.rec.trace # ""
                             /\ f.since > 0 => r.ts >= f.since
                             /\ f.service # "" => r.rec.service = f.service
                             /\ f.search # "" => f.search \in ToSet(r.rec.path) \cup {r.rec.route}}
    IN  {s \in {[sum |-> Rollup(G), root |-> Roots(G)] : G \in GroupsBy(scoped, TraceOf)} :
           /\ f.errorsOnly => s.sum.errors > 0
           /\ \E r \in s.root : CarriesLabels(r.rec.labels, f.labels)}

pgSpanWhere(f, s) == SpanWithin(f, s) /\ (f.search # "" => f.search \in s.span.words)

QuerySpans(S, f) ==
    LET hits == {s \in S : pgSpanWhere(f, s)}
    IN  [page |-> Slice(OldestFirst(hits), IF f.limit <= 0 THEN 200 ELSE f.limit, f.offset),
         total |-> Cardinality(hits)]

SpanBreakdown(S, R, since, route) ==
    ByName(OnRoute(Since(S, since), R, since, route),
           LAMBDA G : percentile_cont(SpanDurations(G), 95))

SpanStats(S, since) == SpanSummary(Since(S, since))
=============================================================================
