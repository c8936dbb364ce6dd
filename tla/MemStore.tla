------------------------------ MODULE MemStore ------------------------------
(***************************************************************************)
(* What the reference driver answers (examples/memstore): its slice recs   *)
(* is a sequence of rows, the newest last.                                 *)
(***************************************************************************)
EXTENDS RecordRows

(* strings.EqualFold, HasPrefix, Contains and ==.                          *)
matches(r, f) ==
    /\ WithinBounds(f, r)
    /\ f.method # "" => Upper[r.rec.method] = Upper[f.method]
    /\ f.prefix # <<>> => IsPrefix(f.prefix, r.rec.path)
    /\ f.search # "" => f.search \in ToSet(r.rec.path) \cup r.rec.reqBody \cup r.rec.respBody
    /\ CarriesLabels(r.rec.labels, f.labels)

Query(recs, f) ==
    LET hits == Reverse(SelectSeq(recs, LAMBDA r : matches(r, f)))
    IN  [page |-> Slice(hits, PageLimit(f.limit), f.offset), total |-> Len(hits)]

since(recs, from) == {r \in ToSet(recs) : r.ts >= from}

(* quantileOf over the durations that are latencies.                       *)
quantileOf(D, q) == IF D = {} THEN 0 ELSE AtOffset(D, QuantileIndex(Cardinality(D), q))
percentile(G, q) == quantileOf(Durations(NonStream(G)), q)

Stats(recs, from, bucket) ==
    Overview(since(recs, from), bucket, percentile, LAMBDA G : percentile(G, 95))

RouteStats(recs, from) == ByRoute(since(recs, from), percentile)

ServiceStats(recs, from) ==
    {[s EXCEPT !.sources = @ \ {""}] :
        s \in ByService(since(recs, from), LAMBDA G : percentile(G, 95))}

(* One increment for each name in MatchedRules.                            *)
RuleMatchCounts(recs, from, rule) ==
    MapThenSumSet(LAMBDA r : Cardinality({i \in DOMAIN r.rec.rules : r.rec.rules[i] = rule}),
                  since(recs, from))

(* The records handed to fn, newest first.                                 *)
RecentFunc(recs, from, limit) ==
    Slice(Reverse(SelectSeq(recs, LAMBDA r : r.ts >= from)), AnalysisLimit(limit), 0)

UsageByLabel(recs, from, label) ==
    UsageEntries(FoldLeft(LAMBDA acc, r : AddUsage(acc, r, label), <<>>,
                          SelectSeq(recs, LAMBDA r : r.ts >= from)))
=============================================================================
