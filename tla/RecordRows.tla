----------------------------- MODULE RecordRows -----------------------------
(***************************************************************************)
(* The parts of a query that all the drivers write alike.                  *)
(*                                                                         *)
(* A path is a sequence of words and a body or a query string a set of     *)
(* words: a substring search looks for a word.  The names hold neither %   *)
(* nor _, the wildcards of LIKE.                                           *)
(***************************************************************************)
EXTENDS Rows, FiniteSetsExt, SequencesExt

CONSTANTS
    Upper,         \* Upper[m]: the method in upper case
    DefaultLimit,  \* 50, the page size when none is asked for
    MaxLimit       \* 500, the largest page size granted

(* ORDER BY id DESC                                                        *)
NewestFirst(R) == Reverse(Ascending(R))

(* WHERE ts >= since                                                       *)
Since(R, since) == {r \in R : r.ts >= since}

(* LIMIT limit OFFSET offset                                               *)
Slice(s, limit, offset) == SubSeq(s, offset + 1, Min({offset + limit, Len(s)}))

(* The page size both Query and its SQL use.                               *)
PageLimit(limit) == IF limit <= 0 \/ limit > MaxLimit THEN DefaultLimit ELSE limit

(* DefaultAnalysisMaxRows and MaxAnalysisMaxRows.                          *)
AnalysisLimit(limit) == IF limit <= 0 THEN 20000 ELSE Min({limit, 500000})

CarriesLabels(labels, wanted) == \A k \in DOMAIN wanted : Label(labels, k) = wanted[k]

(* The conditions on status, time and trace; 0 and "" ask for nothing.     *)
WithinBounds(f, r) ==
    /\ f.statusMin > 0 => r.rec.status >= f.statusMin
    /\ f.statusMax > 0 => r.rec.status <= f.statusMax
    /\ f.since > 0 => r.ts >= f.since
    /\ f.until > 0 => r.ts <= f.until
    /\ f.trace # "" => r.rec.trace = f.trace

Folded(words) == {Fold[w] : w \in words}
FoldedPath(path) == [i \in DOMAIN path |-> Fold[path[i]]]
-----------------------------------------------------------------------------
(* Latency                                                                 *)

NonStream(G) == {r \in G : ~r.rec.stream}

Durations(G) == {[no |-> r.no, ms |-> r.rec.dur] : r \in G}

(* ORDER BY duration_ms LIMIT 1 OFFSET k over durations D; 0, the value    *)
(* the caller already holds, when there is no such row.                    *)
AtOffset(D, k) ==
    IF k >= Cardinality(D) THEN 0
    ELSE CHOOSE v \in {d.ms : d \in D} :
            /\ Cardinality({d \in D : d.ms < v}) <= k
            /\ Cardinality({d \in D : d.ms <= v}) > k

(* int(q * n), no further than the last; q in hundredths.                  *)
QuantileIndex(n, q) == Min({(q * n) \div 100, n - 1})

Quantiles == {50, 95, 99}
-----------------------------------------------------------------------------
(* Aggregates                                                              *)

(* COUNT of all rows, of 5xx and 4xx rows, SUM(duration_ms) (an average is *)
(* it over count), SUM(req_bytes), SUM(resp_bytes).                        *)
Totals(G) ==
    [count |-> Cardinality(G),
     errors |-> Cardinality({r \in G : r.rec.status >= 500}),
     clientErrors |-> Cardinality({r \in G : r.rec.status \in 400..499}),
     dur |-> MapThenSumSet(LAMBDA r : r.rec.dur, G),
     reqBytes |-> MapThenSumSet(LAMBDA r : r.rec.reqBytes, G),
     respBytes |-> MapThenSumSet(LAMBDA r : r.rec.respBytes, G)]

(* GROUP BY key                                                            *)
GroupsBy(R, key(_)) == {{r \in R : key(r) = k} : k \in {key(r) : r \in R}}

(* ORDER BY count DESC LIMIT n, whatever the order of equals.              *)
Busiest(n, S) == {g \in S : Cardinality({h \in S : h.all.count > g.all.count}) < n}

(* One entry for each route and method.                                    *)
ByRoute(R, p(_, _)) ==
    {[route |-> r.rec.route, method |-> r.rec.method, all |-> Totals(G),
      p |-> [q \in Quantiles |-> p(G, q)]]
        : <<r, G>> \in {<<CHOOSE r \in G : TRUE, G>> :
                          G \in GroupsBy(R, LAMBDA r : <<r.rec.route, r.rec.method>>)}}

(* What Stats answers of a window: the totals, the quantiles, the status   *)
(* classes, the records that kept a body, the bytes, the time series and   *)
(* the ten busiest routes.                                                 *)
Overview(W, bucket, p(_, _), pBucket(_)) ==
    [all |-> Totals(W),
     p |-> [q \in Quantiles |-> p(W, q)],
     classes |-> {[class |-> c, count |-> Cardinality({r \in W : r.rec.status \div 100 = c})]
                    : c \in {r.rec.status \div 100 : r \in W}},
     kept |-> Cardinality({r \in W : r.rec.reqBody # {} \/ r.rec.respBody # {}}),
     series |-> {[at |-> Min({r.ts \div bucket : r \in G}), all |-> Totals(G), p95 |-> pBucket(G)]
                    : G \in GroupsBy(W, LAMBDA r : r.ts \div bucket)},
     top |-> Busiest(10, ByRoute(W, p))]

(* A service that has no name.                                             *)
ServiceName(r) == IF r.rec.service = "" THEN "(unnamed)" ELSE r.rec.service

ByService(R, p95(_)) ==
    {[service |-> ServiceName(CHOOSE r \in G : TRUE), all |-> Totals(G),
      routes |-> Cardinality({r.rec.route : r \in G}),
      sources |-> {r.rec.source : r \in G},
      lastSeen |-> Max({r.ts : r \in G}), p95 |-> p95(G)]
        : G \in GroupsBy(R, ServiceName)}

(* The consumer a record is billed to.                                     *)
Consumer(r, label) ==
    IF Label(r.rec.labels, label) = "" THEN "(unattributed)" ELSE Label(r.rec.labels, label)

Meters(r) == IF r.rec.meters = NoMap THEN {} ELSE DOMAIN r.rec.meters
(* One pass that adds each record to its consumer's entry.                 *)
AddUsage(usage, r, label) ==
    LET c == Consumer(r, label)
        u == IF c \in DOMAIN usage THEN usage[c] ELSE [rows |-> {}, meters |-> <<>>]
        v == [rows |-> u.rows \cup {r},
              meters |-> [m \in DOMAIN u.meters \cup Meters(r) |->
                            (IF m \in DOMAIN u.meters THEN u.meters[m] ELSE 0)
                              + (IF m \in Meters(r) THEN r.rec.meters[m] ELSE 0)]]
    IN  [d \in DOMAIN usage \cup {c} |-> IF d = c THEN v ELSE usage[d]]

UsageEntries(usage) ==
    {[consumer |-> c, all |-> Totals(usage[c].rows), meters |-> usage[c].meters] : c \in DOMAIN usage}
-----------------------------------------------------------------------------
(* Traces                                                                  *)

(* What the hops of one trace add up to; ts is when a hop ended.           *)
Rollup(G) ==
    [trace |-> (CHOOSE r \in G : TRUE).rec.trace,
     hops |-> Cardinality(G),
     services |-> Cardinality({r.rec.service : r \in G}),
     errors |-> Totals(G).errors,
     started |-> Min({r.ts - r.rec.dur : r \in G}),
     ended |-> Max({r.ts : r \in G})]

(* ORDER BY parent_span <> '', ts LIMIT 1: a hop without a parent, or the  *)
(* earliest one; of equals the database takes any.                         *)
Roots(G) ==
    LET tops == {r \in G : r.rec.parent = ""}
        C == IF tops = {} THEN G ELSE tops
    IN  {r \in C : \A s \in C : r.ts <= s.ts}

TraceOf(r) == r.rec.trace
-----------------------------------------------------------------------------
(* Spans                                                                   *)

SpanWithin(f, s) ==
    /\ f.trace # "" => s.span.trace = f.trace
    /\ f.span # "" => s.span.id = f.span
    /\ f.parent # "" => s.span.parent = f.parent
    /\ f.service # "" => s.span.service = f.service
    /\ f.kind # "" => s.span.kind = Fold[f.kind]
    /\ f.minDur > 0 => s.span.dur >= f.minDur
    /\ f.errorsOnly => s.span.error
    /\ f.since > 0 => s.ts >= f.since
    /\ f.until > 0 => s.ts <= f.until

(* ORDER BY ts ASC, id ASC                                                 *)
OldestFirst(S) ==
    SetToSortSeq(S, LAMBDA a, b : \/ a.ts < b.ts
                                  \/ a.ts = b.ts /\ a.id < b.id
                                  \/ a.ts = b.ts /\ a.id = b.id /\ a.no < b.no)

SpanDurations(G) == {[no |-> s.no, ms |-> s.span.dur] : s \in G}

(* Count over requests is the multiplier an N+1 shows as.                  *)
ByName(S, p95(_)) ==
    {[name |-> (CHOOSE s \in G : TRUE).span.name,
      count |-> Cardinality(G),
      requests |-> Cardinality({s.span.parent : s \in G}),
      errors |-> Cardinality({s \in G : s.span.error}),
      total |-> MapThenSumSet(LAMBDA s : s.span.dur, G),
      max |-> Max({s.span.dur : s \in G}),
      p95 |-> p95(G)] : G \in GroupsBy(S, LAMBDA s : s.span.name)}

(* parent_span IN (SELECT span_id FROM logs WHERE route = ? AND ts >= ?)   *)
OnRoute(S, R, since, route) ==
    IF route = "" THEN S
    ELSE {s \in S : \E r \in Since(R, since) : r.rec.route = route /\ r.rec.spanId = s.span.parent}

Named(k) == IF k = "" THEN "unspecified" ELSE k

SpanSummary(S) ==
    [total |-> Cardinality(S),
     errors |-> Cardinality({s \in S : s.span.error}),
     requests |-> Cardinality({s.span.parent : s \in S}),
     byKind |-> {<<Named(k), Cardinality({s \in S : s.span.kind = k})>> : k \in {s.span.kind : s \in S}},
     byService |-> {<<Named(v), Cardinality({s \in S : s.span.service = v})>>
                      : v \in {s.span.service : s \in S}}]
=============================================================================
