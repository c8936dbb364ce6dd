------------------------------- MODULE Config -------------------------------
(***************************************************************************)
(* internal/config: what an optic.yaml document means, which documents     *)
(* Load accepts, and what the later start-up steps still ask of them.      *)
(*                                                                         *)
(* A document is a record with a field per setting.  An optional block is  *)
(* a set with at most one member; a pattern is "ok" when it compiles and   *)
(* "bad" when it does not; an address, URL or origin is "", "bad" or a     *)
(* name; a dotted path is the sequence of its segments, <<>> when it lacks *)
(* the "$." prefix; a duration is Absent, Malformed, "zero", "negative" or *)
(* "positive".                                                             *)
(***************************************************************************)
EXTENDS Integers, Sequences, FiniteSets

CONSTANTS DefaultQueue, DefaultMaxRows, DefaultBuckets, MaxAnalysisRows,
          RegisteredStores,     \* drivers linked in through ext.RegisterStore
          RegisteredExporters   \* exporter types linked in likewise

Absent == "absent"
Malformed == "bad"

Levels == {"trace", "debug", "info", "information", "notice", "warn", "warning",
           "error", "err", "fatal", "critical", "crit", "panic"}

(* The settings a document has, whatever their values: the struct gives    *)
(* each its zero value when the file leaves it out.                        *)
IsDocument(doc) ==
    /\ DOMAIN doc = {"parses", "version", "listen", "upstream", "http2", "adminListen", "cors",
                     "auth", "tls", "store", "exporters", "billing", "metricsOn", "buckets",
                     "spans", "appLogs", "detectors", "rules"}
    /\ DOMAIN doc.store = {"driver", "dsn", "queue", "maxRows", "maxAge", "analysis"}
    /\ \A i \in DOMAIN doc.exporters :
           DOMAIN doc.exporters[i] = {"name", "type", "target", "flush", "queue"}

(* LevelRankKnown(level) >= 0; an empty level_min is never looked up.      *)
LevelOK(level) == level = "" \/ level \in Levels

AllCompile(patterns) == "bad" \notin patterns

(* ParseLabelSource: extract is the set of the number of capture groups of *)
(* the optional regexp, -1 when it does not compile.                       *)
LabelSourceOK(s) ==
    /\ \/ s.kind \in {"header", "query", "static"} /\ s.key # ""
       \/ s.kind \in {"json", "json_response"} /\ s.path # <<>>
       \/ s.kind = "path" /\ s.seg >= 1
    /\ \A g \in s.extract : s.kind # "static" /\ g = 1

NeedsBody(s) == s.kind \in {"json", "json_response"}

(* AdminAuth.Resolve: the environment wins over the literal token.         *)
Token(auth) ==
    IF auth = {} THEN ""
    ELSE LET a == CHOOSE a \in auth : TRUE
         IN  IF a.inEnv THEN a.env ELSE a.token

HealthOpen(auth) == \A a \in auth : a.allowHealth # "no"

AdminReachable(addr) == addr \notin {"loopback", "loopback2"}

(* applyTelemetryDefaults: what an absent or zero setting becomes.         *)
WithDefaults(doc) ==
    [doc EXCEPT
        !.adminListen = IF @ = "" THEN "loopback" ELSE @,
        !.store.driver = IF @ = "" THEN "sqlite" ELSE @,
        !.store.dsn = IF @ = "" /\ doc.store.driver \in {"", "sqlite"} THEN "file" ELSE @,
        !.store.queue = IF @ <= 0 THEN DefaultQueue ELSE @,
        !.store.maxRows = IF @ = 0 THEN DefaultMaxRows ELSE @,
        !.billing = {IF b = "" THEN "tenant" ELSE b : b \in @},
        !.buckets = IF @ = {} THEN DefaultBuckets ELSE @]

(* validateHostPort                                                        *)
HostPortOK(addr) == addr \notin {"", "bad"}

SpansOK(spans) == \A s \in spans : AllCompile(s.patterns) /\ s.maxAttr >= 0 /\ s.minDuration >= 0

AppLogSourceOK(s) ==
    /\ \/ s.type = "stdout" /\ s.path = ""
       \/ s.type = "file" /\ s.path # ""
    /\ s.format \in {"", "json", "text"}
    /\ \A groups \in s.spanPattern : groups = 1

(* Mutant: the patterns are left to applog.New.                            *)
AppLogsLoose(logs) ==
    \A l \in logs :
        /\ \A i \in DOMAIN l.sources : AppLogSourceOK(l.sources[i])
        /\ LevelOK(l.level)
        /\ l.maxLines >= -1 /\ l.maxBytes >= 0 /\ l.maxAge >= 0

AppLogsOK(logs) ==
    \A l \in logs :
        /\ AllCompile(l.patterns)
        /\ \A i \in DOMAIN l.sources : AppLogSourceOK(l.sources[i])
        /\ LevelOK(l.level)
        /\ l.maxLines >= -1 /\ l.maxBytes >= 0 /\ l.maxAge >= 0

RuleLogsOK(logs) ==
    \A l \in logs : LevelOK(l.level) /\ l.maxLines >= 0 /\ AllCompile(l.patterns)

CorsOK(doc) ==
    \A o \in doc.cors : IF o = "*" THEN Token(doc.auth) # "" ELSE o # "bad"

StoreOK(s) ==
    /\ \/ s.driver \in {"sqlite", "none"} \cup RegisteredStores
       \/ s.driver \in {"postgres", "clickhouse"} /\ s.dsn = s.driver
    /\ s.analysis \in 0..MaxAnalysisRows
    /\ s.maxAge # Malformed
    /\ s.maxAge # Absent => s.maxAge \notin {"zero", "negative"}

AuthOK(auth) == \A a \in auth : (a.token # "" \/ a.inEnv) /\ (a.inEnv => a.env # "")

TLSOK(tls) == \A t \in tls : t.cert = "file" /\ t.key = "file"

ExporterOK(e) ==
    /\ e.name # ""
    /\ \/ e.type = "file" /\ e.target # ""
       \/ e.type \in {"webhook", "otlp"} /\ e.target \notin {"", "bad"}
       \/ e.type = "command" /\ e.target # ""
       \/ e.type \in RegisteredExporters
    /\ e.flush # Malformed

DetectorOK(d) == d.kind \notin {"", "two words"} /\ d.severity \in {"critical", "high", "medium"}
                 /\ d.pattern = "ok" /\ d.verify \in {"", "luhn", "iban", "us_ssn", "verhoeff"}

Distinct(seq) == \A i, j \in DOMAIN seq : seq[i] = seq[j] => i = j

NoneTwice(seq, key) == Distinct([i \in DOMAIN seq |-> seq[i][key]])

(* redactedJSONPaths: every path that some rule masks, whatever it matches.*)
RedactedPaths(doc) == UNION {doc.rules[i].redact : i \in DOMAIN doc.rules}

(* The cross-rule check: no body label and no body criterion names a path  *)
(* that a rule masks.  Paths are compared as they are written.             *)
NoOverlap(doc) ==
    \A i \in DOMAIN doc.rules :
        /\ \A s \in doc.rules[i].labels :
               LabelSourceOK(s) /\ NeedsBody(s) => s.path \notin RedactedPaths(doc)
        /\ \A b \in doc.rules[i].body : b.path \notin RedactedPaths(doc)

RuleOK(r) ==
    /\ r.path \notin {"", "relative"}
    /\ r.methods \subseteq {"GET", "POST", "PUT", "PATCH", "DELETE", "HEAD",
                            "OPTIONS", "TRACE", "CONNECT"}
    /\ r.restrict \subseteq {"request_body", "response_body", "headers", "query"}
    /\ <<>> \notin r.redact
    /\ \A s \in r.labels : LabelSourceOK(s)
    /\ \A b \in r.body : b.pattern = "ok" /\ b.path # <<>>
    /\ AllCompile(r.criteria)
    /\ \A p \in r.sample : 0 < p /\ p <= 100
    /\ RuleLogsOK(r.logs)
    /\ <<>> \notin r.meter
    /\ r.slower \in {Absent, "positive"}

Enabled(block) == \E b \in block : b.enabled

(* Validate                                                                *)
Validate(doc) ==
    /\ doc.version = 1
    /\ doc.upstream # "bad"
    /\ doc.listen # "bad"
    /\ HostPortOK(doc.adminListen)
    /\ SpansOK(doc.spans)
    /\ AppLogsOK(doc.appLogs)
    /\ \A i \in DOMAIN doc.rules : doc.rules[i].logs # {} => Enabled(doc.appLogs)
    /\ CorsOK(doc)
    /\ StoreOK(doc.store)
    /\ AuthOK(doc.auth)
    /\ TLSOK(doc.tls)
    /\ \A i \in DOMAIN doc.exporters : ExporterOK(doc.exporters[i])
    /\ NoneTwice(doc.exporters, "name")
    /\ \A i \in DOMAIN doc.detectors : DetectorOK(doc.detectors[i])
    /\ NoneTwice(doc.detectors, "kind")
    /\ NoOverlap(doc)
    /\ \A i \in DOMAIN doc.rules : RuleOK(doc.rules[i])

(* The defaults ExporterCfg.validate leaves in an accepted exporter.       *)
ExporterDefaults(e) ==
    [e EXCEPT !.flush = IF @ = Absent THEN "positive" ELSE @,
              !.queue = IF @ <= 0 THEN 1024 ELSE @]

Accepts(doc) == doc.parses /\ Validate(WithDefaults(doc))

(* Parse: the configuration that an accepted document yields.              *)
Parse(doc) ==
    LET c == WithDefaults(doc)
    IN  [c EXCEPT !.exporters = [i \in DOMAIN @ |-> ExporterDefaults(@[i])]]

(* RestartRequired compares these settings of two configurations.          *)
Compared(c) ==
    [listen |-> c.listen, upstream |-> c.upstream, http2 |-> c.http2,
     adminListen |-> c.adminListen, cors |-> c.cors, auth |-> Token(c.auth),
     tls |-> c.tls, store |-> c.store, exporters |-> c.exporters,
     buckets |-> c.buckets, billing |-> c.billing]

RestartRequired(c, next) ==
    {f \in DOMAIN Compared(c) : Compared(c)[f] # Compared(next)[f]}

(* RequireProxyAddrs; a document with neither address runs as a collector. *)
CollectorOnly(c) == c.listen = "" /\ c.upstream = ""

RequireProxyAddrs(c) == c.listen # "" /\ c.upstream # ""

(***************************************************************************)
(* What the start-up steps after Load refuse on their own account.         *)
(***************************************************************************)
(* applog.New and WithRules compile the patterns again ...                 *)
AppLogPolicyBuilds(c) ==
    /\ Enabled(c.appLogs) => \A l \in c.appLogs : AllCompile(l.patterns)
    /\ \A i \in DOMAIN c.rules : \A l \in c.rules[i].logs : AllCompile(l.patterns)

(* ... as spans.New does.                                                  *)
SpanPolicyBuilds(c) == Enabled(c.spans) => \A s \in c.spans : AllCompile(s.patterns)

(* openStore and export.New look the registered names up again.            *)
StoreKnown(c) ==
    c.store.driver \in {"none", "postgres", "clickhouse", "sqlite"} \cup RegisteredStores

ExportersKnown(c) ==
    \A i \in DOMAIN c.exporters :
        c.exporters[i].type \in {"file", "webhook", "command", "otlp"} \cup RegisteredExporters

(* NewReverseProxy parses the upstream again; scanDetectors drops every    *)
(* detector when one does not build, and engine.New a label, header, query *)
(* or body condition that does not compile.                                *)
ProxyBuilds(c) == c.upstream # "bad"

DetectorsKept(c) == \A i \in DOMAIN c.detectors : DetectorOK(c.detectors[i])

RulesCompileWhole(c) ==
    \A i \in DOMAIN c.rules :
        /\ \A s \in c.rules[i].labels : LabelSourceOK(s)
        /\ AllCompile(c.rules[i].criteria)
        /\ \A b \in c.rules[i].body : b.pattern = "ok"

(* time.NewTicker in the exporter's worker panics on zero or less.         *)
TickerPanics(c) == \E i \in DOMAIN c.exporters : c.exporters[i].flush \in {"zero", "negative"}
=============================================================================
