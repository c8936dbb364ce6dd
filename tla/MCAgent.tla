------------------------------ MODULE MCAgent -------------------------------
(* One document that every check of Validate accepts, and its variants: for*)
(* each check, a document that differs from it in what the check looks at. *)
EXTENDS Agent

NoRule == [path |-> "/", methods |-> {"GET"}, restrict |-> {}, redact |-> {}, labels |-> {},
           body |-> {}, criteria |-> {}, sample |-> {}, logs |-> {}, meter |-> {}, slower |-> Absent]
Source == [name |-> "tenant", kind |-> "header", key |-> "X", path |-> <<>>, seg |-> 0, extract |-> {}]
JSONSource == [Source EXCEPT !.kind = "json", !.path = <<"a">>]
Logs == [enabled |-> TRUE, patterns |-> {"ok"}, sources |-> <<>>, level |-> "warn",
         maxLines |-> 0, maxBytes |-> 0, maxAge |-> 0]
FileSource == [type |-> "file", path |-> "app.log", format |-> "json", spanPattern |-> {1}]
RuleLogs == [level |-> "", maxLines |-> 0, patterns |-> {"ok"}]
Spans == [enabled |-> TRUE, patterns |-> {"ok"}, maxAttr |-> 0, minDuration |-> 0]
Exporter == [name |-> "x", type |-> "webhook", target |-> "url", flush |-> Absent, queue |-> 0]
Detector == [kind |-> "id", severity |-> "high", pattern |-> "ok", verify |-> ""]
Auth == [token |-> "t", inEnv |-> FALSE, env |-> "", allowHealth |-> "unset"]

Base == [parses |-> TRUE, version |-> 1, listen |-> "addr", upstream |-> "url", http2 |-> FALSE,
         adminListen |-> "", cors |-> {}, auth |-> {}, tls |-> {},
         store |-> [driver |-> "", dsn |-> "", queue |-> 0, maxRows |-> 0, maxAge |-> Absent, analysis |-> 0],
         exporters |-> <<Exporter>>, billing |-> {}, metricsOn |-> TRUE, buckets |-> {},
         spans |-> {Spans}, appLogs |-> {Logs}, detectors |-> <<Detector>>,
         rules |-> <<[NoRule EXCEPT !.labels = {Source}, !.logs = {RuleLogs}]>>]

WithRule(r) == [Base EXCEPT !.rules = @ \o <<r>>]
WithStore(s) == [Base EXCEPT !.store = s]

(* A document that uses every block, and one without a proxy or a store.   *)
Full == [Base EXCEPT !.cors = {"*", "origin"}, !.auth = {Auth}, !.tls = {[cert |-> "file", key |-> "file"]},
                     !.appLogs = {[Logs EXCEPT !.sources = <<FileSource>>, !.maxLines = -1]},
                     !.exporters = <<[Exporter EXCEPT !.type = "plugin"]>>, !.spans = {},
                     !.store.driver = "memory",
                     !.rules = <<[NoRule EXCEPT !.labels = {JSONSource}, !.redact = {<<"b">>}]>>]
Collector == [Base EXCEPT !.listen = "", !.upstream = "", !.store.driver = "none", !.metricsOn = FALSE]

MCDocs ==
    {Base, Full, Collector,
     [Base EXCEPT !.parses = FALSE], [Base EXCEPT !.version = 2],
     [Base EXCEPT !.listen = "bad"], [Base EXCEPT !.listen = ""],
     [Base EXCEPT !.upstream = "bad"],
     [Base EXCEPT !.adminListen = "bad"],
     [Base EXCEPT !.cors = {"*"}], [Base EXCEPT !.cors = {"bad"}],
     [Base EXCEPT !.auth = {[Auth EXCEPT !.token = ""]}],
     [Base EXCEPT !.auth = {[Auth EXCEPT !.inEnv = TRUE]}],
     [Base EXCEPT !.tls = {[cert |-> "file", key |-> "missing"]}],
     [Base EXCEPT !.spans = {[Spans EXCEPT !.patterns = {"bad"}]}],
     [Base EXCEPT !.spans = {[Spans EXCEPT !.minDuration = -1]}],
     [Base EXCEPT !.appLogs = {[Logs EXCEPT !.patterns = {"bad"}]}],
     [Base EXCEPT !.appLogs = {[Logs EXCEPT !.level = "loud"]}],
     [Base EXCEPT !.appLogs = {[Logs EXCEPT !.sources = <<[FileSource EXCEPT !.path = ""]>>]}],
     [Base EXCEPT !.appLogs = {[Logs EXCEPT !.enabled = FALSE]}],
     [Base EXCEPT !.exporters = <<Exporter, Exporter>>],
     [Base EXCEPT !.exporters = <<[Exporter EXCEPT !.type = "kafka"]>>],
     [Base EXCEPT !.exporters = <<[Exporter EXCEPT !.flush = Malformed]>>],
     [Base EXCEPT !.exporters = <<[Exporter EXCEPT !.flush = "zero"]>>],
     [Base EXCEPT !.exporters = <<Exporter, [Exporter EXCEPT !.name = "y", !.flush = "negative"]>>],
     [Base EXCEPT !.detectors = <<Detector, Detector>>],
     [Base EXCEPT !.detectors = <<[Detector EXCEPT !.pattern = "bad"]>>],
     WithStore([Base.store EXCEPT !.driver = "postgres", !.dsn = "clickhouse"]),
     WithStore([Base.store EXCEPT !.driver = "unheard"]),
     WithStore([Base.store EXCEPT !.analysis = MaxAnalysisRows + 1]),
     WithStore([Base.store EXCEPT !.maxAge = "zero"]),
     WithRule([NoRule EXCEPT !.path = "relative"]), WithRule([NoRule EXCEPT !.methods = {"BREW"}]),
     WithRule([NoRule EXCEPT !.labels = {[Source EXCEPT !.extract = {2}]}]),
     WithRule([NoRule EXCEPT !.labels = {JSONSource}, !.redact = {<<"a">>}]),
     WithRule([NoRule EXCEPT !.body = {[path |-> <<"a">>, pattern |-> "bad"]}]),
     WithRule([NoRule EXCEPT !.criteria = {"bad"}]), WithRule([NoRule EXCEPT !.sample = {0}]),
     WithRule([NoRule EXCEPT !.logs = {[RuleLogs EXCEPT !.maxLines = -1]}]),
     WithRule([NoRule EXCEPT !.slower = "zero"])}

(* Edits: other rules, another exporter, another token, and a broken file. *)
OtherRules == [Base EXCEPT !.rules = <<[NoRule EXCEPT !.labels = {[Source EXCEPT !.name = "plan"]}]>>]
MCEditDocs ==
    {Base, OtherRules, [OtherRules EXCEPT !.exporters = <<>>], [Base EXCEPT !.auth = {Auth}],
     [Base EXCEPT !.version = 2]}
MCBuckets == {1, 5}
=============================================================================
