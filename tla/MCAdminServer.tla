--------------------------- MODULE MCAdminServer ---------------------------
(***************************************************************************)
(* Two requests served at once: each of the long handlers against each     *)
(* other, and every single-query route behind each way of guarding it.     *)
(***************************************************************************)
EXTENDS AdminServer

Policy == [enabled |-> TRUE, dropOrphans |-> TRUE, minDuration |-> 2, maxPerRequest |-> 0,
           patterns |-> {"card"}, fields |-> {"password"}]

Plainly == [token |-> FALSE, authns |-> 0, challenges |-> FALSE, policies |-> <<>>,
            auditor |-> FALSE, reader |-> TRUE, healthOpen |-> TRUE, cors |-> FALSE,
            extension |-> "public"]
Everything == {"public", "metrics", "stats", "payload", "export", "analyse", "config", "admin",
               "ingest", "ui"}

MCSetups == {
    Plainly,
    [Plainly EXCEPT !.auditor = TRUE, !.reader = FALSE, !.healthOpen = FALSE, !.cors = TRUE],
    [Plainly EXCEPT !.token = TRUE, !.auditor = TRUE, !.extension = "config",
                    !.policies = <<[allows |-> Everything, panics |-> {"payload"}],
                                   [allows |-> Everything \ {"config"}, panics |-> {}]>>],
    [Plainly EXCEPT !.authns = 2, !.challenges = TRUE, !.auditor = TRUE],
    [Plainly EXCEPT !.token = TRUE, !.authns = 1, !.auditor = TRUE, !.extension = "stats",
                    !.policies = <<[allows |-> {"stats", "analyse"}, panics |-> {}]>>]}

Get(k) == [NoAsk EXCEPT !.kind = k, !.token = "query"]
Span(p, took, failed) == [parent |-> p, blank |-> FALSE, took |-> took, failed |-> failed,
                          leaks |-> {[at |-> "error", pattern |-> "card"],
                                     [at |-> "password", pattern |-> "other"],
                                     [at |-> "statement", pattern |-> "other"]}]
Batches == {<<Span("s1", 2, FALSE), Span("s1", 0, TRUE)>>,
            <<Span("s1", 1, FALSE), Span(NoParent, 3, FALSE), Span("s2", 2, FALSE)>>}

Long == {[Get("export") EXCEPT !.format = "csv"], Get("export"), Get("scan")}
        \cup {[Get("ingestSpans") EXCEPT !.batch = b] : b \in Batches}
        \cup {Get("ingest")}
Odd == {[Get("export") EXCEPT !.format = "other"], [Get("ingest") EXCEPT !.format = "other"],
        [Get("ingestSpans") EXCEPT !.format = "other"], [Get("get") EXCEPT !.id = 1],
        [Get("list") EXCEPT !.token = "none"], [Get("health") EXCEPT !.token = "wrongQuery"],
        [Get("export") EXCEPT !.token = "header"]}
Short == {Get(k) : k \in {"metrics", "health", "stats", "routes", "rules", "services", "traces",
                          "system", "usage", "list", "get", "spec", "config", "validate", "reload",
                          "ui", "applogs", "spans", "logstats", "spanstats", "breakdown",
                          "extension", "preflight"}}
CONSTANTS c1, c2

(* c1 asks anything, while c2 posts records or spans.                      *)
MCAsks == c1 :> (Long \cup Odd \cup Short)
          @@ c2 :> {Get("ingest"), [Get("ingestSpans") EXCEPT !.batch = <<Span("s1", 2, FALSE), Span("s1", 0, TRUE)>>]}
=============================================================================
