-------------------------- MODULE MCRecordDrivers --------------------------
(***************************************************************************)
(* Four records: a root hop and the failed hop it called, of two tenants;  *)
(* a stream without labels; a client error of a tenant whose name differs  *)
(* from another's only in case, with a tenant's name in its query string.  *)
(***************************************************************************)
EXTENDS RecordDrivers, TLC

Base == [service |-> "shop", method |-> "GET", path |-> <<"orders">>, query |-> {},
         route |-> "/orders", status |-> 200, dur |-> 1, source |-> "sdk",
         reqBody |-> {}, respBody |-> {}, reqBytes |-> 1, respBytes |-> 2,
         labels |-> NoMap, rules |-> <<>>, meters |-> NoMap, stream |-> FALSE,
         trace |-> "", spanId |-> "", parent |-> ""]

Root == [Base EXCEPT !.path = <<"orders", "7">>, !.dur = 3, !.labels = [tenant |-> "acme"],
            !.rules = <<"r1">>, !.meters = [tokens |-> 2], !.trace = "t1", !.spanId = "s1"]
Hop == [Base EXCEPT !.service = "", !.method = "POST", !.status = 503, !.source = "",
            !.reqBody = {"invoice"}, !.labels = [tenant |-> "umbra"], !.rules = <<"r1", "r2">>,
            !.meters = [tokens |-> 1, pages |-> 4], !.trace = "t1", !.spanId = "s2", !.parent = "s1"]
Live == [Base EXCEPT !.path = <<"live">>, !.route = "/live", !.dur = 9, !.stream = TRUE]
Missing == [Base EXCEPT !.query = {"umbra"}, !.status = 404, !.dur = 2,
            !.labels = [tenant |-> "ACME", plan |-> "free"], !.respBody = {"invoice"}]

TheRecs == {Root, Hop, Live, Missing}

TheSpans == {[trace |-> "t1", id |-> "p1", parent |-> "s1", service |-> "shop", kind |-> "db",
              dur |-> 2, error |-> FALSE, words |-> {"select"}, name |-> "select"],
             [trace |-> "t1", id |-> "p2", parent |-> "s2", service |-> "shop", kind |-> "",
              dur |-> 5, error |-> TRUE, words |-> {"select"}, name |-> "select"]}

NoFilter == [method |-> "", prefix |-> <<>>, search |-> "", statusMin |-> 0, statusMax |-> 0,
             since |-> 0, until |-> 0, trace |-> "", labels |-> <<>>, limit |-> 0, offset |-> 0]

TheFilters ==
    {[NoFilter EXCEPT !.method = "get", !.limit = 1, !.offset = 1],
     [NoFilter EXCEPT !.prefix = <<"orders">>, !.statusMax = 404, !.limit = 2],
     [NoFilter EXCEPT !.search = "invoice", !.statusMin = 404],
     [NoFilter EXCEPT !.search = "umbra"],
     [NoFilter EXCEPT !.since = 2, !.trace = "t1", !.limit = 9],
     [NoFilter EXCEPT !.until = 1, !.labels = [tenant |-> "acme"]]}

NoSpanFilter == [trace |-> "", span |-> "", parent |-> "", service |-> "", kind |-> "",
                 minDur |-> 0, errorsOnly |-> FALSE, since |-> 0, until |-> 0, search |-> "",
                 limit |-> 0, offset |-> 0]

TheSpanFilters ==
    {[NoSpanFilter EXCEPT !.parent = "s1", !.search = "select"],
     [NoSpanFilter EXCEPT !.kind = "DB", !.minDur = 2, !.limit = 1],
     [NoSpanFilter EXCEPT !.errorsOnly = TRUE, !.since = 2, !.offset = 1]}

NoTraceFilter == [since |-> 0, service |-> "", search |-> "", errorsOnly |-> FALSE, labels |-> <<>>]

TheTraceFilters ==
    {NoTraceFilter,
     [NoTraceFilter EXCEPT !.since = 2, !.errorsOnly = TRUE],
     [NoTraceFilter EXCEPT !.service = "shop"],
     [NoTraceFilter EXCEPT !.search = "orders", !.errorsOnly = TRUE],
     [NoTraceFilter EXCEPT !.labels = [tenant |-> "acme"]]}

Words == {"orders", "7", "live", "invoice", "umbra", "select", "db", "DB", "acme", "ACME", ""}
TheFold == [w \in Words |-> CASE w = "DB" -> "db" [] w = "ACME" -> "acme" [] OTHER -> w]
TheUpper == [GET |-> "GET", get |-> "GET", POST |-> "POST"]
=============================================================================
