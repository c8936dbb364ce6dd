---------------------------- MODULE AdminServer ----------------------------
(***************************************************************************)
(* admin.Server: the guard every route is wrapped in (authenticate,        *)
(* authorize, audit) and the handlers behind it, serving several requests  *)
(* at once over tables that the writer fills and that retention and        *)
(* purges empty meanwhile.                                                 *)
(*                                                                         *)
(* A handler that asks the store once is one step.  The ones that ask more *)
(* than once (export, scan, span ingest) take one step per call, and the   *)
(* other actors may move in between.  Payloads are reduced to row ids;     *)
(* what a client asks is [kind, token, id, batch]: the route, how it sends *)
(* the bearer token, the record it wants and the spans it posts.           *)
(***************************************************************************)
EXTENDS SpanGovernor, Sequences, SequencesExt, FiniteSetsExt

CONSTANTS
    Clients,        \* the requests, each served once
    Setups,         \* [token, authns, challenges, policies, auditor, reader, healthOpen, cors,
                    \*  extension]
    Asks,           \* what each client may ask
    Page,           \* rows per page of export and scan (500)
    AnalysisRows,   \* analysisRows()
    MaxRecords, MaxLines, MaxQueued   \* bounds on the tables and the write queue

ASSUME AdminAssumption ==
    /\ {Page, AnalysisRows} \subseteq Nat \ {0}
    /\ {MaxRecords, MaxLines, MaxQueued} \subseteq Nat
    /\ IsFiniteSet(Clients)
    /\ \A s \in Setups : s.authns \in Nat /\ {s.token, s.auditor} \subseteq BOOLEAN
    /\ \A r \in Clients : \A ask \in Asks[r] :
          /\ ask.batch \in Seq(Range(ask.batch))
          /\ \A s \in Range(ask.batch) : {"parent", "leaks"} \subseteq DOMAIN s

VARIABLES
    setup,      \* the member of Setups this server was built with
    queued,     \* records the async writer still holds
    recs,       \* ids of the stored records; ids grow
    nextId,     \* the id the next saved record gets
    lines,      \* ids of the stored app-log lines, in timestamp order
    spanRows,   \* the stored spans, in the order they were saved
    counter,    \* the span governor's counter
    tally,      \* span metrics: [stored, dropped]
    req,        \* per client, the request being served
    trail       \* per client, the audit events its request caused

vars == <<setup, queued, recs, nextId, lines, spanRows, counter, tally, req, trail>>
store == <<queued, recs, nextId, lines>>
spanState == <<spanRows, counter, tally>>

Outcomes == {"id", "none", "written", "error"}    \* what one authenticator answers
-----------------------------------------------------------------------------
(* Handler: the capability each route declares.  "extension" is a route    *)
(* that an extension adds, with the capability the extension gives it.     *)
Capability(kind) ==
    CASE kind = "health" -> IF setup.healthOpen THEN "public" ELSE "stats"
      [] kind = "extension" -> setup.extension
      [] kind = "metrics" -> "metrics"
      [] kind \in {"stats", "routes", "rules", "services", "traces", "system", "usage",
                   "logstats", "spanstats", "breakdown"} -> "stats"
      [] kind \in {"list", "get", "applogs", "spans"} -> "payload"
      [] kind = "export" -> "export"
      [] kind \in {"scan", "spec"} -> "analyse"
      [] kind \in {"config", "validate"} -> "config"
      [] kind = "reload" -> "admin"
      [] kind \in {"ingest", "ingestSpans"} -> "ingest"
      [] kind \in {"ui", "preflight"} -> "ui"

(* active: with nothing configured and nothing registered the guard hands  *)
(* handlers out untouched.                                                 *)
active == setup.token \/ setup.authns > 0 \/ setup.policies # <<>> \/ setup.auditor

(* authenticateToken: the header, or the token parameter.                  *)
authenticateToken(ask) == ask.token \in {"header", "query"}

(* authenticate: registered authenticators in order, an error or a panic   *)
(* of one leaving the decision to the next, then the token.                *)
authenticate(ask, says) ==
    LET settled == {i \in DOMAIN says : says[i] \in {"id", "written"}} IN
    IF settled # {} THEN says[Min(settled)]
    ELSE IF setup.token THEN IF authenticateToken(ask) THEN "id" ELSE "none"
    ELSE IF setup.authns = 0 THEN "anonymous" ELSE "none"

(* Mutant: a panicking authorizer lets the request through.                *)
authorizeOpen(kind) ==
    \A i \in DOMAIN setup.policies :
        Capability(kind) \in setup.policies[i].allows \cup setup.policies[i].panics

(* safeAuthorize over every authorizer: a panic is a refusal.              *)
authorize(kind) ==
    \A i \in DOMAIN setup.policies :
        Capability(kind) \in setup.policies[i].allows \ setup.policies[i].panics

(* guard's verdict: "allowed" runs the handler, the others are answered    *)
(* here.  A public route needs neither credentials nor policy, but an      *)
(* authenticator that wrote the response owns it there too.                *)
guard(ask, says) ==
    LET who == authenticate(ask, says) IN
    IF ~active THEN "allowed"
    ELSE IF who = "written" THEN "written"
    ELSE IF Capability(ask.kind) = "public" THEN "allowed"
    ELSE IF who = "none" THEN IF setup.challenges THEN "challenged" ELSE "unauthorized"
    ELSE IF authorize(ask.kind) THEN "allowed" ELSE "denied"

(* auditableQuery: a token in the query string is masked.                  *)
auditableQuery(ask) == IF ask.token \in {"query", "wrongQuery"} THEN "masked" ELSE "as sent"

(* emit: one event per decision, when somebody audits.                     *)
emit(r, e) ==
    trail' = [trail EXCEPT ![r] = IF active /\ setup.auditor THEN Append(@, e) ELSE @]
-----------------------------------------------------------------------------
(* The handlers that ask the store at most once.  ok is whether that call  *)
(* succeeds, cfg what the file at ConfigPath holds now.  rows counts the   *)
(* captured rows in the answer, noted what NoteAccess reported.            *)

CfgStates == {"good", "bad", "missing"}
Plain(status) == [status |-> status, rows |-> 0, noted |-> 0]
AtMost(n, S) == Min({n, Cardinality(S)})

Aggregate(has, ok) == Plain(IF ~has THEN 501 ELSE IF ok THEN 200 ELSE 500)

health == Plain(200)
stats(ok) == Aggregate(setup.reader, ok)
routes(ok) == Aggregate(setup.reader, ok)
services(ok) == Aggregate(setup.reader, ok)
traces(ok) == Aggregate(setup.reader, ok)
usage(ok) == Aggregate(setup.reader, ok)

listLogs(ok) ==
    IF ~setup.reader THEN Plain(501) ELSE IF ~ok THEN Plain(500)
    ELSE [status |-> 200, rows |-> AtMost(Page, recs), noted |-> AtMost(Page, recs)]

getLog(id, ok) ==
    IF ~setup.reader THEN Plain(501)
    ELSE IF id = 0 THEN Plain(400)      \* 0 stands for an id that is no number
    ELSE IF id \notin recs \/ ~ok THEN Plain(404)
    ELSE [status |-> 200, rows |-> 1, noted |-> 1]

ruleStats(ok, cfg) ==
    Plain(IF cfg = "missing" THEN 500 ELSE IF cfg = "bad" THEN 422
          ELSE IF setup.reader /\ ~ok THEN 500 ELSE 200)

system == Plain(200)

inferSpec(ok) ==
    LET seen == AtMost(AnalysisRows, recs) IN
    IF ~setup.reader THEN Plain(501) ELSE IF ~ok THEN Plain(500)
    ELSE IF seen = 0 THEN Plain(404)
    ELSE [status |-> 200, rows |-> 0, noted |-> seen]

getConfig(cfg) == Plain(IF cfg = "missing" THEN 500 ELSE 200)
validateConfig(ok) == Plain(IF ok THEN 200 ELSE 400)
reload(cfg) == Plain(IF cfg = "good" THEN 200 ELSE 422)
ui(ok) == Plain(IF ok THEN 200 ELSE 404)

queryAppLogs(ok) ==
    IF ~setup.reader THEN Plain(501) ELSE IF ~ok THEN Plain(500)
    ELSE [status |-> 200, rows |-> AtMost(Page, lines), noted |-> 0]

querySpans(ok) ==
    IF ~setup.reader THEN Plain(501) ELSE IF ~ok THEN Plain(500)
    ELSE [status |-> 200, rows |-> Min({Page, Len(spanRows)}), noted |-> 0]

(* An optional store that is not there renders an empty panel.             *)
spanStats(ok) == Plain(IF setup.reader /\ ~ok THEN 500 ELSE 200)
spanBreakdown(ok) == Plain(IF setup.reader /\ ~ok THEN 500 ELSE 200)
appLogStats(ok) == Plain(IF setup.reader /\ ~ok THEN 500 ELSE 200)

Answer(ask, ok, cfg) ==
    CASE ask.kind = "list" -> listLogs(ok)      [] ask.kind = "get" -> getLog(ask.id, ok)
      [] ask.kind = "stats" -> stats(ok)        [] ask.kind = "routes" -> routes(ok)
      [] ask.kind = "services" -> services(ok)  [] ask.kind = "traces" -> traces(ok)
      [] ask.kind = "usage" -> usage(ok)        [] ask.kind = "rules" -> ruleStats(ok, cfg)
      [] ask.kind = "spec" -> inferSpec(ok)     [] ask.kind = "config" -> getConfig(cfg)
      [] ask.kind = "validate" -> validateConfig(ok)
      [] ask.kind = "reload" -> reload(cfg)     [] ask.kind = "ui" -> ui(ok)
      [] ask.kind = "applogs" -> queryAppLogs(ok)
      [] ask.kind = "spans" -> querySpans(ok)   [] ask.kind = "spanstats" -> spanStats(ok)
      [] ask.kind = "breakdown" -> spanBreakdown(ok)
      [] ask.kind = "logstats" -> appLogStats(ok)
      [] ask.kind = "system" -> system
      [] OTHER -> health
-----------------------------------------------------------------------------
NoAsk == [kind |-> "none", token |-> "none", id |-> 0, format |-> "jsonl", batch |-> <<>>]

Idle == [pc |-> "idle", ask |-> NoAsk, who |-> "none", status |-> 0, rows |-> 0, noted |-> 0,
         offset |-> 0, total |-> 0, spanOffset |-> 0,
         had |-> {}, seen |-> {}, shifted |-> FALSE, todo |-> <<>>, kept |-> <<>>, drops |-> 0]

Init ==
    /\ setup \in Setups
    /\ queued = 1 /\ nextId \in 1..MaxRecords /\ recs = 1..nextId - 1 /\ lines = {}
    /\ spanRows = <<>> /\ counter = EmptyCounter /\ tally = [stored |-> 0, dropped |-> 0]
    /\ req = [r \in Clients |-> Idle]
    /\ trail = [r \in Clients |-> <<>>]

(* Where a request goes once the guard lets it through.                    *)
Entry(kind) ==
    CASE kind = "export" -> "export"
      [] kind = "scan" -> "scan"
      [] kind = "ingest" -> "ingest"
      [] kind = "ingestSpans" -> "admit"
      [] kind = "extension" -> "extension"
      [] OTHER -> "handle"

(* A preflight is answered by withCORS, or reaches the dashboard route     *)
(* unguarded; nobody audits it.                                            *)
Preflight(r, ask) ==
    /\ ask.kind = "preflight"
    /\ req' = [req EXCEPT ![r] = [Idle EXCEPT !.pc = "done", !.ask = ask,
                                    !.status = IF setup.cors THEN 204 ELSE 200]]
    /\ UNCHANGED trail

(* A request arrives and goes through the guard.  What a redirect or a     *)
(* challenge writes is the extension's; 302 stands for it.                 *)
Guard(r, ask, says) ==
    LET verdict == guard(ask, says)
        status == CASE verdict \in {"written", "challenged"} -> 302
                    [] verdict = "unauthorized" -> 401 [] OTHER -> 403
        fresh == [Idle EXCEPT !.ask = ask, !.who = authenticate(ask, says)]
    IN  /\ ask.kind # "preflight"
        /\ IF verdict = "allowed"
           THEN /\ req' = [req EXCEPT ![r] = [fresh EXCEPT !.pc = Entry(ask.kind),
                              !.had = IF ask.kind = "export" THEN recs
                                      ELSE IF ask.kind = "scan" THEN lines ELSE {},
                              !.todo = ask.batch]]
                /\ UNCHANGED trail
           ELSE /\ req' = [req EXCEPT ![r] = [fresh EXCEPT !.pc = "done", !.status = status]]
                /\ emit(r, [outcome |-> IF verdict = "denied" THEN "denied" ELSE "unauthorized",
                            status |-> status, count |-> 0, filter |-> "none"])

Arrive(r) ==
    /\ req[r].pc = "idle"
    /\ \E ask \in Asks[r], says \in [1..setup.authns -> Outcomes] :
          Preflight(r, ask) \/ Guard(r, ask, says)
    /\ UNCHANGED <<setup, store, spanState>>

(* The handler returns and guard emits its event.  An export that found    *)
(* nothing to write as JSONL leaves the status at 0: the client's 200 is   *)
(* the library's, not the handler's.                                       *)
Finish(r, a) ==
    LET ask == req[r].ask
        silent == ask.kind = "export" /\ ask.format = "jsonl" /\ a.status = 200 /\ a.rows = 0
        noting == /\ a.status = 200
                  /\ \/ ask.kind \in {"list", "scan"}
                     \/ ask.kind \in {"export", "spec"} /\ a.noted > 0
    IN  /\ req' = [req EXCEPT ![r] = [@ EXCEPT !.pc = "done", !.status = a.status,
                                         !.rows = a.rows, !.noted = a.noted]]
        /\ emit(r, [outcome |-> "allowed", status |-> IF silent THEN 0 ELSE a.status,
                    count |-> a.noted,
                    filter |-> IF noting THEN auditableQuery(ask) ELSE "none"])

Handle(r) ==
    /\ req[r].pc = "handle"
    /\ \E ok \in BOOLEAN, cfg \in CfgStates : Finish(r, Answer(req[r].ask, ok, cfg))
    /\ UNCHANGED <<setup, store, spanState>>

(* A handler an extension registered may panic: net/http recovers, the     *)
(* connection is dropped and guard never reaches its event.                *)
Extension(r) ==
    /\ req[r].pc = "extension"
    /\ Finish(r, Plain(200)) \/ (req' = [req EXCEPT ![r].pc = "aborted"] /\ UNCHANGED trail)
    /\ UNCHANGED <<setup, store, spanState>>
-----------------------------------------------------------------------------
(* export: pages of the records, newest first, until a page is short or    *)
(* empty or a query fails.                                                 *)

(* ORDER BY id DESC LIMIT Page OFFSET offset, and the lines' ORDER BY ts.  *)
Newest(S, offset) == {x \in S : Cardinality({y \in S : y > x}) \in offset..offset + Page - 1}
Oldest(S, offset) == {x \in S : Cardinality({y \in S : y < x}) \in offset..offset + Page - 1}

(* Mutant: a later page's count replaces the earlier ones.                 *)
NoteAccessLast(noted, n) == n

(* NoteAccess: counts add up over the pages.                               *)
NoteAccess(noted, n) == noted + n

NextOffset(offset) == offset + Page

Export(r) ==
    LET q == req[r]
        page == Newest(recs, q.offset)
        rows == q.rows + Cardinality(page)
        noted == NoteAccess(q.noted, Cardinality(page))
    IN  /\ q.pc = "export"
        /\ \E ok \in BOOLEAN :
              IF ~setup.reader THEN Finish(r, Plain(501))
              ELSE IF q.ask.format = "other" THEN Finish(r, Plain(400))
              ELSE IF ok /\ page # {}
              THEN /\ req' = [req EXCEPT ![r] = [q EXCEPT
                                  !.pc = IF Cardinality(page) < Page THEN "flush" ELSE @,
                                  !.offset = NextOffset(@), !.seen = @ \cup page,
                                  !.rows = rows, !.noted = noted]]
                   /\ UNCHANGED trail
              ELSE /\ req' = [req EXCEPT ![r] = [q EXCEPT !.pc = "flush", !.shifted = @ \/ ~ok]]
                   /\ UNCHANGED trail
        /\ UNCHANGED <<setup, store, spanState>>

ExportEnds(r) ==
    /\ req[r].pc = "flush"
    /\ Finish(r, [status |-> 200, rows |-> req[r].rows, noted |-> req[r].noted])
    /\ UNCHANGED <<setup, store, spanState>>
-----------------------------------------------------------------------------
(* scan: the records in one streamed query, then the lines and the spans   *)
(* in pages, oldest first, until a page is empty, the total at the time of *)
(* the query is reached or the row cap is.                                 *)

ScanRecords(r) ==
    /\ req[r].pc = "scan"
    /\ \E ok \in BOOLEAN :
          IF ~setup.reader THEN Finish(r, Plain(501))
          ELSE IF ~ok THEN Finish(r, Plain(500))
          ELSE /\ req' = [req EXCEPT ![r] = [@ EXCEPT !.pc = "countLines",
                                                !.noted = AtMost(AnalysisRows, recs)]]
               /\ UNCHANGED trail
    /\ UNCHANGED <<setup, store, spanState>>

(* QueryAppLogs counts, then reads the page: two statements.               *)
CountLines(r) ==
    /\ req[r].pc = "countLines"
    /\ \E ok \in BOOLEAN :
          IF ~ok THEN Finish(r, Plain(500))
          ELSE /\ req' = [req EXCEPT ![r] = [@ EXCEPT !.pc = "scanLines",
                                                !.total = Cardinality(lines)]]
               /\ UNCHANGED trail
    /\ UNCHANGED <<setup, store, spanState>>

(* Mutant: a full page is taken for the last one.                          *)
LastPageFull(n, offset, total) == n = 0 \/ offset >= total \/ offset >= AnalysisRows \/ n = Page

LastPage(n, offset, total) == n = 0 \/ offset >= total \/ offset >= AnalysisRows

ScanLines(r) ==
    LET q == req[r]
        page == Oldest(lines, q.offset)
        read == q.offset + Cardinality(page)
        last == LastPage(Cardinality(page), read, q.total)
    IN  /\ q.pc = "scanLines"
        /\ \E ok \in BOOLEAN :
              IF ~ok THEN Finish(r, Plain(500))
              ELSE /\ req' = [req EXCEPT ![r] = [q EXCEPT !.seen = @ \cup page,
                                  !.pc = IF last THEN "scanSpans" ELSE "countLines",
                                  !.offset = read, !.total = 0]]
                   /\ UNCHANGED trail
        /\ UNCHANGED <<setup, store, spanState>>

ScanSpans(r) ==
    LET page == SubSeq(spanRows, req[r].spanOffset + 1,
                       Min({req[r].spanOffset + Page, Len(spanRows)}))
        read == req[r].spanOffset + Len(page)
    IN  /\ req[r].pc = "scanSpans"
        /\ \E ok \in BOOLEAN :
              IF ~ok THEN Finish(r, Plain(500))
              ELSE IF LastPage(Len(page), read, Len(spanRows))
              THEN Finish(r, [status |-> 200, rows |-> 0, noted |-> req[r].noted])
              ELSE /\ req' = [req EXCEPT ![r].spanOffset = read]
                   /\ UNCHANGED trail
        /\ UNCHANGED <<setup, store, spanState>>
-----------------------------------------------------------------------------
(* ingest: an SDK's record joins the write queue, or is dropped when the   *)
(* queue is full; the answer is the same.                                  *)
Ingest(r) ==
    /\ req[r].pc = "ingest"
    /\ IF req[r].ask.format = "other"
       THEN Finish(r, Plain(400)) /\ UNCHANGED queued
       ELSE /\ Finish(r, Plain(202))
            /\ queued' = IF setup.reader /\ queued < MaxQueued THEN queued + 1 ELSE queued
    /\ UNCHANGED <<setup, recs, nextId, lines, spanState>>

(* ingestSpans: one span through the governor.                             *)
AdmitSpan(r) ==
    LET q == req[r]
        s == Head(q.todo)
        kept == Admit(s, counter) = Kept
    IN  /\ q.pc = "admit" /\ q.todo # <<>>
        /\ SpanPolicy.enabled /\ setup.reader /\ q.ask.format # "other"
        /\ req' = [req EXCEPT ![r] = [q EXCEPT !.todo = Tail(@),
                       !.kept = IF kept THEN Append(@, Scrub(s)) ELSE @,
                       !.drops = IF kept THEN @ ELSE @ + 1]]
        /\ counter' = AfterAdmit(s, counter)
        /\ UNCHANGED <<setup, store, spanRows, tally, trail>>

(* Refused before the governor: not enabled, nowhere to store, no JSON.    *)
RefuseSpans(r) ==
    /\ req[r].pc = "admit"
    /\ ~SpanPolicy.enabled \/ ~setup.reader \/ req[r].ask.format = "other"
    /\ Finish(r, Plain(IF ~SpanPolicy.enabled \/ ~setup.reader THEN 501 ELSE 400))
    /\ UNCHANGED <<setup, store, spanState>>

(* SaveSpans: all of them or none.                                         *)
SaveSpans(r) ==
    /\ req[r].pc = "admit" /\ req[r].todo = <<>>
    /\ SpanPolicy.enabled /\ setup.reader /\ req[r].ask.format # "other"
    /\ \E ok \in BOOLEAN :
          IF ok \/ req[r].kept = <<>>
          THEN /\ spanRows' = spanRows \o req[r].kept
               /\ req' = [req EXCEPT ![r].pc = "count"]
               /\ UNCHANGED trail
          ELSE Finish(r, Plain(500)) /\ UNCHANGED spanRows
    /\ UNCHANGED <<setup, store, counter, tally>>

(* Mutant: the drops are left out of the metrics.                          *)
CountStoredOnly(r) ==
    /\ req[r].pc = "count"
    /\ tally' = [tally EXCEPT !.stored = @ + Len(req[r].kept)]
    /\ Finish(r, Plain(202))
    /\ UNCHANGED <<setup, store, spanRows, counter>>

CountSpans(r) ==
    /\ req[r].pc = "count"
    /\ tally' = [stored  |-> tally.stored + Len(req[r].kept),
                 dropped |-> tally.dropped + req[r].drops]
    /\ Finish(r, Plain(202))
    /\ UNCHANGED <<setup, store, spanRows, counter>>
-----------------------------------------------------------------------------
(* What moves meanwhile: the writer, retention, a purge, the app-log side. *)

(* The reads it disturbs, by how far they are.                             *)
Shift(at) == [r \in Clients |-> IF req[r].pc \in at THEN [req[r] EXCEPT !.shifted = TRUE]
                                ELSE req[r]]

SaveRecord ==
    /\ queued > 0 /\ nextId <= MaxRecords
    /\ queued' = queued - 1 /\ recs' = recs \cup {nextId} /\ nextId' = nextId + 1
    /\ UNCHANGED <<setup, lines, spanState, req, trail>>

(* Prune by max_rows: the lowest ids go.                                   *)
PruneRecords ==
    /\ recs # {}
    /\ recs' = recs \ {Min(recs)}
    /\ UNCHANGED <<setup, queued, nextId, lines, spanState, req, trail>>

(* Purge, or PruneBefore: an SDK chooses the time of its record, so what   *)
(* is oldest by time may have any id.                                      *)
PurgeRecords ==
    /\ \E id \in recs : recs' = recs \ {id}
    /\ req' = Shift({"export"})
    /\ UNCHANGED <<setup, queued, nextId, lines, spanState, trail>>

(* A line may be older than stored ones: saved between the count and the   *)
(* page of one query, it moves the page away from the total.               *)
SaveLine ==
    /\ \E l \in 1..MaxLines \ lines :
          /\ lines' = lines \cup {l}
          /\ req' = IF \E x \in lines : x > l THEN Shift({"scanLines"}) ELSE req
    /\ UNCHANGED <<setup, queued, recs, nextId, spanState, trail>>

PruneLines ==
    /\ lines # {}
    /\ lines' = lines \ {Min(lines)}
    /\ req' = Shift({"scan", "countLines", "scanLines"})
    /\ UNCHANGED <<setup, queued, recs, nextId, spanState, trail>>

(* Every request was served.                                               *)
Rest == (\A r \in Clients : req[r].pc \in {"done", "aborted"}) /\ UNCHANGED vars

Serve(r) ==
    \/ Arrive(r) \/ Handle(r) \/ Extension(r) \/ Export(r) \/ ExportEnds(r)
    \/ ScanRecords(r) \/ CountLines(r) \/ ScanLines(r) \/ ScanSpans(r)
    \/ Ingest(r) \/ AdmitSpan(r) \/ RefuseSpans(r) \/ SaveSpans(r) \/ CountSpans(r)

Next ==
    \/ \E r \in Clients : Serve(r)
    \/ SaveRecord \/ PruneRecords \/ PurgeRecords \/ SaveLine \/ PruneLines
    \/ Rest

Spec == Init /\ [][Next]_vars
-----------------------------------------------------------------------------
(* An auditor reading the trail finds every decision that was answered     *)
(* exactly once, never before the answer, and one whose handler panicked   *)
(* at most once: today it is not there (README, disagreements).  The event *)
(* has the status the handler wrote, 0 where it wrote nothing and net/http *)
(* did; the number of captured records that left, and of app-log lines and *)
(* spans, which are not counted today, either all or none; and no token in *)
(* the recorded query.                                                     *)
AuditAccounts ==
    \A r \in Clients :
        LET q == req[r]
            audited == q.ask.kind # "preflight" /\ active /\ setup.auditor
        IN  /\ Len(trail[r]) <= 1
            /\ trail[r] # <<>> => audited /\ q.pc \in {"done", "aborted"}
            /\ audited /\ q.pc = "done" =>
                  /\ Len(trail[r]) = 1
                  /\ LET e == trail[r][1] IN
                     /\ \/ e.status = q.status
                        \/ e.status = 0 /\ q.ask.kind = "export" /\ q.status = 200 /\ q.rows = 0
                     /\ e.outcome = "allowed" \/ (e.status \in {302, 401, 403} /\ q.rows = 0)
                     /\ q.ask.kind \in {"list", "get", "export"} => e.count = q.rows
                     /\ q.ask.kind \in {"applogs", "spans"} => e.count \in {0, q.rows}
                     /\ q.ask.token = "query" => e.filter # "as sent"

(* Captured rows only ever leave to somebody who was identified, where     *)
(* anything can identify, and only where every registered policy allows    *)
(* the capability for payload, or for export when they leave in bulk; a    *)
(* policy that panics allows nothing.                                      *)
GrantedOnly ==
    \A r \in Clients : req[r].rows > 0 =>
        /\ setup.token \/ setup.authns > 0 => req[r].who = "id"
        /\ LET cap == IF req[r].ask.kind = "export" THEN "export" ELSE "payload" IN
           \A i \in DOMAIN setup.policies :
              cap \in setup.policies[i].allows \ setup.policies[i].panics

(* Paging by offset over a table that moves: an export that no purge, no   *)
(* pruning by age and no failed query disturbed holds every record that    *)
(* was there all along, whatever was saved or pruned by count meanwhile; a *)
(* scan that no deletion of lines disturbed, nor a line that arrived out of*)
(* order between a count and its page, has read every such line, or as     *)
(* many rows as the cap allows, repeated ones included.                    *)
PagedReadsCover ==
    \A r \in Clients : LET q == req[r] IN
        q.pc = "done" /\ q.status = 200 /\ ~q.shifted =>
            /\ q.ask.kind = "export" => q.had \cap recs \subseteq q.seen
            /\ q.ask.kind = "scan" =>
                  q.had \cap lines \subseteq q.seen \/ q.offset >= AnalysisRows

(* The spans at rest are scrubbed and, as long as the counter has not had  *)
(* to forget a generation of requests, within the cap of their request;    *)
(* when no batch is in flight the metrics tell what happened to every span *)
(* of the accepted batches: stored ones are rows, the others were dropped. *)
(* The drops of a batch whose save failed may be counted on top of that, or*)
(* not, as they are not today (README, disagreements).                     *)
SpansAccounted ==
    /\ \A i \in DOMAIN spanRows : \A k \in spanRows[i].leaks :
          k.at \notin SpanPolicy.fields /\ k.pattern \notin SpanPolicy.patterns
    /\ MaxPer > 0 /\ DOMAIN counter.prev = {} =>
          \A p \in {spanRows[i].parent : i \in DOMAIN spanRows} \ {NoParent} :
             Cardinality({i \in DOMAIN spanRows : spanRows[i].parent = p}) <= MaxPer
    /\ (\A r \in Clients : req[r].pc \notin {"admit", "count"}) =>
          LET answered(status) == {r \in Clients : req[r].ask.kind = "ingestSpans"
                                                      /\ req[r].status = status}
              sent == Cardinality(UNION {{r} \X DOMAIN req[r].ask.batch : r \in answered(202)})
              lost == Cardinality(UNION {{r} \X (1..req[r].drops) : r \in answered(500)})
          IN  /\ tally.stored = Len(spanRows)
              /\ sent <= tally.stored + tally.dropped
              /\ tally.stored + tally.dropped <= sent + lost
=============================================================================
