--------------------------- MODULE AppLogPipeline ---------------------------
(***************************************************************************)
(* Application log lines on their two ways into the store:                 *)
(*   - the Go SDK's logSink queues lines and posts them in batches to the  *)
(*     agent, whose ingest handler governs, saves and counts them;         *)
(*   - the agent's applog.Collector reads the output of an -exec child and *)
(*     followed files, governs each line, queues it and saves in batches.  *)
(* Both share one Governor.  The agent's shutdown runs through the same    *)
(* pieces in the order of cli.run.                                         *)
(***************************************************************************)
EXTENDS LogGovernor, Sequences, SequencesExt

CONSTANTS
    Scripts,     \* what the application may log: sequences of lines, each a record
                 \* [id, way, span, rank, route, blank, leaks]; way is its source
    Sources,     \* collector sources configured, a subset of {"child", "file"}
    MaxQueue,    \* of the SDK's sink
    MaxBatch,    \* maxAppLogBatch, the lines one POST may carry
    QueueCap     \* 10 * batch of the collector

LineFields == {"id", "way", "span", "rank", "route", "blank", "leaks"}

ASSUME PipelineAssumption ==
    /\ Sources \subseteq {"child", "file"}
    /\ \A script \in Scripts :
          /\ script \in Seq(Range(script))
          /\ \A l \in Range(script) : /\ l = [f \in LineFields |-> l[f]]
                                      /\ l.way \in Sources \cup {"sdk"}
          /\ \A i, j \in DOMAIN script : script[i].id = script[j].id => i = j
    /\ {MaxQueue, MaxBatch, QueueCap} \subseteq Nat

VARIABLES
    app,        \* the application's lines: todo and written
    sdk,        \* logSink: queue, closed, run, batch, last, sent, failed, dropped
    posts,      \* one ingest handler per batch that reached the agent: at, ids (of
                \* the batch), todo, keep, drop (ids of the lines it dropped)
    source,     \* source[s]: lines written and not yet read
    reader,     \* reader[s]: the goroutine of a source
    child,      \* the -exec process: at "none", "running" or "exited"; unread: the
                \* lines that were in its pipe when the agent closed it
    col,        \* Collector: queue, run, batch, cancelled; due: the ids it held then
    counter,    \* the Governor's per-span counter
    spent,      \* spans in the order the counter allowed them
    store,      \* lines saved, in order
    exported,   \* lines handed to the Dispatcher
    kept,       \* optictrace_app_logs_stored_total
    drops,      \* optictrace_app_logs_dropped_total, all reasons
    lost,       \* ids that left the agent with no count: the save failed, the post
                \* was refused (the properties' own tally)
    stage       \* cli.run: "up", then the shutdown steps

vars == <<app, sdk, posts, source, reader, child, col, counter, spent, store,
          exported, kept, drops, lost, stage>>

sdkVars == <<app, sdk>>
agentVars == <<posts, source, reader, child, col, counter, spent, store, exported,
               kept, drops, lost, stage>>
Stages == <<"up", "admin", "collector", "dispatcher", "stopped">>
Reached(s) == SelectInSeq(Stages, LAMBDA x : x = stage) >= SelectInSeq(Stages, LAMBDA x : x = s)
(* The line is written, once.                                              *)
Logged(l) == [todo |-> Tail(app.todo), written |-> app.written \cup {l}]

Alive == stage # "stopped"
Ids(lines) == {l.id : l \in Range(lines)}

Init ==
    /\ \E script \in Scripts : app = [todo |-> script, written |-> {}]
    /\ sdk = [queue |-> <<>>, closed |-> FALSE, run |-> "select", batch |-> <<>>,
              last |-> FALSE, sent |-> 0, failed |-> 0, dropped |-> 0, silent |-> 0]
    /\ posts = <<>>
    /\ source = [s \in Sources |-> <<>>]
    /\ reader = [s \in Sources |-> [at |-> "read", line |-> None]]
    /\ child = [at |-> IF "child" \in Sources THEN "running" ELSE "none", unread |-> <<>>]
    /\ col = [queue |-> <<>>, run |-> "select", batch |-> <<>>, last |-> FALSE,
              cancelled |-> FALSE, due |-> {}]
    /\ counter = EmptyCounter
    /\ spent = <<>>
    /\ store = <<>> /\ exported = {}
    /\ kept = 0 /\ drops = 0 /\ lost = {}
    /\ stage = "up"
-----------------------------------------------------------------------------
(* The SDK's sink                                                          *)

(* LogHandler.Handle.  A closed sink returns without counting the line;    *)
(* silent is the tally the code does not keep.                             *)
Handle(l) ==
    /\ l.way = "sdk"
    /\ app' = Logged(l)
    /\ sdk' = IF sdk.closed THEN [sdk EXCEPT !.silent = @ + 1]
              ELSE IF Len(sdk.queue) >= MaxQueue THEN [sdk EXCEPT !.dropped = @ + 1]
              ELSE [sdk EXCEPT !.queue = Append(@, l)]
    /\ UNCHANGED agentVars

CloseSink ==
    /\ ~sdk.closed
    /\ sdk' = [sdk EXCEPT !.closed = TRUE]
    /\ UNCHANGED <<app, agentVars>>

(* run's select: the ticker or, once closed, stop; either flushes, and     *)
(* stop is the last time.  An empty queue makes flush return at once.      *)
SinkWakes(stop) ==
    /\ sdk.run = "select"
    /\ stop => sdk.closed
    /\ ~stop => sdk.queue # <<>>
    /\ sdk' = [sdk EXCEPT !.queue = <<>>, !.batch = sdk.queue, !.last = stop,
                          !.run = IF sdk.queue # <<>> THEN "post" ELSE "exited"]
    /\ UNCHANGED <<app, agentVars>>

(* flush has its answer: count the batch and go back to the select.        *)
Settle(field) ==
    sdk' = [sdk EXCEPT ![field] = @ + Len(sdk.batch), !.batch = <<>>,
                       !.run = IF sdk.last THEN "exited" ELSE "select"]

NewPost(at, todo) ==
    [at |-> at, ids |-> Ids(sdk.batch), todo |-> todo, keep |-> <<>>, drop |-> {}]

(* The request reaches the agent while its admin server accepts.           *)
(* ingestAppLogs refuses a batch whole before it looks at a line: 501 with *)
(* logs off or a driver without them, 400 where the body is cut at its     *)
(* limit of bytes and does not decode, 413 above the limit of lines.  Bytes*)
(* are not modelled, so any batch may be refused; a long one is.           *)
PostArrives ==
    /\ sdk.run = "post" /\ ~Reached("admin")
    /\ \/ /\ posts' = Append(posts, NewPost("refused", <<>>))
          /\ lost' = lost \cup Ids(sdk.batch)
       \/ /\ Len(sdk.batch) <= MaxBatch
          /\ posts' = Append(posts, NewPost("admit", sdk.batch))
          /\ UNCHANGED lost
    /\ sdk' = [sdk EXCEPT !.run = "wait"]
    /\ UNCHANGED <<app, source, reader, child, col, counter, spent, store, exported,
                   kept, drops, stage>>

(* Mutant: any answer counts as delivered.                                 *)
AnyAnswerIsSuccess ==
    /\ sdk.run = "wait"
    /\ Last(posts).at \in {"accepted", "refused"}
    /\ Settle("sent")
    /\ UNCHANGED <<app, agentVars>>

(* The status line arrives: below 300 is sent, the rest is failed.         *)
AnswerArrives ==
    /\ sdk.run = "wait"
    /\ Last(posts).at \in {"accepted", "refused"}
    /\ Settle(IF Last(posts).at = "accepted" THEN "sent" ELSE "failed")
    /\ UNCHANGED <<app, agentVars>>

(* No connection, a broken one, or the client's timeout: a handler that    *)
(* has the request goes on.                                                *)
AnswerLost ==
    /\ sdk.run \in {"post", "wait"}
    /\ Settle("failed")
    /\ UNCHANGED <<app, agentVars>>
-----------------------------------------------------------------------------
(* admin.Server.ingestAppLogs                                              *)

PostVars == <<app, sdk, source, reader, child, col, stage>>

AdmitLine(p) ==
    /\ Alive /\ posts[p].at = "admit" /\ posts[p].todo # <<>>
    /\ LET l == Head(posts[p].todo) IN
       /\ posts' = [posts EXCEPT ![p].todo = Tail(@),
                                 ![p].keep = IF Admit(l, counter) = Kept THEN Append(@, Scrub(l)) ELSE @,
                                 ![p].drop = IF Admit(l, counter) = Kept THEN @ ELSE @ \cup {l.id}]
       /\ counter' = AfterAdmit(l, counter)
       /\ spent' = IF counter' # counter THEN Append(spent, l.span) ELSE spent
    /\ UNCHANGED <<PostVars, store, exported, kept, drops, lost>>

(* SaveAppLogs is skipped when nothing was kept.                           *)
SavePost(p) ==
    /\ Alive /\ posts[p].at = "admit" /\ posts[p].todo = <<>>
    /\ store' = store \o posts[p].keep
    /\ posts' = [posts EXCEPT ![p].at = "count"]
    /\ UNCHANGED <<PostVars, counter, spent, exported, kept, drops, lost>>

(* 503: the handler returns before it has counted anything, the lines the  *)
(* Governor dropped included.                                              *)
SavePostFails(p) ==
    /\ Alive /\ posts[p].at = "admit" /\ posts[p].todo = <<>> /\ posts[p].keep # <<>>
    /\ posts' = [posts EXCEPT ![p].at = "refused", ![p].keep = <<>>]
    /\ lost' = lost \cup Ids(posts[p].keep)
    /\ UNCHANGED <<PostVars, counter, spent, store, exported, kept, drops>>

(* Mutant: only the stored lines reach the counters.                       *)
CountKeptOnly(p) == kept' = kept + Len(posts[p].keep) /\ UNCHANGED drops

CountPost(p) ==
    /\ kept' = kept + Len(posts[p].keep)
    /\ drops' = drops + Cardinality(posts[p].drop)

(* Count, fan out to the Dispatcher, answer 202.                           *)
AcceptPost(p) ==
    /\ Alive /\ posts[p].at = "count"
    /\ CountPost(p)
    /\ exported' = exported \cup Range(posts[p].keep)
    /\ posts' = [posts EXCEPT ![p].at = "accepted"]
    /\ UNCHANGED <<PostVars, counter, spent, store, lost>>

(* A handler that outlives the admin server's ten seconds can find the     *)
(* Dispatcher's queues closed: the send panics, net/http recovers and the  *)
(* connection breaks.                                                      *)
FanOutPanics(p) ==
    /\ stage = "dispatcher" /\ posts[p].at = "count" /\ posts[p].keep # <<>>
    /\ CountPost(p)
    /\ posts' = [posts EXCEPT ![p].at = "broken"]
    /\ UNCHANGED <<PostVars, counter, spent, store, exported, lost>>
-----------------------------------------------------------------------------
(* The sources and applog.Collector                                        *)

ColVars == <<sdk, posts, stage>>

(* The application writes a line to its output or to a followed file.      *)
Write(l) ==
    /\ l.way \in Sources
    /\ l.way = "child" => child.at = "running"
    /\ app' = Logged(l)
    /\ source' = [source EXCEPT ![l.way] = Append(@, l)]
    /\ UNCHANGED <<ColVars, reader, child, col, counter, spent, store, exported, kept, drops, lost>>

(* The child exits; cmd.Wait sees it and closes the read ends of the       *)
(* pipes, and what the scanner has not yet buffered is gone.               *)
ChildExits ==
    /\ child.at = "running"
    /\ \E n \in 0..Len(source["child"]) :
           /\ source' = [source EXCEPT !["child"] = SubSeq(@, 1, n)]
           /\ child' = [at |-> "exited", unread |-> SubSeq(source["child"], n + 1, Len(source["child"]))]
    /\ UNCHANGED <<ColVars, app, reader, col, counter, spent, store, exported,
                   kept, drops, lost>>

(* Read or Tail takes the next line and submit passes it to the Governor.  *)
Submit(s) ==
    /\ Alive /\ reader[s].at = "read" /\ source[s] # <<>>
    /\ source' = [source EXCEPT ![s] = Tail(@)]
    /\ LET l == Head(source[s]) IN
       /\ IF Admit(l, counter) = Kept
          THEN /\ reader' = [reader EXCEPT ![s] = [at |-> "queue", line |-> Scrub(l)]]
               /\ UNCHANGED drops
          ELSE /\ drops' = drops + 1
               /\ UNCHANGED reader
       /\ counter' = AfterAdmit(l, counter)
       /\ spent' = IF counter' # counter THEN Append(spent, l.span) ELSE spent
    /\ UNCHANGED <<ColVars, app, child, col, store, exported, kept, lost>>

(* The second half of submit, under the collector's own lock.              *)
QueueLine(s) ==
    /\ Alive /\ reader[s].at = "queue"
    /\ IF Len(col.queue) >= QueueCap
       THEN drops' = drops + 1 /\ UNCHANGED col
       ELSE col' = [col EXCEPT !.queue = Append(@, reader[s].line)] /\ UNCHANGED drops
    /\ reader' = [reader EXCEPT ![s] = [at |-> "read", line |-> None]]
    /\ UNCHANGED <<ColVars, app, source, child, counter, spent, store, exported, kept, lost>>

(* The flusher's select: ticker, or ctx.Done for the last time.            *)
FlusherWakes(stop) ==
    /\ Alive /\ col.run = "select"
    /\ stop => col.cancelled
    /\ ~stop => col.queue # <<>>
    /\ col' = [col EXCEPT !.queue = <<>>, !.batch = col.queue, !.last = stop,
                          !.run = IF col.queue # <<>> THEN "save"
                                  ELSE IF stop THEN "exited" ELSE "select"]
    /\ UNCHANGED <<ColVars, app, source, reader, child, counter, spent, store, exported,
                   kept, drops, lost>>

AfterFlush == [col EXCEPT !.batch = <<>>, !.run = IF col.last THEN "exited" ELSE "select"]

(* flush: save, then count, then fan out, in the flusher's goroutine.      *)
SaveBatch ==
    /\ Alive /\ col.run = "save"
    /\ store' = store \o col.batch
    /\ col' = [col EXCEPT !.run = "keep"]
    /\ UNCHANGED <<ColVars, app, source, reader, child, counter, spent, exported, kept,
                   drops, lost>>

KeepBatch ==
    /\ Alive /\ col.run = "keep"
    /\ kept' = kept + Len(col.batch)
    /\ exported' = exported \cup Range(col.batch)
    /\ col' = AfterFlush
    /\ UNCHANGED <<ColVars, app, source, reader, child, counter, spent, store, drops, lost>>

(* A save that fails is logged; the batch is not counted anywhere.         *)
SaveBatchFails ==
    /\ Alive /\ col.run = "save"
    /\ col' = AfterFlush
    /\ lost' = lost \cup Ids(col.batch)
    /\ UNCHANGED <<ColVars, app, source, reader, child, counter, spent, store, exported,
                   kept, drops>>
-----------------------------------------------------------------------------
(* The end of cli.run                                                      *)

AgentVars == <<app, sdk, posts, source, reader, child, counter, spent, store, exported,
               kept, drops, lost>>

(* SIGTERM or the child's exit status, and the proxy's own Shutdown; the   *)
(* admin server stops accepting.                                           *)
StopAgent ==
    /\ stage = "up"
    /\ stage' = "admin"
    /\ UNCHANGED <<AgentVars, col>>

(* adminSrv.Shutdown returns when the handlers have or after ten seconds,  *)
(* whichever is first; then Close cancels the collector's context.         *)
AdminDown ==
    /\ stage = "admin"
    /\ stage' = "collector"
    /\ col' = [col EXCEPT !.cancelled = TRUE, !.due = Ids(col.queue) \cup Ids(col.batch)]
    /\ UNCHANGED AgentVars

(* Mutant: Close cancels without waiting for the flusher.                  *)
CollectorNotAwaited ==
    /\ stage = "collector"
    /\ "file" \notin Sources
    /\ stage' = "dispatcher"
    /\ UNCHANGED <<AgentVars, col>>

(* Close waits for the flusher and for every Tail goroutine.  Tail was     *)
(* given context.Background(), which is never done: it does not return.    *)
CollectorClosed ==
    /\ stage = "collector"
    /\ col.run = "exited"
    /\ "file" \notin Sources
    /\ stage' = "dispatcher"
    /\ UNCHANGED <<AgentVars, col>>

(* writer.Close and dispatcher.Shutdown have modules of their own.         *)
Stopped ==
    /\ stage = "dispatcher"
    /\ stage' = "stopped"
    /\ UNCHANGED <<AgentVars, col>>
-----------------------------------------------------------------------------
Next ==
    \/ app.todo # <<>> /\ (Handle(Head(app.todo)) \/ Write(Head(app.todo)))
    \/ CloseSink
    \/ \E stop \in BOOLEAN : SinkWakes(stop) \/ FlusherWakes(stop)
    \/ PostArrives \/ AnswerArrives \/ AnswerLost
    \/ \E p \in DOMAIN posts :
          AdmitLine(p) \/ SavePost(p) \/ SavePostFails(p)
          \/ AcceptPost(p) \/ FanOutPanics(p)
    \/ ChildExits
    \/ \E s \in Sources : Submit(s) \/ QueueLine(s)
    \/ SaveBatch \/ KeepBatch \/ SaveBatchFails
    \/ StopAgent \/ AdminDown \/ CollectorClosed \/ Stopped

Spec == Init /\ [][Next]_vars

(* The collector's goroutines are scheduled, its ticker fires, a save      *)
(* returns within its ten-second timeout, and the main goroutine walks     *)
(* through the shutdown.  Nothing is assumed of the application, of the    *)
(* SDK or of the network.                                                  *)
LiveSpec ==
    /\ Spec
    /\ \A s \in Sources : WF_vars(Submit(s)) /\ WF_vars(QueueLine(s))
    /\ \A stop \in BOOLEAN : SF_vars(FlusherWakes(stop))
    /\ WF_vars(SaveBatch \/ SaveBatchFails) /\ WF_vars(KeepBatch)
    /\ WF_vars(AdminDown) /\ WF_vars(CollectorClosed) /\ WF_vars(Stopped)
-----------------------------------------------------------------------------
AllIds == UNION {Ids(script) : script \in Scripts}

TypeOK ==
    /\ \E script \in Scripts : Range(app.todo) \cup app.written = Range(script)
    /\ sdk.run \in {"select", "post", "wait", "exited"} /\ Len(sdk.queue) <= MaxQueue
    /\ \A p \in DOMAIN posts :
          posts[p].at \in {"admit", "count", "accepted", "refused", "broken"}
    /\ child.at \in {"none", "running", "exited"}
    /\ col.run \in {"select", "save", "keep", "exited"} /\ Len(col.queue) <= QueueCap
    /\ Cardinality(DOMAIN counter.cur) <= MaxTracked
    /\ Cardinality(DOMAIN counter.prev) <= MaxTracked
    /\ lost \subseteq AllIds /\ kept \in Nat /\ drops \in Nat
    /\ stage \in Range(Stages)

(* The client's counters are honest.  Every line given to the sink is      *)
(* sent, failed, dropped, waiting, or came after Close, which the sink     *)
(* does not count (logSink: "Counters rather than silence"); the worker    *)
(* that Close waits for leaves nothing in the queue; and what is reported  *)
(* as sent has been dealt with by the agent, each line stored or dropped   *)
(* under a counted reason.                                                 *)
SinkHonest ==
    LET accepted == {p \in Range(posts) : p.at = "accepted"} IN
    /\ sdk.sent + sdk.failed + sdk.dropped + sdk.silent + Len(sdk.queue) + Len(sdk.batch)
           = Cardinality({l \in app.written : l.way = "sdk"})
    /\ sdk.run = "exited" => sdk.queue = <<>>
    /\ sdk.sent <= Cardinality(UNION {Ids(p.keep) \cup p.drop : p \in accepted})
    /\ \A p \in accepted : Range(p.keep) \subseteq Range(store)

Uncounted == {p \in Range(posts) : p.at \in {"admit", "count"}}

(* Lines inside the agent that no counter has yet.                         *)
InFlight ==
    Cardinality(UNION {Ids(p.todo) \cup Ids(p.keep) \cup p.drop : p \in Uncounted})
    + Cardinality({s \in Sources : reader[s].at = "queue"})
    + Len(col.queue) + Len(col.batch)

(* Lines the agent has taken in: read from a source, or posted.            *)
Entered ==
    Cardinality({l \in app.written : l.way # "sdk" /\ l \notin Range(source[l.way]) \cup Range(child.unread)})
    + Cardinality(UNION {p.ids : p \in Range(posts)})

(* The Governor's drops in a post that was refused for its save.           *)
UncountedDrops ==
    Cardinality(UNION {p.drop : p \in {p \in Range(posts) : p.at = "refused"}})

(* A line the agent has taken in is counted at most once, and the counters *)
(* and what is still on its way miss no line but those of a batch that was *)
(* refused or whose save failed: nothing is missing where no save failed   *)
(* and no post was refused, and whether those batches are counted (they    *)
(* are not today, see README) is not asked.  No line is stored twice,      *)
(* however flushes, client timeouts and shutdown overlap.                  *)
LinesBalance ==
    /\ TypeOK
    /\ kept + drops + InFlight <= Entered
    /\ Entered <= kept + drops + InFlight + Cardinality(lost) + UncountedDrops
    /\ \A i, j \in DOMAIN store : store[i].id = store[j].id => i = j

(* Nothing that the policy of the line's route covers is at rest or leaves *)
(* the agent, the rules' own patterns included, and an exporter never sees *)
(* a line the store rejected.  And within any stretch of admissions that   *)
(* touches at most MaxTracked spans, no span is given more than the global *)
(* cap, both ways in together: two generations forget only spans that      *)
(* MaxTracked others have displaced (applog.go scrub, telcap.go Allow).    *)
GovernedAndCapped ==
    /\ \A l \in Range(store) : \A k \in l.leaks : ~Covered(k, Resolve(l.route))
    /\ exported \subseteq Range(store)
    /\ Global.maxLines > 0 =>
          \A i, j \in DOMAIN spent :
              i <= j /\ Cardinality({spent[n] : n \in i..j}) <= MaxTracked =>
                  \A n \in i..j : Cardinality({m \in i..j : spent[m] = spent[n]}) <= Global.maxLines

(* "Close stops collection and drains what is queued".  Told to stop, the  *)
(* agent stops; what the collector held at that moment is stored, counted  *)
(* and fanned out before the Dispatcher is shut down, or was lost to a     *)
(* failed save; and until then a queued line is saved, lost to a failed    *)
(* save, or the flusher is gone.                                           *)
ShutdownDrains ==
    /\ stage = "admin" ~> stage = "stopped"
    /\ [](Reached("dispatcher") => col.due \subseteq lost \cup {l.id : l \in exported})
    /\ \A id \in AllIds :
          id \in Ids(col.queue) ~> (id \in lost \cup Ids(store) \/ col.run = "exited")
=============================================================================
