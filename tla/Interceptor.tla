---------------------------- MODULE Interceptor ----------------------------
(***************************************************************************)
(* proxy.Interceptor: one goroutine per request runs the closure of Wrap   *)
(* while SwapEngine may replace the engine and, in two further stores,     *)
(* what the engine needs to buffer.  The policy is resolved twice: from    *)
(* the request line before the upstream is called, and again afterwards    *)
(* when the body or the GraphQL operation has become known.                *)
(***************************************************************************)
EXTENDS Engine, FiniteSets

CONSTANTS
    Requests,      \* concurrent requests
    Kinds,         \* what a request can look like, see RequestKind
    Engines,       \* names of the engines a configuration compiles to
    EngineOf,      \* EngineOf[n]: the compiled engine, as in module Engine
    First,         \* the engine at startup
    GraphQLPaths,  \* service.graphql_paths
    BodyField      \* BodyField[f]: the JSON field the body criterion f reads

BodyFacts == DOMAIN BodyField

(* path; line and op: the facts its request line and its operation make    *)
(* true; bodyFacts: the body criteria its payload satisfies; fields: the   *)
(* JSON fields of its payload; body: "json", "plain" (JSON sent under      *)
(* another content type) or "cut" (unread, over the limit, not JSON).      *)
RequestKind(k) ==
    /\ DOMAIN k = {"path", "line", "op", "bodyFacts", "fields", "body"}
    /\ k.bodyFacts \subseteq BodyFacts
    /\ k.body \in {"json", "plain", "cut"}

ASSUME InterceptorAssumption ==
    /\ First \in Engines
    /\ \A k \in Kinds : RequestKind(k)

VARIABLES
    engine,       \* ic.engine
    bodyNeeds,    \* the engine whose BodyRulePaths are in ic.bodyPaths
    respNeeds,    \* the engine whose NeedsResponseBody is in ic.needsResp
    swap,         \* the next store of a SwapEngine in progress
    req,          \* req[r]: the local variables of the closure
    record,       \* record[r]: what emit handed to the sinks
    inflight,     \* the in-flight gauge
    streams       \* the open-streams gauge

swapVars == <<engine, bodyNeeds, respNeeds, swap>>
vars == <<swapVars, req, record, inflight, streams>>

Idle == [at |-> "idle"]
NoRecord == [emitted |-> FALSE]

Init ==
    /\ engine = First
    /\ bodyNeeds = First
    /\ respNeeds = First
    /\ swap = "none"
    /\ req = [r \in Requests |-> Idle]
    /\ record = [r \in Requests |-> NoRecord]
    /\ inflight = 0
    /\ streams = 0

Busy(r) == req[r].at \notin {"idle", "done", "panicked"}

(* The bookkeeping of this model: a request is steady while no store of a  *)
(* swap falls between its start and its end.                               *)
Unsteady == [r \in Requests |->
    IF Busy(r) THEN [req[r] EXCEPT !.steady = FALSE] ELSE req[r]]
-----------------------------------------------------------------------------
(* SwapEngine: three stores.  Callers hold the reload mutex.               *)

StoreEngine(n) ==
    /\ swap = "none" /\ n # engine
    /\ engine' = n
    /\ swap' = "paths"
    /\ req' = Unsteady
    /\ UNCHANGED <<bodyNeeds, respNeeds, record, inflight, streams>>

StoreBodyPaths ==
    /\ swap = "paths"
    /\ bodyNeeds' = engine
    /\ swap' = "resp"
    /\ req' = Unsteady
    /\ UNCHANGED <<engine, respNeeds, record, inflight, streams>>

StoreNeedsResp ==
    /\ swap = "resp"
    /\ respNeeds' = engine
    /\ swap' = "none"
    /\ req' = Unsteady
    /\ UNCHANGED <<engine, bodyNeeds, record, inflight, streams>>
-----------------------------------------------------------------------------
(* Wrap                                                                    *)

Draws(policy) == IF policy.sample = "all" THEN {TRUE}
                 ELSE IF policy.sample = "none" THEN {FALSE} ELSE BOOLEAN

(* Resolve the policy from the request line and make the sampling draw.    *)
Begin(r, k) ==
    /\ req[r] = Idle
    /\ LET p == Evaluate(EngineOf[engine], k.path, k.line) IN
       \E drew \in Draws(p) :
           req' = [req EXCEPT ![r] =
               [at |-> "evaluated", kind |-> k, first |-> p, started |-> engine,
                drew |-> drew, needBody |-> FALSE, reqBuf |-> FALSE, respBuf |-> FALSE,
                noted |-> FALSE, failed |-> FALSE, slow |-> FALSE,
                steady |-> swap = "none"]]
    /\ UNCHANGED <<swapVars, record, inflight, streams>>

IsGraphQL(path) == path \in GraphQLPaths

(* buffer && (policy.CaptureRequestBody || needBody)                       *)
BufferRequest(r, needBody) ==
    /\ req[r].drew \/ TailSampled(req[r].first) \/ needBody
    /\ "request_body" \in req[r].first.capture \/ needBody

(* Read the published body paths, count the request, tee its body.         *)
PrepareRequest(r) ==
    /\ req[r].at = "evaluated"
    /\ LET k == req[r].kind
           need == IsGraphQL(k.path)
                     \/ NeedsRequestBody(EngineOf[bodyNeeds], BodyFacts, k.path)
       IN  req' = [req EXCEPT ![r].at = "prepared", ![r].needBody = need,
                              ![r].reqBuf = BufferRequest(r, need)]
    /\ inflight' = inflight + 1
    /\ UNCHANGED <<swapVars, record, streams>>

(* Mutant: the needs of late rules are not among the reasons to buffer.    *)
BufferSampledResponse(q) ==
    \/ (q.drew \/ TailSampled(q.first)) /\ "response_body" \in q.first.capture
    \/ q.first.meters # {}
    \/ NeedsResponseBody(EngineOf[respNeeds])

(* (buffer && policy.CaptureResponseBody) || meters || the published need. *)
BufferResponse(q) ==
    \/ /\ q.drew \/ TailSampled(q.first) \/ q.needBody
       /\ "response_body" \in q.first.capture
    \/ q.first.meters # {}
    \/ NeedsResponseBody(EngineOf[respNeeds])

(* Wrap the response writer.                                               *)
PrepareResponse(r) ==
    /\ req[r].at = "prepared"
    /\ req' = [req EXCEPT ![r].at = "serving", ![r].respBuf = BufferResponse(req[r])]
    /\ UNCHANGED <<swapVars, record, inflight, streams>>

(* WriteHeader with an event-stream content type: onStream.                *)
OpenStream(r) ==
    /\ req[r].at = "serving" /\ ~req[r].noted
    /\ req' = [req EXCEPT ![r].noted = TRUE]
    /\ streams' = streams + 1
    /\ UNCHANGED <<swapVars, record, inflight>>

(* next.ServeHTTP returns; StreamClosed if the stream was counted.         *)
ServeReturns(r, failed, slow) ==
    /\ req[r].at = "serving"
    /\ req' = [req EXCEPT ![r].at = "served", ![r].failed = failed, ![r].slow = slow]
    /\ streams' = IF req[r].noted THEN streams - 1 ELSE streams
    /\ UNCHANGED <<swapVars, record, inflight>>

(* Mutant: InflightDec is an ordinary call after ServeHTTP.                *)
PanicSkipsInflight(r) ==
    /\ req[r].at = "serving"
    /\ req' = [req EXCEPT ![r].at = "panicked"]
    /\ UNCHANGED <<swapVars, record, streams, inflight>>

(* next.ServeHTTP panics (httputil aborts a response it cannot finish):    *)
(* only the deferred InflightDec runs.                                     *)
ServePanics(r) ==
    /\ req[r].at = "serving"
    /\ req' = [req EXCEPT ![r].at = "panicked"]
    /\ inflight' = inflight - 1
    /\ UNCHANGED <<swapVars, record, streams>>

(* The body as governedJSON leaves it under the first policy.              *)
GovernedFields(q) == q.kind.fields \ q.first.redact

BodyKnown(q) == q.needBody /\ q.reqBuf /\ q.kind.body = "json"

OperationKnown(q) ==
    /\ q.needBody /\ q.reqBuf /\ q.kind.body \in {"json", "plain"}
    /\ IsGraphQL(q.kind.path) /\ q.kind.op # {}

(* Everything known once the upstream has answered: a body criterion is    *)
(* decided on the governed body, so a field the first policy masked does   *)
(* not satisfy it (no criterion here is written to match the mask).        *)
LateFacts(q) ==
    q.kind.line \cup (IF OperationKnown(q) THEN q.kind.op ELSE {})
        \cup (IF BodyKnown(q)
              THEN {f \in q.kind.bodyFacts : BodyField[f] \notin q.first.redact}
              ELSE {})

(* Mutant: late-bound rules are ignored.                                   *)
FirstPolicy(q) == q.first

(* The second evaluation, under the engine of that moment.                 *)
FinalPolicy(q) ==
    IF OperationKnown(q) \/ BodyKnown(q)
    THEN Evaluate(EngineOf[engine], q.kind.path, LateFacts(q))
    ELSE q.first

(* renderBody: the fields of a JSON body that are stored unmasked; other   *)
(* payloads are summarised.                                                *)
RenderBody(q, p) == IF q.kind.body = "json" THEN q.kind.fields \ p.redact ELSE {}

(* The fields whose values json labels copy out of the governed body.      *)
LabelFields(q, p) ==
    IF BodyKnown(q)
    THEN {p.labels[n].field : n \in {n \in DOMAIN p.labels : p.labels[n].kind = "json"}}
            \cap GovernedFields(q)
    ELSE {}

(* Re-resolve the policy, decide retention, build the record and hand it   *)
(* to the sinks; then the deferred InflightDec.                            *)
Emit(r) ==
    /\ req[r].at = "served"
    /\ LET q == req[r]
           p == FinalPolicy(q)
           keep == KeepBody(p, q.drew, q.failed, q.slow)
       IN  record' = [record EXCEPT ![r] =
             [emitted |-> TRUE, policy |-> p,
              under |-> IF OperationKnown(q) \/ BodyKnown(q) THEN engine ELSE q.started,
              hasReq |-> keep /\ q.reqBuf,
              reqFields |-> IF keep /\ q.reqBuf THEN RenderBody(q, p) ELSE {},
              hasResp |-> keep /\ q.respBuf /\ "response_body" \in p.capture,
              metered |-> q.respBuf /\ p.meters # {},
              labelFields |-> LabelFields(q, p)]]
    /\ req' = [req EXCEPT ![r].at = "done"]
    /\ inflight' = inflight - 1
    /\ UNCHANGED <<swapVars, streams>>
-----------------------------------------------------------------------------
Next ==
    \/ \E n \in Engines : StoreEngine(n)
    \/ StoreBodyPaths \/ StoreNeedsResp
    \/ \E r \in Requests :
        \/ \E k \in Kinds : Begin(r, k)
        \/ PrepareRequest(r) \/ PrepareResponse(r)
        \/ OpenStream(r)
        \/ \E failed, slow \in BOOLEAN : ServeReturns(r, failed, slow)
        \/ ServePanics(r)
        \/ Emit(r)

Spec == Init /\ [][Next]_vars
-----------------------------------------------------------------------------
Places == {"idle", "evaluated", "prepared", "serving", "served", "done", "panicked"}

TypeOK ==
    /\ {engine, bodyNeeds, respNeeds} \subseteq Engines
    /\ swap \in {"none", "paths", "resp"}
    /\ \A r \in Requests : req[r].at \in Places
    /\ \A r \in Requests : record[r].emitted <=> req[r].at = "done"
    /\ inflight \in Nat
    /\ streams \in Nat

(* The full-information policy: one evaluation of the engine with          *)
(* everything the request can reveal, had it all been known at the start.  *)
IdealPolicy(q) ==
    Evaluate(EngineOf[q.started], q.kind.path,
             q.kind.line
             \cup (IF q.kind.body # "cut" /\ IsGraphQL(q.kind.path) THEN q.kind.op ELSE {})
             \cup (IF q.kind.body = "json"
                   THEN {f \in q.kind.bodyFacts : BodyField[f] \notin q.first.redact}
                   ELSE {}))

(* Late binding is complete: a request no swap interfered with is          *)
(* governed by the policy of one evaluation with full information, so a    *)
(* body or operation rule is never missed because nobody buffered the body *)
(* (proxy.go, needBody and the second EvaluateAttrs).                      *)
LateBindingComplete ==
    \A r \in Requests :
        record[r].emitted /\ req[r].steady => record[r].policy = IdealPolicy(req[r])

(* Re-resolving the policy never lifts what the first one forbade.  No     *)
(* field masked by the policy of the record is in its stored body and no   *)
(* restricted response is stored; and for an undisturbed request no field  *)
(* its first policy masked is stored or copied into a label, nor a         *)
(* response that policy restricted (proxy.go, emit and governedJSON).      *)
NeverLifted ==
    \A r \in Requests : record[r].emitted =>
        /\ record[r].reqFields \cap record[r].policy.redact = {}
        /\ record[r].hasResp => "response_body" \in record[r].policy.capture
        /\ req[r].steady =>
              /\ (record[r].reqFields \cup record[r].labelFields) \cap req[r].first.redact = {}
              /\ record[r].hasResp => "response_body" \in req[r].first.capture

(* Tail sampling decides with everything it needs: a server error under a  *)
(* keep_errors rule keeps both bodies that may be captured whatever the    *)
(* sampling draw said, even when only the payload revealed the rule        *)
(* (needBody makes buffer true before the response writer is wrapped), and *)
(* a route metered from its request line is metered even where its bodies  *)
(* are restricted or sampled out.                                          *)
ErrorsRescued ==
    \A r \in Requests : record[r].emitted /\ req[r].steady =>
        /\ req[r].failed /\ record[r].policy.keepErrors =>
              /\ "request_body" \in record[r].policy.capture => record[r].hasReq
              /\ "response_body" \in record[r].policy.capture => record[r].hasResp
        /\ req[r].first.meters # {} => record[r].metered

(* The in-flight gauge is exact, also when a handler panics, because its   *)
(* decrement is deferred.  The open-streams gauge ("Streaming responses    *)
(* currently open", metrics.go) misses no stream that is open and counts   *)
(* nothing else but, at most, streams whose handler panicked; it is exact  *)
(* as long as none did.                                                    *)
GaugesAccounted ==
    LET open(place) == {r \in Requests : req[r].at = place /\ req[r].noted} IN
    /\ TypeOK
    /\ inflight = Cardinality({r \in Requests :
                                 req[r].at \in {"prepared", "serving", "served"}})
    /\ Cardinality(open("serving")) <= streams
    /\ streams <= Cardinality(open("serving")) + Cardinality(open("panicked"))
-----------------------------------------------------------------------------
(* A statement of the repository that the code does not keep.              *)

(* proxy.go: "What gets STORED is still decided by policy": a request body *)
(* is in the record only if the policy of the record captures it.          *)
RestrictedRequestNotStored ==
    \A r \in Requests : record[r].emitted /\ record[r].hasReq =>
        "request_body" \in record[r].policy.capture
=============================================================================
