---------------------------- MODULE Proxy_proofs ----------------------------
(***************************************************************************)
(* What evaluating a request again with more facts can do to its policy,   *)
(* for every engine, and what the interceptor makes of it: late binding,   *)
(* masking, tail sampling and the gauges, for any number of requests and   *)
(* any swaps of the engine.  Then the side that swaps it: the agent's      *)
(* reload closure under its mutex, and what start-up may count on, for     *)
(* every set of documents, of edits and of concurrent reload requests.     *)
(***************************************************************************)
EXTENDS Interceptor, Agent, FiniteSetTheorems, TLAPS

(* More facts match more rules.                                            *)
LEMMA MoreMatch ==
    ASSUME NEW en, NEW path, NEW F, NEW G, F \subseteq G
    PROVE  Matched(en, path, F) \subseteq Matched(en, path, G)
BY DEF Matched, Matches

(* More rules close more channels and mask more fields.                    *)
LEMMA MoreRulesTighten ==
    ASSUME NEW en, NEW I, NEW J, I \subseteq J
    PROVE  /\ Captured(en, J) \subseteq Captured(en, I)
           /\ Redacted(en, I) \subseteq Redacted(en, J)
BY DEF Captured, Redacted

(* Knowing more about a request only tightens what is recorded of it: the  *)
(* second EvaluateAttrs of Interceptor.Wrap, with the facts of the first   *)
(* and more, opens no channel, lifts no redaction and loses no meter, for  *)
(* every engine and every order of its rules.                              *)
THEOREM MoreFactsTighten ==
    ASSUME NEW en, NEW path, NEW F, NEW G, F \subseteq G
    PROVE  /\ Evaluate(en, path, G).capture \subseteq Evaluate(en, path, F).capture
           /\ Evaluate(en, path, F).redact \subseteq Evaluate(en, path, G).redact
           /\ Evaluate(en, path, F).meters \subseteq Evaluate(en, path, G).meters
<1>1. Matched(en, path, F) \subseteq Matched(en, path, G)
    BY MoreMatch
<1>2. /\ Evaluate(en, path, G).capture \subseteq Evaluate(en, path, F).capture
      /\ Evaluate(en, path, F).redact \subseteq Evaluate(en, path, G).redact
    BY <1>1, MoreRulesTighten DEF Evaluate
<1>3. Evaluate(en, path, F).meters \subseteq Evaluate(en, path, G).meters
    BY <1>1 DEF Evaluate
<1>4. QED BY <1>2, <1>3

(* A second evaluation with no new facts changes nothing, so the           *)
(* interceptor may skip it when neither body nor operation became known.   *)
THEOREM SameFactsSamePolicy ==
    ASSUME NEW en, NEW path, NEW F, NEW G,
           \A i \in DOMAIN en.rules :
               path \in en.rules[i].routes => en.rules[i].when \cap (G \ F) = {},
           F \subseteq G
    PROVE  Evaluate(en, path, G) = Evaluate(en, path, F)
<1>1. Matched(en, path, G) = Matched(en, path, F)
    BY DEF Matched, Matches
<1>2. QED BY <1>1 DEF Evaluate
-----------------------------------------------------------------------------
(* The local variables of the closure once the policy is resolved.         *)
Policies == {Evaluate(EngineOf[n], k.path, k.line) : n \in Engines, k \in Kinds}

Going == [at : Places \ {"idle"}, kind : Kinds, first : Policies, started : Engines,
          drew : BOOLEAN, needBody : BOOLEAN, reqBuf : BOOLEAN, respBuf : BOOLEAN,
          noted : BOOLEAN, failed : BOOLEAN, slow : BOOLEAN, steady : BOOLEAN]

Shape ==
    /\ engine \in Engines /\ bodyNeeds \in Engines /\ respNeeds \in Engines
    /\ swap \in {"none", "paths", "resp"}
    /\ req \in [Requests -> {Idle} \cup Going]
    /\ DOMAIN record = Requests

(* The stores of a swap happen in this order.                              *)
Published ==
    /\ swap # "paths" => bodyNeeds = engine
    /\ swap = "none" => respNeeds = engine

(* Emit's policy and record, had the engine been n.                        *)
PolicyUnder(q, n) ==
    IF OperationKnown(q) \/ BodyKnown(q)
    THEN Evaluate(EngineOf[n], q.kind.path, LateFacts(q))
    ELSE q.first

Keep(q, n) == KeepBody(PolicyUnder(q, n), q.drew, q.failed, q.slow)

RecordOf(q, n) ==
    [emitted |-> TRUE, policy |-> PolicyUnder(q, n),
     under |-> IF OperationKnown(q) \/ BodyKnown(q) THEN n ELSE q.started,
     hasReq |-> Keep(q, n) /\ q.reqBuf,
     reqFields |-> IF Keep(q, n) /\ q.reqBuf THEN RenderBody(q, PolicyUnder(q, n)) ELSE {},
     hasResp |-> Keep(q, n) /\ q.respBuf /\ "response_body" \in PolicyUnder(q, n).capture,
     metered |-> q.respBuf /\ PolicyUnder(q, n).meters # {},
     labelFields |-> LabelFields(q, PolicyUnder(q, n))]

(* What the engine n asks to be buffered of request q.                     *)
NeedOf(q, n) ==
    IsGraphQL(q.kind.path) \/ NeedsRequestBody(EngineOf[n], BodyFacts, q.kind.path)

RequestBuffer(q) ==
    /\ q.drew \/ TailSampled(q.first) \/ q.needBody
    /\ "request_body" \in q.first.capture \/ q.needBody

ResponseBuffer(q, n) ==
    \/ /\ q.drew \/ TailSampled(q.first) \/ q.needBody
       /\ "response_body" \in q.first.capture
    \/ q.first.meters # {}
    \/ NeedsResponseBody(EngineOf[n])

(* What request q has gone through, step by step; steady, under the engine *)
(* it started with.                                                        *)
Progress(q) ==
    /\ q.first = Evaluate(EngineOf[q.started], q.kind.path, q.kind.line)
    /\ q.at \in {"evaluated", "prepared"} => ~q.noted
    /\ q.at \notin {"done", "panicked"} /\ q.steady => swap = "none" /\ engine = q.started
    /\ q.at \in {"prepared", "serving", "served", "done"} =>
          /\ q.steady => q.needBody = NeedOf(q, q.started)
          /\ q.reqBuf = RequestBuffer(q)
    /\ q.at \in {"serving", "served", "done"} /\ q.steady =>
          q.respBuf = ResponseBuffer(q, q.started)

(* The record was made under one engine; steady, under the first one.      *)
Made(r) ==
    IF req[r].at = "done"
    THEN \E n \in Engines :
            /\ req[r].steady => n = req[r].started
            /\ record[r] = RecordOf(req[r], n)
    ELSE record[r] = NoRecord

Flying(q) == q.at \in {"prepared", "serving", "served"}
Flowing(q) == q.at \in {"serving", "panicked"} /\ q.noted
InFlight == {r \in Requests : Flying(req[r])}
Streaming == {r \in Requests : Flowing(req[r])}

Gauges ==
    /\ IsFiniteSet(InFlight) /\ inflight = Cardinality(InFlight)
    /\ IsFiniteSet(Streaming) /\ streams = Cardinality(Streaming)

(* All but the gauges, and all.                                            *)
Requesting ==
    /\ Shape /\ Published
    /\ \A r \in Requests : req[r] # Idle => Progress(req[r])
    /\ \A r \in Requests : Made(r)

IInv == Requesting /\ Gauges

-----------------------------------------------------------------------------
(* The gauges                                                              *)

(* A finite set that gains, loses or keeps one element.                    *)
LEMMA CountOne ==
    ASSUME NEW S, IsFiniteSet(S), NEW T, NEW x, T \ {x} = S \ {x}
    PROVE  /\ IsFiniteSet(T) /\ Cardinality(S) \in Nat
           /\ (x \in T <=> x \in S) => Cardinality(T) = Cardinality(S)
           /\ x \in T /\ x \notin S => Cardinality(T) = Cardinality(S) + 1
           /\ x \notin T /\ x \in S => Cardinality(T) = Cardinality(S) - 1
<1>1. CASE x \in T <=> x \in S
    <2>1. T = S BY <1>1
    <2>2. QED BY <2>1, <1>1, FS_CardinalityType
<1>2. CASE x \in T /\ x \notin S
    <2>1. T = S \cup {x} BY <1>2
    <2>2. QED BY <2>1, <1>2, FS_AddElement, FS_CardinalityType
<1>3. CASE x \notin T /\ x \in S
    <2>1. T = S \ {x} BY <1>3
    <2>2. QED BY <2>1, <1>3, FS_RemoveElement, FS_CardinalityType
<1>4. QED BY <1>1, <1>2, <1>3

(* One request moves on: each gauge follows it.                            *)
LEMMA GaugesFollow ==
    ASSUME Shape, Gauges, NEW r \in Requests, NEW q,
           req' = [req EXCEPT ![r] = q],
           \/ inflight' = inflight /\ (Flying(q) <=> Flying(req[r]))
           \/ inflight' = inflight + 1 /\ Flying(q) /\ ~Flying(req[r])
           \/ inflight' = inflight - 1 /\ ~Flying(q) /\ Flying(req[r]),
           \/ streams' = streams /\ (Flowing(q) <=> Flowing(req[r]))
           \/ streams' = streams + 1 /\ Flowing(q) /\ ~Flowing(req[r])
           \/ streams' = streams - 1 /\ ~Flowing(q) /\ Flowing(req[r])
    PROVE  Gauges'
<1>1. req'[r] = q /\ \A s \in Requests \ {r} : req'[s] = req[s]
    BY DEF Shape
<1>2. /\ InFlight' \ {r} = InFlight \ {r}
      /\ r \in InFlight' <=> Flying(q)
      /\ r \in InFlight <=> Flying(req[r])
    BY <1>1 DEF InFlight
<1>3. /\ Streaming' \ {r} = Streaming \ {r}
      /\ r \in Streaming' <=> Flowing(q)
      /\ r \in Streaming <=> Flowing(req[r])
    BY <1>1 DEF Streaming
<1>4. IsFiniteSet(InFlight') /\ inflight' = Cardinality(InFlight')
    BY <1>2, CountOne DEF Gauges
<1>5. IsFiniteSet(Streaming') /\ streams' = Cardinality(Streaming')
    BY <1>3, CountOne DEF Gauges
<1>6. QED BY <1>4, <1>5 DEF Gauges
-----------------------------------------------------------------------------
(* The requests                                                            *)

(* Emit does not look at where the request is.                             *)
LEMMA RecordOfDone ==
    ASSUME NEW q \in Going, NEW n
    PROVE  RecordOf([q EXCEPT !.at = "done"], n) = RecordOf(q, n)
BY DEF Going, RecordOf, PolicyUnder, Keep, RenderBody, LabelFields, OperationKnown,
       BodyKnown, LateFacts, GovernedFields

(* One request moves on, and the others and the engine stay.               *)
LEMMA OneMoves ==
    ASSUME Requesting, NEW r \in Requests, NEW q \in Going,
           req' = [req EXCEPT ![r] = q], UNCHANGED swapVars,
           Progress(q),
           \/ record' = record /\ q.at # "done" /\ record[r] = NoRecord
           \/ /\ q.at = "done"
              /\ \E n \in Engines :
                    /\ q.steady => n = q.started
                    /\ record' = [record EXCEPT ![r] = RecordOf(q, n)]
    PROVE  Requesting'
<1>1. /\ req'[r] = q /\ \A s \in Requests \ {r} : req'[s] = req[s]
      /\ DOMAIN record' = Requests /\ \A s \in Requests \ {r} : record'[s] = record[s]
    BY DEF Requesting, Shape
<1>2. Shape' BY <1>1 DEF Requesting, Shape, swapVars
<1>3. Published' BY DEF Requesting, Published, swapVars
<1>4. ASSUME NEW s \in Requests, (req[s] # Idle)' PROVE Progress(req[s])'
    BY <1>1, <1>4 DEF Requesting, Progress, swapVars
<1>5. Made(r)'
    <2>1. CASE q.at # "done" BY <1>1, <2>1 DEF Made
    <2>2. CASE q.at = "done"
        <3>1. PICK n \in Engines : /\ q.steady => n = q.started
                                   /\ record' = [record EXCEPT ![r] = RecordOf(q, n)]
            BY <2>2
        <3>2. record'[r] = RecordOf(q, n) BY <3>1 DEF Requesting, Shape
        <3>3. QED BY <1>1, <2>2, <3>1, <3>2 DEF Made
    <2>3. QED BY <2>1, <2>2
<1>6. ASSUME NEW s \in Requests \ {r} PROVE Made(s)'
    BY <1>1 DEF Requesting, Made
<1>7. QED BY <1>2, <1>3, <1>4, <1>5, <1>6 DEF Requesting

(* A request that is somewhere has all its variables.                      *)
LEMMA OnTheWay ==
    ASSUME Requesting, NEW r \in Requests, req[r].at # "idle"
    PROVE  req[r] \in Going /\ Progress(req[r])
BY DEF Requesting, Shape, Idle

(* A request gets its first policy and its sampling draw.                  *)
LEMMA BeginSteps ==
    ASSUME IInv, NEW r \in Requests, NEW k \in Kinds, Begin(r, k)
    PROVE  IInv'
<1> DEFINE p == Evaluate(EngineOf[engine], k.path, k.line)
           Q(drew) == [at |-> "evaluated", kind |-> k, first |-> p, started |-> engine,
                       drew |-> drew, needBody |-> FALSE, reqBuf |-> FALSE, respBuf |-> FALSE,
                       noted |-> FALSE, failed |-> FALSE, slow |-> FALSE,
                       steady |-> swap = "none"]
<1>1. PICK drew \in Draws(p) : req' = [req EXCEPT ![r] = Q(drew)]
    BY DEF Begin
<1>2. drew \in BOOLEAN BY DEF Draws
<1>3. p \in Policies BY DEF IInv, Requesting, Shape, Policies
<1>4. (swap = "none") \in BOOLEAN OBVIOUS
<1> HIDE DEF p
<1>5. Q(drew) \in Going BY <1>2, <1>3, <1>4 DEF IInv, Requesting, Shape, Going, Places
<1>6. Progress(Q(drew)) BY DEF Progress, p
<1>7. /\ Q(drew).at = "evaluated" /\ req[r].at = "idle" /\ UNCHANGED swapVars
      /\ record' = record /\ inflight' = inflight /\ streams' = streams
    BY DEF Begin, Idle
<1>8. record[r] = NoRecord BY <1>7 DEF IInv, Requesting, Made
<1> HIDE DEF Q
<1>9. Requesting' BY <1>1, <1>5, <1>6, <1>7, <1>8, OneMoves DEF IInv
<1>10. Gauges' BY <1>1, <1>7, GaugesFollow DEF IInv, Requesting, Flying, Flowing
<1>11. QED BY <1>9, <1>10 DEF IInv

(* It is counted, and what its body is buffered for is settled.            *)
LEMMA PrepareRequestSteps ==
    ASSUME IInv, NEW r \in Requests, PrepareRequest(r)
    PROVE  IInv'
<1> DEFINE need == NeedOf(req[r], bodyNeeds)
           buf == BufferRequest(r, need)
           q == [req[r] EXCEPT !.at = "prepared", !.needBody = need, !.reqBuf = buf]
<1>1. /\ req[r].at = "evaluated" /\ UNCHANGED swapVars
      /\ record' = record /\ inflight' = inflight + 1 /\ streams' = streams
    BY DEF PrepareRequest
<1>2. req[r] \in Going /\ Progress(req[r]) BY <1>1, OnTheWay DEF IInv
<1>3. req' = [req EXCEPT ![r] = q]
    BY <1>2 DEF PrepareRequest, NeedOf, IInv, Requesting, Shape
<1>4. need \in BOOLEAN /\ buf \in BOOLEAN BY DEF NeedOf, BufferRequest
<1>5. q.steady /\ req[r].steady => need = NeedOf(req[r], req[r].started)
    BY <1>1, <1>2 DEF Progress, IInv, Requesting, Published
<1>6. buf = RequestBuffer(q)
    BY <1>2 DEF BufferRequest, RequestBuffer, Going
<1> HIDE DEF need, buf
<1>7. q \in Going BY <1>2, <1>4 DEF Going, Places
<1>8. /\ q.at = "prepared" /\ q.needBody = need /\ q.reqBuf = buf /\ q.steady = req[r].steady
      /\ q.first = req[r].first /\ q.kind = req[r].kind /\ q.started = req[r].started
      /\ q.noted = req[r].noted
    BY <1>2 DEF Going
<1>9. Progress(q) BY <1>1, <1>2, <1>5, <1>6, <1>8 DEF Progress, NeedOf
<1>10. record[r] = NoRecord BY <1>1 DEF IInv, Requesting, Made
<1> HIDE DEF q
<1>11. Requesting' BY <1>1, <1>3, <1>7, <1>8, <1>9, <1>10, OneMoves DEF IInv
<1>12. Gauges' BY <1>1, <1>3, <1>8, GaugesFollow DEF IInv, Requesting, Flying, Flowing
<1>13. QED BY <1>11, <1>12 DEF IInv

(* So it is for the response.                                              *)
LEMMA PrepareResponseSteps ==
    ASSUME IInv, NEW r \in Requests, PrepareResponse(r)
    PROVE  IInv'
<1> DEFINE buf == BufferResponse(req[r])
           q == [req[r] EXCEPT !.at = "serving", !.respBuf = buf]
<1>1. /\ req[r].at = "prepared" /\ UNCHANGED swapVars
      /\ record' = record /\ inflight' = inflight /\ streams' = streams
    BY DEF PrepareResponse
<1>2. req[r] \in Going /\ Progress(req[r]) BY <1>1, OnTheWay DEF IInv
<1>3. req' = [req EXCEPT ![r] = q]
    BY <1>2 DEF PrepareResponse, IInv, Requesting, Shape
<1>4. buf \in BOOLEAN BY DEF BufferResponse
<1>5. req[r].steady => buf = ResponseBuffer(req[r], req[r].started)
    BY <1>1, <1>2 DEF Progress, IInv, Requesting, Published, BufferResponse, ResponseBuffer
<1> HIDE DEF buf
<1>6. q \in Going BY <1>2, <1>4 DEF Going, Places
<1>7. /\ q.at = "serving" /\ q.needBody = req[r].needBody /\ q.reqBuf = req[r].reqBuf
      /\ q.respBuf = buf /\ q.steady = req[r].steady /\ q.drew = req[r].drew
      /\ q.first = req[r].first /\ q.kind = req[r].kind /\ q.started = req[r].started
      /\ q.noted = req[r].noted
    BY <1>2 DEF Going
<1> HIDE DEF q
<1>8. Progress(q)
    <2>1. ResponseBuffer(q, q.started) = ResponseBuffer(req[r], req[r].started)
        BY <1>7 DEF ResponseBuffer
    <2>2. RequestBuffer(q) = RequestBuffer(req[r]) BY <1>7 DEF RequestBuffer
    <2>3. NeedOf(q, q.started) = NeedOf(req[r], req[r].started) BY <1>7 DEF NeedOf
    <2>4. QED BY <1>1, <1>2, <1>5, <1>7, <2>1, <2>2, <2>3 DEF Progress
<1>9. record[r] = NoRecord BY <1>1 DEF IInv, Requesting, Made
<1>10. Requesting' BY <1>1, <1>3, <1>6, <1>7, <1>8, <1>9, OneMoves DEF IInv
<1>11. Gauges'
    BY <1>1, <1>2, <1>3, <1>7, GaugesFollow DEF IInv, Requesting, Progress, Flying, Flowing
<1>12. QED BY <1>10, <1>11 DEF IInv

(* The upstream answers, streams or panics.                                *)
LEMMA ServingSteps ==
    ASSUME IInv, NEW r \in Requests,
           \/ OpenStream(r)
           \/ \E failed, slow \in BOOLEAN : ServeReturns(r, failed, slow)
           \/ ServePanics(r)
    PROVE  IInv'
<1> DEFINE Kept(q) ==
               /\ q.needBody = req[r].needBody /\ q.reqBuf = req[r].reqBuf
               /\ q.respBuf = req[r].respBuf /\ q.steady = req[r].steady
               /\ q.drew = req[r].drew /\ q.first = req[r].first
               /\ q.kind = req[r].kind /\ q.started = req[r].started
<1>1. /\ req[r].at = "serving" /\ UNCHANGED swapVars /\ record' = record
    BY DEF OpenStream, ServeReturns, ServePanics
<1>2. req[r] \in Going /\ Progress(req[r]) BY <1>1, OnTheWay DEF IInv
<1>3. record[r] = NoRecord BY <1>1 DEF IInv, Requesting, Made
<1>4. ASSUME NEW q, Kept(q), q.at \in {"serving", "served", "panicked"} PROVE Progress(q)
    BY <1>1, <1>2, <1>4 DEF Progress, NeedOf, RequestBuffer, ResponseBuffer
<1>5. CASE OpenStream(r)
    <2> DEFINE q == [req[r] EXCEPT !.noted = TRUE]
    <2>1. req' = [req EXCEPT ![r] = q]
        BY <1>2, <1>5 DEF OpenStream, IInv, Requesting, Shape
    <2>2. q \in Going /\ q.at = "serving" /\ q.noted BY <1>1, <1>2 DEF Going
    <2>3. Kept(q) BY <1>2 DEF Going
    <2>4. inflight' = inflight /\ streams' = streams + 1 /\ ~req[r].noted
        BY <1>5 DEF OpenStream
    <2> HIDE DEF q, Kept
    <2>5. Progress(q) BY <1>4, <2>2, <2>3
    <2>6. Requesting' BY <1>1, <1>3, <2>1, <2>2, <2>5, OneMoves DEF IInv
    <2>7. Gauges' BY <1>1, <2>1, <2>2, <2>4, GaugesFollow DEF IInv, Requesting, Flying, Flowing
    <2>8. QED BY <2>6, <2>7 DEF IInv
<1>6. CASE \E failed, slow \in BOOLEAN : ServeReturns(r, failed, slow)
    <2>1. PICK failed \in BOOLEAN, slow \in BOOLEAN : ServeReturns(r, failed, slow) BY <1>6
    <2> DEFINE q == [req[r] EXCEPT !.at = "served", !.failed = failed, !.slow = slow]
    <2>2. req' = [req EXCEPT ![r] = q]
        BY <1>2, <2>1 DEF ServeReturns, IInv, Requesting, Shape
    <2>3. q \in Going /\ q.at = "served" /\ q.noted = req[r].noted
        BY <1>2 DEF Going, Places
    <2>4. Kept(q) BY <1>2 DEF Going
    <2>5. /\ inflight' = inflight
          /\ streams' = IF req[r].noted THEN streams - 1 ELSE streams
        BY <2>1 DEF ServeReturns
    <2> HIDE DEF q, Kept
    <2>6. Progress(q) BY <1>4, <2>3, <2>4
    <2>7. Requesting' BY <1>1, <1>3, <2>2, <2>3, <2>6, OneMoves DEF IInv
    <2>8. Gauges' BY <1>1, <2>2, <2>3, <2>5, GaugesFollow DEF IInv, Requesting, Flying, Flowing
    <2>9. QED BY <2>7, <2>8 DEF IInv
<1>7. CASE ServePanics(r)
    <2> DEFINE q == [req[r] EXCEPT !.at = "panicked"]
    <2>1. req' = [req EXCEPT ![r] = q]
        BY <1>2, <1>7 DEF ServePanics, IInv, Requesting, Shape
    <2>2. q \in Going /\ q.at = "panicked" /\ q.noted = req[r].noted
        BY <1>2 DEF Going, Places
    <2>3. Kept(q) BY <1>2 DEF Going
    <2>4. inflight' = inflight - 1 /\ streams' = streams BY <1>7 DEF ServePanics
    <2> HIDE DEF q, Kept
    <2>5. Progress(q) BY <1>4, <2>2, <2>3
    <2>6. Requesting' BY <1>1, <1>3, <2>1, <2>2, <2>5, OneMoves DEF IInv
    <2>7. Gauges' BY <1>1, <2>1, <2>2, <2>4, GaugesFollow DEF IInv, Requesting, Flying, Flowing
    <2>8. QED BY <2>6, <2>7 DEF IInv
<1>8. QED BY <1>5, <1>6, <1>7

(* The record is made under the engine of that moment.                     *)
LEMMA EmitSteps ==
    ASSUME IInv, NEW r \in Requests, Emit(r)
    PROVE  IInv'
<1> DEFINE q == [req[r] EXCEPT !.at = "done"]
<1>1. /\ req[r].at = "served" /\ UNCHANGED swapVars
      /\ inflight' = inflight - 1 /\ streams' = streams
    BY DEF Emit
<1>2. req[r] \in Going /\ Progress(req[r]) BY <1>1, OnTheWay DEF IInv
<1>3. req' = [req EXCEPT ![r] = q]
    BY <1>2 DEF Emit, IInv, Requesting, Shape
<1>4. FinalPolicy(req[r]) = PolicyUnder(req[r], engine) BY DEF FinalPolicy, PolicyUnder
<1>5. record' = [record EXCEPT ![r] = RecordOf(req[r], engine)]
    BY <1>4 DEF Emit, RecordOf, Keep
<1>6. RecordOf(req[r], engine) = RecordOf(q, engine) BY <1>2, RecordOfDone
<1>7. /\ q \in Going /\ q.at = "done" /\ q.needBody = req[r].needBody
      /\ q.reqBuf = req[r].reqBuf /\ q.respBuf = req[r].respBuf
      /\ q.steady = req[r].steady /\ q.drew = req[r].drew /\ q.first = req[r].first
      /\ q.kind = req[r].kind /\ q.started = req[r].started
    BY <1>2 DEF Going, Places
<1> HIDE DEF q
<1>8. Progress(q)
    BY <1>1, <1>2, <1>7 DEF Progress, NeedOf, RequestBuffer, ResponseBuffer
<1>9. engine \in Engines /\ (q.steady => engine = q.started)
    BY <1>1, <1>2, <1>7 DEF Progress, IInv, Requesting, Shape
<1>10. Requesting' BY <1>1, <1>3, <1>5, <1>6, <1>7, <1>8, <1>9, OneMoves DEF IInv
<1>11. Gauges' BY <1>1, <1>3, <1>7, GaugesFollow DEF IInv, Requesting, Flying, Flowing
<1>12. QED BY <1>10, <1>11 DEF IInv

(* A store of a swap: every request in progress is no longer steady.       *)
LEMMA SwapSteps ==
    ASSUME IInv, (\E n \in Engines : StoreEngine(n)) \/ StoreBodyPaths \/ StoreNeedsResp
    PROVE  IInv'
<1>1. /\ req' = Unsteady /\ record' = record /\ inflight' = inflight /\ streams' = streams
    BY DEF StoreEngine, StoreBodyPaths, StoreNeedsResp
<1>2. /\ engine' \in Engines /\ bodyNeeds' \in Engines /\ respNeeds' \in Engines
      /\ swap' \in {"none", "paths", "resp"} /\ Published'
    BY DEF StoreEngine, StoreBodyPaths, StoreNeedsResp, IInv, Requesting, Shape, Published
<1>3. ASSUME NEW r \in Requests, ~Busy(r) PROVE req'[r] = req[r]
    BY <1>1, <1>3 DEF Unsteady
<1>4. ASSUME NEW r \in Requests, Busy(r)
      PROVE  req'[r] = [req[r] EXCEPT !.steady = FALSE]
    BY <1>1, <1>4 DEF Unsteady
<1>5. ASSUME NEW r \in Requests, Busy(r)
      PROVE  /\ req[r] \in Going /\ req'[r] \in Going
             /\ req'[r].at = req[r].at /\ req'[r].noted = req[r].noted
             /\ req[r].at # "done" /\ Progress(req[r])'
    <2>1. req[r] \in Going /\ Progress(req[r]) BY <1>5, OnTheWay DEF Busy, IInv
    <2> DEFINE q == [req[r] EXCEPT !.steady = FALSE]
    <2>2. /\ q \in Going /\ q.at = req[r].at /\ q.noted = req[r].noted /\ ~q.steady
          /\ q.needBody = req[r].needBody /\ q.reqBuf = req[r].reqBuf
          /\ q.drew = req[r].drew /\ q.first = req[r].first
          /\ q.kind = req[r].kind /\ q.started = req[r].started
        BY <2>1 DEF Going
    <2>3. req'[r] = q BY <1>4, <1>5
    <2> HIDE DEF q
    <2>4. RequestBuffer(q) = RequestBuffer(req[r]) BY <2>2 DEF RequestBuffer
    <2>5. Progress(req[r])' BY <2>1, <2>2, <2>3, <2>4 DEF Progress
    <2>6. QED BY <1>5, <2>1, <2>2, <2>3, <2>5 DEF Busy
<1>6. ASSUME NEW r \in Requests PROVE req'[r] \in {Idle} \cup Going
    BY <1>3, <1>5 DEF IInv, Requesting, Shape
<1>7. Shape' BY <1>1, <1>2, <1>6 DEF IInv, Requesting, Shape, Unsteady
<1>8. ASSUME NEW r \in Requests, (req[r] # Idle)' PROVE Progress(req[r])'
    <2>1. CASE Busy(r) BY <1>5, <2>1
    <2>2. CASE ~Busy(r)
        <3>1. req'[r] = req[r] /\ Progress(req[r]) BY <1>3, <1>8, <2>2 DEF IInv, Requesting
        <3>2. req[r].at \in {"done", "panicked"}
            BY <1>8, <2>2, <3>1 DEF Busy, IInv, Requesting, Shape, Going, Places
        <3>3. QED BY <3>1, <3>2 DEF Progress
    <2>3. QED BY <2>1, <2>2
<1>9. ASSUME NEW r \in Requests PROVE Made(r)'
    <2>1. Made(r) BY DEF IInv, Requesting
    <2>2. CASE Busy(r) BY <1>1, <1>5, <2>1, <2>2 DEF Made
    <2>3. CASE ~Busy(r) BY <1>1, <1>3, <2>1, <2>3 DEF Made
    <2>4. QED BY <2>2, <2>3
<1>10. InFlight' = InFlight /\ Streaming' = Streaming
    BY <1>3, <1>5 DEF InFlight, Streaming, Flying, Flowing
<1>11. QED BY <1>1, <1>2, <1>7, <1>8, <1>9, <1>10 DEF IInv, Requesting, Gauges

(* Nothing has begun, and nothing is counted.                              *)
LEMMA InitHolds == Init => IInv
<1> SUFFICES ASSUME Init PROVE IInv OBVIOUS
<1>1. \A r \in Requests : req[r] = Idle /\ record[r] = NoRecord /\ req[r].at = "idle"
    BY DEF Init, Idle
<1>2. Shape BY InterceptorAssumption DEF Init, Shape
<1>3. Published BY DEF Init, Published
<1>4. InFlight = {} /\ Streaming = {} BY <1>1 DEF InFlight, Streaming, Flying, Flowing
<1>5. Gauges BY <1>4, FS_EmptySet DEF Gauges, Init
<1>6. QED BY <1>1, <1>2, <1>3, <1>5 DEF IInv, Requesting, Made

(* The inductive invariant holds.                                          *)
LEMMA InvHolds == Spec => []IInv
<1>1. IInv /\ [Next]_vars => IInv'
    <2> SUFFICES ASSUME IInv, [Next]_vars PROVE IInv' OBVIOUS
    <2>1. CASE (\E n \in Engines : StoreEngine(n)) \/ StoreBodyPaths \/ StoreNeedsResp
        BY <2>1, SwapSteps
    <2>2. ASSUME NEW r \in Requests,
                 \/ \E k \in Kinds : Begin(r, k)
                 \/ PrepareRequest(r) \/ PrepareResponse(r)
                 \/ OpenStream(r) \/ (\E failed, slow \in BOOLEAN : ServeReturns(r, failed, slow))
                 \/ ServePanics(r) \/ Emit(r)
          PROVE  IInv'
        BY <2>2, BeginSteps, PrepareRequestSteps, PrepareResponseSteps, ServingSteps, EmitSteps
    <2>3. CASE UNCHANGED vars
        BY <2>3 DEF IInv, Requesting, Gauges, Shape, Published, Made, Progress, InFlight,
                    Streaming, vars, swapVars
    <2>4. QED BY <2>1, <2>2, <2>3 DEF Next
<1>2. QED BY <1>1, InitHolds, PTL DEF Spec
-----------------------------------------------------------------------------
(* What a finished request shows                                           *)

(* What the properties read of a record.                                   *)
LEMMA RecordParts ==
    ASSUME NEW q, NEW n
    PROVE  LET p == PolicyUnder(q, n)
           IN  /\ RecordOf(q, n).policy = p
               /\ RecordOf(q, n).reqFields
                    = IF Keep(q, n) /\ q.reqBuf THEN RenderBody(q, p) ELSE {}
               /\ RecordOf(q, n).labelFields = LabelFields(q, p)
               /\ RecordOf(q, n).hasReq = (Keep(q, n) /\ q.reqBuf)
               /\ RecordOf(q, n).hasResp
                    = (Keep(q, n) /\ q.respBuf /\ "response_body" \in p.capture)
               /\ RecordOf(q, n).metered = (q.respBuf /\ p.meters # {})
<1> DEFINE p == PolicyUnder(q, n)
           a == IF OperationKnown(q) \/ BodyKnown(q) THEN n ELSE q.started
           b == Keep(q, n) /\ q.reqBuf
           c == IF Keep(q, n) /\ q.reqBuf THEN RenderBody(q, p) ELSE {}
           d == Keep(q, n) /\ q.respBuf /\ "response_body" \in p.capture
           e == q.respBuf /\ p.meters # {}
           f == LabelFields(q, p)
<1>1. RecordOf(q, n) = [emitted |-> TRUE, policy |-> p, under |-> a, hasReq |-> b,
                        reqFields |-> c, hasResp |-> d, metered |-> e, labelFields |-> f]
    BY Zenon DEF RecordOf
<1> HIDE DEF a, b, c, d, e, f
<1>2. /\ RecordOf(q, n).policy = p /\ RecordOf(q, n).reqFields = c
      /\ RecordOf(q, n).labelFields = f /\ RecordOf(q, n).hasReq = b
      /\ RecordOf(q, n).hasResp = d /\ RecordOf(q, n).metered = e
    BY <1>1
<1>3. QED BY <1>2, Zenon DEF b, c, d, e, f

(* The facts of the second evaluation include those of the first, so under *)
(* the same engine its policy is no looser.                                *)
LEMMA LaterIsTighter ==
    ASSUME IInv, NEW r \in Requests, req[r].at = "done", req[r].steady
    PROVE  /\ record[r] = RecordOf(req[r], req[r].started)
           /\ LET p == PolicyUnder(req[r], req[r].started)
              IN  /\ p.capture \subseteq req[r].first.capture
                  /\ req[r].first.redact \subseteq p.redact
                  /\ req[r].first.meters \subseteq p.meters
<1>1. record[r] = RecordOf(req[r], req[r].started) BY DEF IInv, Requesting, Made
<1>2. Progress(req[r]) BY OnTheWay DEF IInv
<1>3. req[r].kind.line \subseteq LateFacts(req[r]) BY DEF LateFacts
<1>4. QED BY <1>1, <1>2, <1>3, MoreFactsTighten DEF Progress, PolicyUnder

(* The in-flight gauge counts the requests that have been counted and have *)
(* not left, also through a panic, for its decrement is deferred; the      *)
(* open-streams gauge misses no open stream and counts besides, at most,   *)
(* streams whose handler panicked (proxy.go, Wrap).                        *)
THEOREM GaugesCorrect == Spec => []GaugesAccounted
<1>1. IInv => GaugesAccounted
    <2> SUFFICES ASSUME IInv PROVE GaugesAccounted OBVIOUS
    <2>1. \A r \in Requests : req[r].at \in Places
        BY DEF IInv, Requesting, Shape, Idle, Going, Places
    <2>2. \A r \in Requests : record[r].emitted <=> req[r].at = "done"
        <3> SUFFICES ASSUME NEW r \in Requests PROVE record[r].emitted <=> req[r].at = "done"
            OBVIOUS
        <3>1. CASE req[r].at # "done"
            BY <3>1 DEF IInv, Requesting, Made, NoRecord
        <3>2. CASE req[r].at = "done"
            <4>1. PICK n \in Engines : record[r] = RecordOf(req[r], n)
                BY <3>2 DEF IInv, Requesting, Made
            <4>2. RecordOf(req[r], n).emitted = TRUE BY DEF RecordOf
            <4>3. QED BY <3>2, <4>1, <4>2
        <3>3. QED BY <3>1, <3>2
    <2>3. inflight \in Nat /\ streams \in Nat
        BY FS_CardinalityType DEF IInv, Gauges
    <2>4. TypeOK BY <2>1, <2>2, <2>3 DEF TypeOK, IInv, Requesting, Shape
    <2> DEFINE open(place) == {r \in Requests : req[r].at = place /\ req[r].noted}
    <2>5. Streaming = open("serving") \cup open("panicked") BY DEF Streaming, Flowing
    <2>6. /\ IsFiniteSet(Streaming) /\ streams = Cardinality(Streaming)
          /\ inflight = Cardinality(InFlight)
        BY DEF IInv, Gauges
    <2> HIDE DEF open
    <2>7. /\ IsFiniteSet(open("serving")) /\ IsFiniteSet(open("panicked"))
          /\ IsFiniteSet(open("serving") \cap open("panicked"))
          /\ Cardinality(open("serving")) <= Cardinality(Streaming)
        BY <2>5, <2>6, FS_Subset
    <2>8. Cardinality(Streaming) = Cardinality(open("serving")) + Cardinality(open("panicked"))
                                   - Cardinality(open("serving") \cap open("panicked"))
        BY <2>5, <2>7, FS_Union
    <2>9. /\ Cardinality(open("serving")) \in Nat /\ Cardinality(open("panicked")) \in Nat
          /\ Cardinality(open("serving") \cap open("panicked")) \in Nat
        BY <2>7, FS_CardinalityType
    <2>10. /\ Cardinality(open("serving")) <= streams
           /\ streams <= Cardinality(open("serving")) + Cardinality(open("panicked"))
        BY <2>6, <2>7, <2>8, <2>9
    <2>11. InFlight = {r \in Requests : req[r].at \in {"prepared", "serving", "served"}}
        BY DEF InFlight, Flying
    <2>12. QED BY <2>4, <2>6, <2>10, <2>11 DEF GaugesAccounted, open
<1>2. QED BY <1>1, InvHolds, PTL

(* Resolving the policy a second time never lifts what it forbade: a field *)
(* masked by the policy of the record is not in its stored body, and for   *)
(* an undisturbed request neither is one that the first policy masked      *)
(* stored or copied into a label, nor a response that it restricted        *)
(* (proxy.go, emit and governedJSON).                                      *)
THEOREM MaskingCorrect == Spec => []NeverLifted
<1>1. IInv => NeverLifted
    <2> SUFFICES ASSUME IInv, NEW r \in Requests, record[r].emitted
                 PROVE  /\ record[r].reqFields \cap record[r].policy.redact = {}
                        /\ record[r].hasResp => "response_body" \in record[r].policy.capture
                        /\ req[r].steady =>
                              /\ (record[r].reqFields \cup record[r].labelFields)
                                    \cap req[r].first.redact = {}
                              /\ record[r].hasResp => "response_body" \in req[r].first.capture
        BY DEF NeverLifted
    <2>1. req[r].at = "done" BY DEF IInv, Requesting, Made, NoRecord
    <2>2. PICK n \in Engines : record[r] = RecordOf(req[r], n)
        BY <2>1 DEF IInv, Requesting, Made
    <2> DEFINE p == PolicyUnder(req[r], n)
    <2>3. /\ record[r].policy = p
          /\ record[r].reqFields
               = IF Keep(req[r], n) /\ req[r].reqBuf THEN RenderBody(req[r], p) ELSE {}
          /\ record[r].labelFields = LabelFields(req[r], p)
          /\ record[r].hasResp
               = (Keep(req[r], n) /\ req[r].respBuf /\ "response_body" \in p.capture)
        BY <2>2, RecordParts
    <2> HIDE DEF p
    <2>4. /\ record[r].reqFields \cap record[r].policy.redact = {}
          /\ record[r].hasResp => "response_body" \in record[r].policy.capture
        BY <2>3 DEF RenderBody
    <2>5. ASSUME req[r].steady
          PROVE  /\ (record[r].reqFields \cup record[r].labelFields)
                       \cap req[r].first.redact = {}
                 /\ record[r].hasResp => "response_body" \in req[r].first.capture
        <3>1. /\ record[r].policy.capture \subseteq req[r].first.capture
              /\ req[r].first.redact \subseteq record[r].policy.redact
              /\ record[r] = RecordOf(req[r], req[r].started)
            BY <2>1, <2>5, LaterIsTighter, RecordParts
        <3>2. record[r].labelFields \cap req[r].first.redact = {}
            BY <2>3 DEF LabelFields, GovernedFields
        <3>3. QED BY <2>4, <3>1, <3>2
    <2>6. QED BY <2>4, <2>5
<1>2. QED BY <1>1, InvHolds, PTL

(* What tail sampling needs is buffered in time: a server error under a    *)
(* keep_errors rule keeps both bodies that may be captured, also when only *)
(* the payload revealed the rule, and a route metered from its request     *)
(* line is metered (proxy.go, Wrap and emit).                              *)
THEOREM TailSamplingCorrect == Spec => []ErrorsRescued
<1>1. IInv => ErrorsRescued
    <2> SUFFICES ASSUME IInv, NEW r \in Requests, record[r].emitted, req[r].steady
                 PROVE  /\ req[r].failed /\ record[r].policy.keepErrors =>
                              /\ "request_body" \in record[r].policy.capture => record[r].hasReq
                              /\ "response_body" \in record[r].policy.capture => record[r].hasResp
                        /\ req[r].first.meters # {} => record[r].metered
        BY DEF ErrorsRescued
    <2> DEFINE q == req[r]
               p == PolicyUnder(q, q.started)
    <2>1. q.at = "done" BY DEF IInv, Requesting, Made, NoRecord
    <2>2. /\ record[r] = RecordOf(q, q.started)
          /\ p.capture \subseteq q.first.capture /\ q.first.meters \subseteq p.meters
        BY <2>1, LaterIsTighter
    <2>3. /\ q.reqBuf = RequestBuffer(q) /\ q.respBuf = ResponseBuffer(q, q.started)
          /\ q \in Going
        BY <2>1, OnTheWay DEF IInv, Progress
    <2>4. /\ record[r].policy = p
          /\ record[r].hasReq = (Keep(q, q.started) /\ q.reqBuf)
          /\ record[r].hasResp = (Keep(q, q.started) /\ q.respBuf /\ "response_body" \in p.capture)
          /\ record[r].metered = (q.respBuf /\ p.meters # {})
        BY <2>2, RecordParts
    <2>5. ~q.needBody => p = q.first
        BY DEF PolicyUnder, OperationKnown, BodyKnown
    <2>6. q.failed /\ p.keepErrors => Keep(q, q.started)
        BY DEF Keep, KeepBody
    <2>7. p.keepErrors => TailSampled(q.first) \/ q.needBody
        BY <2>5 DEF TailSampled
    <2> HIDE DEF p, q
    <2>8. p.keepErrors /\ "request_body" \in p.capture => q.reqBuf
        BY <2>2, <2>3, <2>7 DEF RequestBuffer
    <2>9. p.keepErrors /\ "response_body" \in p.capture => q.respBuf
        BY <2>2, <2>3, <2>7 DEF ResponseBuffer
    <2>10. q.first.meters # {} => q.respBuf /\ p.meters # {}
        BY <2>2, <2>3 DEF ResponseBuffer
    <2>11. QED BY <2>4, <2>6, <2>8, <2>9, <2>10 DEF q
<1>2. QED BY <1>1, InvHolds, PTL

(* Late binding is complete: a request that no swap interfered with is     *)
(* governed by the policy of one evaluation with full information, for     *)
(* what the interceptor does not buffer no rule of the path reads          *)
(* (proxy.go, needBody and the second EvaluateAttrs).                      *)
THEOREM LateBindingCorrect == Spec => []LateBindingComplete
<1>1. IInv => LateBindingComplete
    <2> SUFFICES ASSUME IInv, NEW r \in Requests, record[r].emitted, req[r].steady
                 PROVE  record[r].policy = IdealPolicy(req[r])
        BY DEF LateBindingComplete
    <2> DEFINE q == req[r]
               en == EngineOf[q.started]
               facts == q.kind.line
                        \cup (IF q.kind.body # "cut" /\ IsGraphQL(q.kind.path)
                              THEN q.kind.op ELSE {})
                        \cup (IF q.kind.body = "json"
                              THEN {f \in q.kind.bodyFacts : BodyField[f] \notin q.first.redact}
                              ELSE {})
    <2>1. q.at = "done" BY DEF IInv, Requesting, Made, NoRecord
    <2>2. record[r].policy = PolicyUnder(q, q.started)
        BY <2>1, LaterIsTighter, RecordParts
    <2>3. /\ q.needBody = NeedOf(q, q.started) /\ q.reqBuf = RequestBuffer(q)
          /\ q.first = Evaluate(en, q.kind.path, q.kind.line)
          /\ q \in Going
        BY <2>1, OnTheWay DEF IInv, Progress
    <2>4. RequestKind(q.kind) BY <2>3, InterceptorAssumption DEF Going
    <2>5. IdealPolicy(q) = Evaluate(en, q.kind.path, facts) BY DEF IdealPolicy
    <2>6. CASE q.needBody
        <3>1. q.reqBuf BY <2>3, <2>6 DEF RequestBuffer
        <3>2. LateFacts(q) = facts
            BY <2>4, <2>6, <3>1 DEF LateFacts, OperationKnown, BodyKnown, RequestKind
        <3>3. ~OperationKnown(q) /\ ~BodyKnown(q) => facts = q.kind.line
            BY <3>2 DEF LateFacts
        <3>4. QED BY <2>2, <2>3, <2>5, <3>2, <3>3 DEF PolicyUnder
    <2>7. CASE ~q.needBody
        <3>1. ~IsGraphQL(q.kind.path) /\ ~NeedsRequestBody(en, BodyFacts, q.kind.path)
            BY <2>3, <2>7 DEF NeedOf
        <3>2. facts \ q.kind.line \subseteq BodyFacts
            BY <2>4, <3>1 DEF RequestKind
        <3>3. \A i \in DOMAIN en.rules :
                 q.kind.path \in en.rules[i].routes => en.rules[i].when \cap BodyFacts = {}
            BY <3>1 DEF NeedsRequestBody
        <3>4. PolicyUnder(q, q.started) = q.first
            BY <2>7 DEF PolicyUnder, OperationKnown, BodyKnown
        <3> DEFINE line == q.kind.line
                   path == q.kind.path
        <3>5. line \subseteq facts OBVIOUS
        <3> HIDE DEF facts, en, line, path
        <3>6. Evaluate(en, path, facts) = Evaluate(en, path, line)
            BY <3>2, <3>3, <3>5, SameFactsSamePolicy DEF line, path
        <3>7. QED BY <2>2, <2>3, <2>5, <3>4, <3>6 DEF line, path
    <2>8. QED BY <2>6, <2>7
<1>2. QED BY <1>1, InvHolds, PTL
-----------------------------------------------------------------------------
(* The agent                                                               *)

InSection == {"load", "swap", "labels", "warn"}

AgentShape ==
    /\ pc \in [Actors -> {"idle", "lock", "done"} \cup InSection]
    /\ DOMAIN got = Actors
    /\ file \in Docs \cup EditDocs
    /\ stage \in {"load", "store", "policies", "exporters", "signals", "serving", "exited"}

(* Whoever is inside the closure holds reloadMu, and nobody else does.     *)
Mutex ==
    /\ holder \in Actors \cup {Free}
    /\ \A a \in Actors : pc[a] \in InSection <=> holder = a

Started == stage \in {"store", "policies", "exporters", "signals", "serving"}

(* Half way through a reload the engine and then the label keys are those  *)
(* of what was just loaded; otherwise both are those of live.              *)
InStep ==
    /\ stage = "load" => \A a \in Actors : pc[a] = "idle"
    /\ Started =>
        /\ (\A a \in Actors : pc[a] \notin {"labels", "warn"}) => eng = live.rules
        /\ \A a \in Actors : pc[a] \in {"labels", "warn"} => eng = got[a].rules
        /\ (\A a \in Actors : pc[a] # "warn") =>
               (cfg.metricsOn => keys = LabelKeys(live.rules))
        /\ \A a \in Actors : pc[a] = "warn" =>
               (cfg.metricsOn => keys = LabelKeys(got[a].rules))

(* The warnings of all reloads together cover the way from cfg to live.    *)
Covered == RestartRequired(cfg, live) \subseteq named

(* What runs is what Parse made of a document that Load accepted.          *)
Origin ==
    /\ Started => \E doc \in Docs \cup EditDocs : Accepts(doc) /\ cfg = Parse(doc)
    /\ refused \notin {"store", "policies", "exporters"}
    /\ refused = "panic" => stage = "exited" /\ TickerPanics(cfg)

AgentInv == AgentShape /\ Mutex /\ InStep /\ Covered /\ Origin

USE AgentAssumption DEF Actors, Free, InSection

(* Defaults change none of the settings that the later steps check again,  *)
(* but for the driver of the store, and leave every exporter its type.     *)
LEMMA ParseKeeps ==
    ASSUME NEW doc, IsDocument(doc)
    PROVE  LET c == WithDefaults(doc)
               p == Parse(doc)
           IN  /\ p.store = c.store /\ p.upstream = c.upstream /\ p.rules = c.rules
               /\ p.appLogs = c.appLogs /\ p.spans = c.spans /\ p.detectors = c.detectors
               /\ DOMAIN p.exporters = DOMAIN c.exporters
               /\ \A i \in DOMAIN p.exporters : p.exporters[i].type = c.exporters[i].type
<1> DEFINE c == WithDefaults(doc)
           p == Parse(doc)
<1>1. DOMAIN c = DOMAIN doc /\ c.exporters = doc.exporters
    BY DEF WithDefaults, IsDocument
<1>2. /\ p.store = c.store /\ p.upstream = c.upstream /\ p.rules = c.rules
      /\ p.appLogs = c.appLogs /\ p.spans = c.spans /\ p.detectors = c.detectors
      /\ p.exporters = [i \in DOMAIN c.exporters |-> ExporterDefaults(c.exporters[i])]
    <2> HIDE DEF c
    <2>1. "exporters" \in DOMAIN c BY <1>1 DEF IsDocument
    <2>2. p = [c EXCEPT !.exporters = [i \in DOMAIN @ |-> ExporterDefaults(@[i])]]
        BY DEF Parse, c
    <2>3. {"store", "upstream", "rules", "appLogs", "spans", "detectors"} \subseteq DOMAIN c
        BY <1>1 DEF IsDocument
    <2>4. QED BY <2>1, <2>2, <2>3
<1>3. \A i \in DOMAIN p.exporters : p.exporters[i].type = c.exporters[i].type
    <2> TAKE i \in DOMAIN p.exporters
    <2>1. p.exporters[i] = ExporterDefaults(doc.exporters[i]) BY <1>1, <1>2
    <2>2. DOMAIN doc.exporters[i] = {"name", "type", "target", "flush", "queue"}
        BY <1>1, <1>2 DEF IsDocument
    <2>3. QED BY <1>1, <2>1, <2>2 DEF ExporterDefaults
<1>4. QED BY <1>2, <1>3

(* What Validate let through, no later step of the start-up refuses, and   *)
(* the engine and the scanner drop nothing of it.                          *)
LEMMA AcceptedBuilds ==
    ASSUME NEW doc, IsDocument(doc), Accepts(doc)
    PROVE  LET p == Parse(doc)
           IN  /\ StoreKnown(p) /\ AppLogPolicyBuilds(p) /\ SpanPolicyBuilds(p)
               /\ ExportersKnown(p) /\ ProxyBuilds(p)
               /\ DetectorsKept(p) /\ RulesCompileWhole(p)
<1> DEFINE c == WithDefaults(doc)
           p == Parse(doc)
<1>1. Validate(c) BY DEF Accepts
<1>2. /\ p.store = c.store /\ p.upstream = c.upstream /\ p.rules = c.rules
      /\ p.appLogs = c.appLogs /\ p.spans = c.spans /\ p.detectors = c.detectors
      /\ DOMAIN p.exporters = DOMAIN c.exporters
      /\ \A i \in DOMAIN p.exporters : p.exporters[i].type = c.exporters[i].type
    BY ParseKeeps
<1> HIDE DEF c, p
<1>3. StoreKnown(p) BY <1>1, <1>2 DEF Validate, StoreOK, StoreKnown
<1>4. AppLogPolicyBuilds(p)
    BY <1>1, <1>2 DEF Validate, AppLogsOK, RuleOK, RuleLogsOK, AppLogPolicyBuilds
<1>5. SpanPolicyBuilds(p) BY <1>1, <1>2 DEF Validate, SpansOK, SpanPolicyBuilds
<1>6. ExportersKnown(p) BY <1>1, <1>2 DEF Validate, ExporterOK, ExportersKnown
<1>7. ProxyBuilds(p) BY <1>1, <1>2 DEF Validate, ProxyBuilds
<1>8. DetectorsKept(p) BY <1>1, <1>2 DEF Validate, DetectorsKept
<1>9. RulesCompileWhole(p) BY <1>1, <1>2 DEF Validate, RuleOK, RulesCompileWhole
<1>10. QED BY <1>3, <1>4, <1>5, <1>6, <1>7, <1>8, <1>9 DEF p

(* Comparing by way of a third configuration finds every difference.       *)
LEMMA ChangesAddUp ==
    ASSUME NEW c, NEW d, NEW e
    PROVE  RestartRequired(c, e) \subseteq RestartRequired(c, d) \cup RestartRequired(d, e)
BY DEF RestartRequired, Compared

(* A document does not differ from itself.                                 *)
LEMMA NoChange == ASSUME NEW c PROVE RestartRequired(c, c) = {}
BY DEF RestartRequired

-----------------------------------------------------------------------------
(* The initial states satisfy the strengthening.                           *)
LEMMA AgentInitInv == AgentInit => AgentInv
<1> SUFFICES ASSUME AgentInit PROVE AgentInv
    OBVIOUS
<1>1. AgentShape BY DEF AgentInit, AgentShape
<1>2. Mutex BY DEF AgentInit, Mutex
<1>3. InStep BY DEF AgentInit, InStep, Started
<1>4. Covered BY NoChange DEF AgentInit, Covered
<1>5. Origin BY DEF AgentInit, Origin, Started
<1>6. QED BY <1>1, <1>2, <1>3, <1>4, <1>5 DEF AgentInv

(* A reload only moves inside the closure, or leaves it.                   *)
LEMMA ReloadInv ==
    ASSUME AgentInv, NEW a \in Actors, Reloading(a)
    PROVE  AgentInv'
<1> USE DEF AgentInv, boot, outside
<1>0. /\ UNCHANGED <<file, stage, cfg, refused>> /\ stage = "serving"
    BY DEF Reloading, Lock, Load, SwapEngine, SetLabelKeys, Finish
<1>1. Origin' BY <1>0 DEF Origin, Started
<1>2. CASE Lock(a)
    <2>1. AgentShape' /\ Mutex' BY <1>0, <1>2 DEF Lock, Acquire, Goto, AgentShape, Mutex
    <2>2. InStep' BY <1>0, <1>2 DEF Lock, Acquire, Goto, AgentShape, Mutex, InStep, Started
    <2>3. Covered' BY <1>0, <1>2 DEF Lock, Covered
    <2>4. QED BY <1>1, <2>1, <2>2, <2>3
<1>3. CASE Load(a)
    <2>1. AgentShape' /\ Mutex' BY <1>0, <1>3 DEF Load, Goto, AgentShape, Mutex
    <2>2. InStep' BY <1>0, <1>3 DEF Load, Goto, AgentShape, Mutex, InStep, Started
    <2>3. Covered' BY <1>0, <1>3 DEF Load, Covered
    <2>4. QED BY <1>1, <2>1, <2>2, <2>3
<1>4. CASE SwapEngine(a)
    <2>1. AgentShape' /\ Mutex' BY <1>0, <1>4 DEF SwapEngine, Goto, AgentShape, Mutex
    <2>2. InStep' BY <1>0, <1>4 DEF SwapEngine, Goto, AgentShape, Mutex, InStep, Started
    <2>3. Covered' BY <1>0, <1>4 DEF SwapEngine, Covered
    <2>4. QED BY <1>1, <2>1, <2>2, <2>3
<1>5. CASE SetLabelKeys(a)
    <2>1. AgentShape' /\ Mutex' BY <1>0, <1>5 DEF SetLabelKeys, Goto, AgentShape, Mutex
    <2>2. InStep' BY <1>0, <1>5 DEF SetLabelKeys, Goto, AgentShape, Mutex, InStep, Started
    <2>3. Covered' BY <1>0, <1>5 DEF SetLabelKeys, Covered
    <2>4. QED BY <1>1, <2>1, <2>2, <2>3
<1>6. CASE Finish(a)
    <2>1. AgentShape' /\ Mutex' BY <1>0, <1>6 DEF Finish, Report, Goto, AgentShape, Mutex
    <2>2. InStep' BY <1>0, <1>6 DEF Finish, Report, Goto, AgentShape, Mutex, InStep, Started
    <2>3. Covered' BY <1>0, <1>6, ChangesAddUp DEF Finish, Report, Covered
    <2>4. QED BY <1>1, <2>1, <2>2, <2>3
<1>7. QED BY <1>2, <1>3, <1>4, <1>5, <1>6 DEF Reloading

(* Start-up goes one stage further or ends, and a document that was        *)
(* accepted is refused by none of its stages.                              *)
LEMMA BootInv ==
    ASSUME AgentInv, LoadConfig \/ OpenStore \/ BuildPolicies \/ StartExporters
    PROVE  AgentInv'
<1> USE DEF AgentInv, reloadVars, outside
<1>1. CASE LoadConfig
    <2>1. CASE Refuse("load") /\ UNCHANGED <<cfg, reloadVars>>
        BY <1>1, <2>1
        DEF LoadConfig, Refuse, Exit, AgentShape, Mutex, InStep, Covered, Origin, Started
    <2>2. CASE /\ Accepts(file) /\ stage' = "store" /\ cfg' = Parse(file)
               /\ live' = cfg' /\ eng' = cfg'.rules /\ got' = [a \in Actors |-> cfg']
               /\ keys' = IF cfg'.metricsOn THEN LabelKeys(cfg'.rules) ELSE {}
               /\ UNCHANGED <<refused, holder, pc, named, tried>>
        <3>0. stage = "load" /\ UNCHANGED file BY <1>1 DEF LoadConfig
        <3>1. AgentShape' /\ Mutex' BY <2>2, <3>0 DEF AgentShape, Mutex
        <3>2. InStep' BY <2>2, <3>0 DEF InStep, Started
        <3>3. Covered' BY <2>2, NoChange DEF Covered
        <3>4. Origin' BY <2>2, <3>0 DEF Origin, Started, AgentShape
        <3>5. QED BY <3>1, <3>2, <3>3, <3>4
    <2>3. QED BY <1>1, <2>1, <2>2 DEF LoadConfig
<1>2. ASSUME Started
      PROVE  /\ StoreKnown(cfg) /\ AppLogPolicyBuilds(cfg) /\ SpanPolicyBuilds(cfg)
             /\ ExportersKnown(cfg) /\ ProxyBuilds(cfg)
    <2>1. PICK doc \in Docs \cup EditDocs : Accepts(doc) /\ cfg = Parse(doc)
        BY <1>2 DEF Origin
    <2>2. IsDocument(doc) OBVIOUS
    <2>3. QED BY <2>1, <2>2, AcceptedBuilds
<1>3. ASSUME OpenStore \/ BuildPolicies \/ StartExporters
      PROVE  /\ Started /\ UNCHANGED <<cfg, reloadVars, outside>>
             /\ \/ stage' \in {"policies", "exporters", "signals"} /\ UNCHANGED refused
                \/ stage' = "exited" /\ refused' = "io"
                \/ stage' = "exited" /\ refused' = "panic" /\ TickerPanics(cfg)
    <2>1. Started BY <1>3 DEF OpenStore, BuildPolicies, StartExporters, Started
    <2>2. CASE OpenStore BY <1>2, <2>1, <2>2 DEF OpenStore, Refuse, Exit
    <2>3. CASE BuildPolicies BY <1>2, <2>1, <2>3 DEF BuildPolicies, Refuse, Exit
    <2>4. CASE StartExporters BY <1>2, <2>1, <2>4 DEF StartExporters, Refuse, Exit
    <2>5. QED BY <1>3, <2>1, <2>2, <2>3, <2>4
<1>4. CASE OpenStore \/ BuildPolicies \/ StartExporters
    <2>1. AgentShape' /\ Mutex' BY <1>3, <1>4 DEF AgentShape, Mutex
    <2>2. InStep' BY <1>3, <1>4 DEF InStep, Started
    <2>3. Covered' BY <1>3, <1>4 DEF Covered
    <2>4. Origin' BY <1>3, <1>4 DEF Origin, Started, TickerPanics
    <2>5. QED BY <2>1, <2>2, <2>3, <2>4
<1>5. QED BY <1>1, <1>4

(* Every step preserves it.                                                *)
LEMMA AgentStepInv == AgentInv /\ [AgentNext]_agentVars => AgentInv'
<1> SUFFICES ASSUME AgentInv, [AgentNext]_agentVars PROVE AgentInv'
    OBVIOUS
<1> USE DEF AgentInv, boot, reloadVars, outside
<1>1. CASE LoadConfig \/ OpenStore \/ BuildPolicies \/ StartExporters
    BY <1>1, BootInv
<1>2. CASE NotifySignals \/ ListenFails \/ Stop
    BY <1>2 DEF NotifySignals, ListenFails, Stop, Refuse, Exit, AgentShape, Mutex, InStep,
                Covered, Origin, Started
<1>3. CASE Hup
    BY <1>3 DEF Hup, AgentShape, Mutex, InStep, Covered, Origin, Started
<1>4. CASE HupTooEarly
    BY <1>4 DEF HupTooEarly, Refuse, Exit, AgentShape, Mutex, InStep, Covered, Origin, Started
<1>5. CASE TakeSignal
    <2>1. AgentShape' /\ Mutex' BY <1>5 DEF TakeSignal, AgentShape, Mutex
    <2>2. InStep' BY <1>5 DEF TakeSignal, AgentShape, InStep, Started
    <2>3. QED BY <1>5, <2>1, <2>2 DEF TakeSignal, Covered, Origin, Started
<1>6. CASE HupDone
    <2>1. AgentShape' /\ Mutex' BY <1>6 DEF HupDone, Goto, AgentShape, Mutex
    <2>2. InStep' BY <1>6 DEF HupDone, Goto, AgentShape, InStep, Started
    <2>3. QED BY <1>6, <2>1, <2>2 DEF HupDone, Covered, Origin, Started
<1>7. ASSUME NEW c \in Clients, Post(c) PROVE AgentInv'
    <2>1. AgentShape' /\ Mutex' BY <1>7 DEF Post, AgentShape, Mutex
    <2>2. InStep' BY <1>7 DEF Post, AgentShape, InStep, Started
    <2>3. QED BY <1>7, <2>1, <2>2 DEF Post, Covered, Origin, Started
<1>8. ASSUME NEW doc \in EditDocs, Edit(doc) PROVE AgentInv'
    BY <1>8 DEF Edit, AgentShape, Mutex, InStep, Covered, Origin, Started
<1>9. ASSUME NEW a \in Actors, Reloading(a) PROVE AgentInv'
    BY <1>9, ReloadInv
<1>10. CASE UNCHANGED agentVars
    BY <1>10 DEF agentVars, AgentShape, Mutex, InStep, Covered, Origin, Started
<1>11. QED BY <1>1, <1>2, <1>3, <1>4, <1>5, <1>6, <1>7, <1>8, <1>9, <1>10 DEF AgentNext, Done

(* So it always holds.                                                     *)
LEMMA AgentInvHolds == AgentSpec => []AgentInv
BY AgentInitInv, AgentStepInv, PTL DEF AgentSpec

(* Between reloads the engine, the label keys and live stem from the same  *)
(* load of the file, whatever order SIGHUP and any number of POST          *)
(* /api/reload requests go through the closure in: the closure's mutex     *)
(* alone is enough for that (cli.go:1215-1250).                            *)
THEOREM ReloadCorrect == AgentSpec => []EngineMatchesLive
<1>1. AgentInv => EngineMatchesLive
    BY DEF AgentInv, InStep, Started, EngineMatchesLive
<1>2. QED BY <1>1, AgentInvHolds, PTL

(* No sequence of reloads hides a setting that still waits for a restart:  *)
(* each of those that differ between live and the start has been named by  *)
(* the warning of the reload that changed it (cli.go:1240-1246).           *)
THEOREM WarningsCorrect == AgentSpec => []ChangesNamed
<1>1. AgentInv => ChangesNamed
    BY DEF AgentInv, Covered, ChangesNamed
<1>2. QED BY <1>1, AgentInvHolds, PTL

(* Whatever the document, what Load accepts no later stage of the start-up *)
(* refuses, and no detector or rule is dropped: Validate asks for all that *)
(* applog.New, WithRules, spans.New, openStore, export.New, scanDetectors, *)
(* NewReverseProxy and engine.New need (cli.go:1006-1213).                 *)
THEOREM StartCorrect == AgentSpec => []AcceptedDocumentStarts
<1>1. ASSUME AgentInv PROVE AcceptedDocumentStarts
    <2>1. CASE Started
        <3>1. PICK doc \in Docs \cup EditDocs : Accepts(doc) /\ cfg = Parse(doc)
            BY <1>1, <2>1 DEF AgentInv, Origin
        <3>2. IsDocument(doc) OBVIOUS
        <3>3. DetectorsKept(cfg) /\ RulesCompileWhole(cfg)
            BY <3>1, <3>2, AcceptedBuilds
        <3>4. QED BY <1>1, <3>3 DEF AgentInv, Origin, AcceptedDocumentStarts
    <2>2. CASE ~Started
        BY <1>1, <2>2 DEF AgentInv, AgentShape, Origin, Started, AcceptedDocumentStarts
    <2>3. QED BY <2>1, <2>2
<1>2. QED BY <1>1, AgentInvHolds, PTL
=============================================================================
