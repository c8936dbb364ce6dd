------------------------- MODULE AdminServer_proofs -------------------------
(***************************************************************************)
(* What captured rows need before they leave the admin server, what the    *)
(* audit trail says of it, that a client which turns the pages misses no   *)
(* row, and that every span received is stored or counted: for any number  *)
(* of requests served at once, any setup of authenticators and policies,   *)
(* and any tables.                                                         *)
(***************************************************************************)
EXTENDS AdminServer, FiniteSetTheorems, WellFoundedInduction, TLAPS

Fields == {"pc", "ask", "who", "status", "rows", "noted", "offset", "total", "spanOffset",
           "had", "seen", "shifted", "todo", "kept", "drops"}

Shaped(q) == q = [x \in Fields |-> q[x]]

(* Only these handlers answer with captured rows.                          *)
Captured == {"list", "get", "applogs", "spans", "export"}

(* Which handler a running request can be in.                              *)
InHandler(q) ==
    /\ q.pc \in {"idle", "handle", "export", "flush", "scan", "countLines", "scanLines",
                 "scanSpans", "ingest", "admit", "count", "extension", "done", "aborted"}
    /\ q.pc \in {"export", "flush"} => q.ask.kind = "export" /\ q.rows = q.noted
    /\ q.pc \in {"scan", "countLines", "scanLines", "scanSpans"} => q.ask.kind = "scan"
    /\ q.pc = "ingest" => q.ask.kind = "ingest"
    /\ q.pc \in {"admit", "count"} => q.ask.kind = "ingestSpans"
    /\ q.pc = "extension" => q.ask.kind = "extension"
    /\ q.pc = "handle" =>
          q.ask.kind \notin {"export", "scan", "ingest", "ingestSpans", "extension", "preflight"}

(* The verdict that was reached when the request arrived.                  *)
LetThrough(q) ==
    \/ ~active
    \/ Capability(q.ask.kind) = "public"
    \/ /\ q.who = "id" \/ (~setup.token /\ setup.authns = 0)
       /\ authorize(q.ask.kind)

AtWork == {"handle", "export", "flush", "scan", "countLines", "scanLines", "scanSpans",
           "ingest", "admit", "count", "extension"}

Served(q) ==
    /\ q.pc \in AtWork \/ q.rows # 0 => LetThrough(q)
    /\ q.rows # 0 => q.ask.kind \in Captured

Auditing == active /\ setup.auditor

(* What the event of a request tells of its answer.                        *)
Fits(e, ask, status, rows) ==
    /\ \/ e.status = status
       \/ e.status = 0 /\ ask.kind = "export" /\ status = 200 /\ rows = 0
    /\ e.outcome = "allowed" \/ (e.status \in {302, 401, 403} /\ rows = 0)
    /\ ask.kind \in {"list", "get", "export"} => e.count = rows
    /\ ask.kind \in {"applogs", "spans"} => e.count \in {0, rows}
    /\ ask.token = "query" => e.filter # "as sent"

(* What the trail holds of one request.                                    *)
Audited(q, t) ==
    IF q.pc = "done" /\ q.ask.kind # "preflight" /\ Auditing
    THEN Len(t) = 1 /\ Fits(t[1], q.ask, q.status, q.rows)
    ELSE t = <<>>

IInv ==
    /\ setup \in Setups
    /\ req = [r \in Clients |-> req[r]] /\ trail = [r \in Clients |-> trail[r]]
    /\ \A r \in Clients : /\ Shaped(req[r]) /\ InHandler(req[r])
                          /\ Served(req[r]) /\ Audited(req[r], trail[r])
-----------------------------------------------------------------------------
(* A nonempty set of natural numbers has a least one.                      *)
LEMMA MinFact ==
    ASSUME NEW T, T \subseteq Nat, T # {}
    PROVE  Min(T) \in T /\ \A y \in T : Min(T) <= y
<1> DEFINE R == {w \in Nat \X Nat : w[1] < w[2]}
<1>1. IsWellFoundedOn(R, Nat) BY NatLessThanWellFounded DEF OpToRel
<1>2. PICK x \in T : \A y \in T : ~ (<<y, x>> \in R) BY <1>1, WFMin
<1>3. \A y \in T : x <= y
    <2>1. ASSUME NEW y \in T PROVE x <= y
        <3>1. y \in Nat /\ x \in Nat OBVIOUS
        <3>2. ~(y < x) BY <1>2, <3>1
        <3>3. QED BY <3>1, <3>2
    <2>2. QED BY <2>1
<1>4. QED BY <1>3 DEF Min
-----------------------------------------------------------------------------
(* Records                                                                 *)

(* One field replaced.                                                     *)
LEMMA SetOne ==
    ASSUME NEW q, Shaped(q), NEW f \in Fields, NEW v, NEW p, p = [q EXCEPT ![f] = v]
    PROVE  Shaped(p) /\ p[f] = v /\ \A x \in Fields \ {f} : p[x] = q[x]
<1>1. DOMAIN q = Fields BY DEF Shaped
<1>2. QED BY <1>1 DEF Shaped

(* The whole invariant after a step that changes one request.              *)
LEMMA OneRequest ==
    ASSUME IInv, NEW r \in Clients, NEW q, NEW t, setup' = setup,
           Shaped(q), InHandler(q), Served(q), Audited(q, t),
           req' = [req EXCEPT ![r] = q], trail' = [trail EXCEPT ![r] = t]
    PROVE  IInv'
<1>1. /\ req' = [c \in Clients |-> IF c = r THEN q ELSE req[c]]
      /\ trail' = [c \in Clients |-> IF c = r THEN t ELSE trail[c]]
    BY DEF IInv
<1>2. /\ active' = active
      /\ \A k : Capability(k)' = Capability(k) /\ authorize(k)' = authorize(k)
    BY DEF active, Capability, authorize
<1>3. \A p : Served(p) => Served(p)'
    BY <1>2, Zenon DEF Served, LetThrough
<1>4. \A p, u : Audited(p, u) => Audited(p, u)'
    <2>1. Auditing' <=> Auditing BY <1>2 DEF Auditing
    <2>2. ASSUME NEW p, NEW u, Audited(p, u) PROVE Audited(p, u)'
        <3>1. CASE p.pc = "done" /\ p.ask.kind # "preflight" /\ Auditing
            BY <2>1, <2>2, <3>1 DEF Audited
        <3>2. CASE ~(p.pc = "done" /\ p.ask.kind # "preflight" /\ Auditing)
            BY <2>1, <2>2, <3>2 DEF Audited
        <3>3. QED BY <3>1, <3>2
    <2>3. QED BY <2>2
<1>5. \A c \in Clients : req'[c] = (IF c = r THEN q ELSE req[c])
                          /\ trail'[c] = (IF c = r THEN t ELSE trail[c])
    BY <1>1
<1>6. ASSUME NEW c \in Clients, NEW p, p = req'[c], NEW u, u = trail'[c]
      PROVE  Shaped(p) /\ InHandler(p) /\ Served(p)' /\ Audited(p, u)'
    BY <1>3, <1>4, <1>5, <1>6 DEF IInv
<1>7. \A c \in Clients : /\ Shaped(req[c])' /\ InHandler(req[c])'
                         /\ Served(req[c])' /\ Audited(req[c], trail[c])'
    BY <1>6 DEF Shaped, InHandler, Served, Audited
<1>8. /\ req' = [c \in Clients |-> req'[c]] /\ trail' = [c \in Clients |-> trail'[c]]
      /\ setup' \in Setups
    BY <1>1 DEF IInv
<1>9. QED BY <1>7, <1>8 DEF IInv

(* A guarded request ends in a refusal or in a handler's return.           *)
Event(e, t) == IF Auditing THEN Append(t, e) ELSE t

(* What an event leaves on a trail that is empty.                          *)
LEMMA EventFacts ==
    ASSUME NEW e
    PROVE  /\ Auditing => Len(Event(e, <<>>)) = 1 /\ Event(e, <<>>)[1] = e
           /\ ~Auditing => Event(e, <<>>) = <<>>
BY DEF Event

Finished(q, a) ==
    [q EXCEPT !.pc = "done", !.status = a.status, !.rows = a.rows, !.noted = a.noted]

(* The fields of a finished request.                                       *)
LEMMA FinishFields ==
    ASSUME NEW q, Shaped(q), NEW a,
           NEW p, p = Finished(q, a)
    PROVE  /\ Shaped(p) /\ p.pc = "done" /\ p.status = a.status
           /\ p.rows = a.rows /\ p.noted = a.noted /\ p.ask = q.ask /\ p.who = q.who
BY DEF Shaped, Fields, Finished

(* A handler that answers with captured rows only where it may.            *)
LEMMA Finishes ==
    ASSUME IInv, NEW r \in Clients, NEW a, req[r].pc \in AtWork, Finish(r, a), setup' = setup,
           a.rows # 0 => req[r].ask.kind \in Captured,
           req[r].ask.kind \in {"list", "get", "export"} => a.noted = a.rows,
           req[r].ask.kind \in {"applogs", "spans"} => a.noted \in {0, a.rows}
    PROVE  IInv'
<1> DEFINE ask == req[r].ask
           silent == ask.kind = "export" /\ ask.format = "jsonl" /\ a.status = 200 /\ a.rows = 0
           noting == /\ a.status = 200
                     /\ \/ ask.kind \in {"list", "scan"}
                        \/ ask.kind \in {"export", "spec"} /\ a.noted > 0
           event == [outcome |-> "allowed", status |-> IF silent THEN 0 ELSE a.status,
                     count |-> a.noted, filter |-> IF noting THEN auditableQuery(ask) ELSE "none"]
<1>1. PICK q : q = Finished(req[r], a) OBVIOUS
<1>2. PICK e : e = event OBVIOUS
<1>3. /\ Shaped(req[r]) /\ InHandler(req[r]) /\ Served(req[r])
      /\ Audited(req[r], trail[r]) /\ trail = [c \in Clients |-> trail[c]]
    BY DEF IInv
<1>4. req' = [req EXCEPT ![r] = q] BY <1>1 DEF Finish, Finished
<1>5. trail' = [trail EXCEPT ![r] = Event(e, trail[r])]
    BY <1>2, <1>3 DEF Finish, emit, Event, Auditing
<1>6. /\ Shaped(q) /\ q.pc = "done" /\ q.status = a.status /\ q.rows = a.rows
      /\ q.noted = a.noted /\ q.ask = req[r].ask /\ q.who = req[r].who
    BY <1>1, <1>3, FinishFields
<1>7. req[r].pc # "done" BY DEF AtWork
<1>8. trail[r] = <<>> BY <1>3, <1>7 DEF Audited
<1>9. /\ Auditing => Len(Event(e, <<>>)) = 1 /\ Event(e, <<>>)[1] = e
      /\ ~Auditing => Event(e, <<>>) = <<>>
    BY EventFacts
<1>10. InHandler(q) BY <1>6 DEF InHandler
<1>11. Served(q) BY <1>3, <1>6 DEF Served, LetThrough
<1>12. /\ e.status = (IF silent THEN 0 ELSE a.status) /\ e.outcome = "allowed"
       /\ e.count = a.noted /\ e.filter = (IF noting THEN auditableQuery(ask) ELSE "none")
    BY <1>2
<1>13. ask.token = "query" => e.filter # "as sent"
    BY <1>12 DEF auditableQuery
<1>14. Audited(q, Event(e, <<>>))
    <2>1. CASE Auditing /\ q.ask.kind # "preflight"
        <3>1. Len(Event(e, <<>>)) = 1 /\ Event(e, <<>>)[1] = e BY <1>9, <2>1
        <3>2. \/ e.status = q.status
              \/ e.status = 0 /\ q.ask.kind = "export" /\ q.status = 200 /\ q.rows = 0
            BY <1>6, <1>12
        <3>3. q.ask.kind \in {"list", "get", "export"} => e.count = q.rows BY <1>6, <1>12
        <3>4. q.ask.token = "query" => e.filter # "as sent" BY <1>6, <1>13
        <3>5. e.outcome = "allowed" BY <1>12
        <3>6. q.ask.kind \in {"applogs", "spans"} => e.count \in {0, q.rows} BY <1>6, <1>12
        <3>7. Fits(e, q.ask, q.status, q.rows) BY <3>2, <3>3, <3>4, <3>5, <3>6 DEF Fits
        <3>8. PICK t : t = Event(e, <<>>) OBVIOUS
        <3>9. Len(t) = 1 /\ t[1] = e BY <3>1, <3>8
        <3>10. Audited(q, t) BY <1>6, <2>1, <3>7, <3>9 DEF Audited
        <3>11. QED BY <3>8, <3>10
    <2>2. CASE ~(Auditing /\ q.ask.kind # "preflight")
        <3>1. q.ask.kind # "preflight" BY <1>3, <1>6 DEF InHandler, AtWork
        <3>2. QED BY <1>9, <2>2, <3>1 DEF Audited
    <2>3. QED BY <2>1, <2>2
<1>15. QED BY <1>4, <1>5, <1>6, <1>8, <1>10, <1>11, <1>14, OneRequest

(* What authenticate can answer for somebody who is let in.                *)
LEMMA WhoFact ==
    ASSUME setup \in Setups, NEW ask, NEW says \in [1..setup.authns -> Outcomes],
           authenticate(ask, says) \notin {"none", "written"}
    PROVE  authenticate(ask, says) = "id" \/ (~setup.token /\ setup.authns = 0)
<1> DEFINE settled == {i \in DOMAIN says : says[i] \in {"id", "written"}}
<1>1. CASE settled # {}
    <2>1. setup.authns \in Nat BY AdminAssumption
    <2>2. settled \subseteq Nat BY <2>1
    <2>3. Min(settled) \in settled BY <1>1, <2>2, MinFact
    <2>4. authenticate(ask, says) = says[Min(settled)] BY <1>1 DEF authenticate
    <2>5. QED BY <2>3, <2>4
<1>2. CASE settled = {}
    <2>1. authenticate(ask, says) =
              IF setup.token THEN IF authenticateToken(ask) THEN "id" ELSE "none"
              ELSE IF setup.authns = 0 THEN "anonymous" ELSE "none"
        BY <1>2 DEF authenticate
    <2>2. QED BY <2>1
<1>3. QED BY <1>1, <1>2

(* The fields of a request that the guard let through or refused.          *)
Opened(ask, who) == [Idle EXCEPT !.ask = ask, !.who = who]
Entered(o, pc, had, todo) == [o EXCEPT !.pc = pc, !.had = had, !.todo = todo]
Refused(o, status) == [o EXCEPT !.pc = "done", !.status = status]

(* A request as it arrived.                                                *)
LEMMA OpenedFields ==
    ASSUME NEW ask, NEW who, NEW p, p = Opened(ask, who)
    PROVE  /\ Shaped(p) /\ p.pc = "idle" /\ p.ask = ask /\ p.who = who
           /\ p.rows = 0 /\ p.noted = 0
BY DEF Opened, Idle, Shaped, Fields

(* A request the guard let through.                                        *)
LEMMA EnteredFields ==
    ASSUME NEW o, Shaped(o), NEW pc, NEW had, NEW todo, NEW p, p = Entered(o, pc, had, todo)
    PROVE  /\ Shaped(p) /\ p.pc = pc /\ p.ask = o.ask /\ p.who = o.who
           /\ p.rows = o.rows /\ p.noted = o.noted
BY DEF Entered, Shaped, Fields

(* A request the guard refused.                                            *)
LEMMA RefusedFields ==
    ASSUME NEW o, Shaped(o), NEW status, NEW p, p = Refused(o, status)
    PROVE  /\ Shaped(p) /\ p.pc = "done" /\ p.status = status /\ p.ask = o.ask
           /\ p.rows = o.rows
BY DEF Refused, Shaped, Fields

(* A preflight is answered and leaves no event.                            *)
LEMMA StepPreflight ==
    ASSUME IInv, NEW r \in Clients, NEW ask, req[r].pc = "idle", Preflight(r, ask), setup' = setup
    PROVE  IInv'
<1>1. PICK q : q = [Idle EXCEPT !.pc = "done", !.ask = ask,
                                !.status = IF setup.cors THEN 204 ELSE 200]
    OBVIOUS
<1>2. /\ Shaped(q) /\ q.pc = "done" /\ q.ask = ask /\ q.rows = 0
    BY ZenonT(30), <1>1 DEF Idle, Shaped, Fields
<1>3. PICK t : t = trail[r] OBVIOUS
<1>4. t = <<>> BY <1>3 DEF IInv, Audited
<1>5. req' = [req EXCEPT ![r] = q] /\ trail' = [trail EXCEPT ![r] = t] /\ ask.kind = "preflight"
    BY <1>1, <1>3 DEF Preflight, IInv
<1>6. InHandler(q) BY <1>2 DEF InHandler
<1>7. Served(q) BY <1>2 DEF Served, AtWork
<1>8. Audited(q, t) BY <1>2, <1>4, <1>5 DEF Audited
<1>9. QED BY <1>2, <1>5, <1>6, <1>7, <1>8, OneRequest

(* The guard lets a request in only with a verdict that the handlers'      *)
(* rows may rely on.                                                       *)
LEMMA StepGuard ==
    ASSUME IInv, NEW r \in Clients, NEW ask, NEW says \in [1..setup.authns -> Outcomes],
           req[r].pc = "idle", Guard(r, ask, says), setup' = setup
    PROVE  IInv'
<1> DEFINE verdict == guard(ask, says)
           st == CASE verdict \in {"written", "challenged"} -> 302
                   [] verdict = "unauthorized" -> 401 [] OTHER -> 403
           hd == IF ask.kind = "export" THEN recs ELSE IF ask.kind = "scan" THEN lines ELSE {}
           ev == [outcome |-> IF verdict = "denied" THEN "denied" ELSE "unauthorized",
                  status |-> st, count |-> 0, filter |-> "none"]
<1>1. PICK who : who = authenticate(ask, says) OBVIOUS
<1>2. PICK o : o = Opened(ask, who) OBVIOUS
<1>3. /\ Shaped(o) /\ o.pc = "idle" /\ o.ask = ask /\ o.who = who /\ o.rows = 0 /\ o.noted = 0
    BY <1>2, OpenedFields
<1>4. trail[r] = <<>> /\ trail = [c \in Clients |-> trail[c]] BY DEF IInv, Audited
<1>5. ask.kind # "preflight" BY DEF Guard
<1>6. CASE verdict = "allowed"
    <2>1. PICK q : q = Entered(o, Entry(ask.kind), hd, ask.batch) OBVIOUS
    <2>2. req' = [req EXCEPT ![r] = q] /\ trail' = [trail EXCEPT ![r] = <<>>]
        BY <1>1, <1>2, <1>4, <1>6, <2>1 DEF Guard, Entered, Opened
    <2>3. /\ Shaped(q) /\ q.pc = Entry(ask.kind) /\ q.ask = ask /\ q.who = who
          /\ q.rows = 0 /\ q.noted = 0
        BY <1>3, <2>1, EnteredFields
    <2>4. /\ Entry(ask.kind) \in {"handle", "export", "scan", "ingest", "admit", "extension"}
          /\ Entry(ask.kind) = "export" <=> ask.kind = "export"
          /\ Entry(ask.kind) = "scan" <=> ask.kind = "scan"
          /\ Entry(ask.kind) = "ingest" <=> ask.kind = "ingest"
          /\ Entry(ask.kind) = "admit" <=> ask.kind = "ingestSpans"
          /\ Entry(ask.kind) = "extension" <=> ask.kind = "extension"
        BY DEF Entry
    <2>5. InHandler(q) BY <1>5, <2>3, <2>4 DEF InHandler
    <2>6. LetThrough(q)
        <3>1. \/ ~active \/ Capability(ask.kind) = "public"
              \/ who \notin {"none", "written"} /\ authorize(ask.kind)
            BY <1>1, <1>6 DEF guard
        <3>2. who \notin {"none", "written"} => who = "id" \/ (~setup.token /\ setup.authns = 0)
            BY <1>1, WhoFact DEF IInv
        <3>3. QED BY <2>3, <3>1, <3>2 DEF LetThrough
    <2>7. Served(q) BY <2>3, <2>6 DEF Served
    <2>8. Audited(q, <<>>) BY <2>3, <2>4 DEF Audited
    <2>9. QED BY <2>2, <2>3, <2>5, <2>7, <2>8, OneRequest
<1>7. CASE verdict # "allowed"
    <2>1. PICK q : q = Refused(o, st) OBVIOUS
    <2> HIDE DEF ev
    <2>2. PICK e : e = ev OBVIOUS
    <2>3. PICK t : t = Event(e, <<>>) OBVIOUS
    <2>4. req' = [req EXCEPT ![r] = q]
        BY <1>1, <1>2, <1>7, <2>1 DEF Guard, Refused, Opened
    <2>5. trail' = [trail EXCEPT ![r] = t]
        BY <1>4, <1>7, <2>2, <2>3 DEF Guard, emit, Event, Auditing, ev
    <2>6. /\ Shaped(q) /\ q.pc = "done" /\ q.status = st /\ q.ask = ask /\ q.rows = 0
        BY <1>3, <2>1, RefusedFields
    <2>7. e.status = st /\ e.count = 0 /\ e.filter = "none" /\ st \in {302, 401, 403}
        BY <2>2 DEF ev
    <2> HIDE DEF st, verdict
    <2>8. InHandler(q) BY <2>6 DEF InHandler
    <2>9. Served(q) BY <2>6 DEF Served, AtWork
    <2>10. /\ Auditing => Len(t) = 1 /\ t[1] = e
           /\ ~Auditing => t = <<>>
        BY <2>3, EventFacts
    <2>11. Audited(q, t)
        <3>1. CASE Auditing
            <4>1. Len(t) = 1 /\ t[1] = e BY <2>10, <3>1
            <4>2. Fits(e, q.ask, q.status, q.rows) BY <2>6, <2>7 DEF Fits
            <4>3. QED BY <1>5, <2>6, <3>1, <4>1, <4>2 DEF Audited
        <3>2. CASE ~Auditing BY <2>10, <3>2 DEF Audited
        <3>3. QED BY <3>1, <3>2
    <2>12. QED BY <2>4, <2>5, <2>6, <2>8, <2>9, <2>11, OneRequest
<1>8. QED BY <1>6, <1>7

(* A step inside a handler: nothing is answered or recorded yet.           *)
LEMMA Moves ==
    ASSUME IInv, NEW r \in Clients, NEW q, setup' = setup, trail' = trail,
           req[r].pc \in AtWork, req' = [req EXCEPT ![r] = q],
           Shaped(q), InHandler(q), q.pc \in AtWork \cup {"aborted"},
           q.ask = req[r].ask, q.who = req[r].who,
           q.rows = req[r].rows \/ q.ask.kind \in Captured
    PROVE  IInv'
<1>1. /\ Served(req[r]) /\ Audited(req[r], trail[r]) /\ trail = [c \in Clients |-> trail[c]]
    BY DEF IInv
<1>2. PICK t : t = trail[r] OBVIOUS
<1>3. trail' = [trail EXCEPT ![r] = t] BY <1>1, <1>2
<1>4. t = <<>> BY <1>1, <1>2 DEF Audited, AtWork
<1>5. Served(q) BY <1>1 DEF Served, LetThrough
<1>6. Audited(q, t) BY <1>4 DEF Audited, AtWork
<1>7. QED BY <1>3, <1>5, <1>6, OneRequest

(* A row that retention or a purge took marks the reads it may disturb.    *)
LEMMA Shifts ==
    ASSUME IInv, setup' = setup, trail' = trail, req' = [c \in Clients |-> req'[c]],
           \A c \in Clients :
              req'[c] = req[c] \/ req'[c] = [req[c] EXCEPT !["shifted"] = TRUE]
    PROVE  IInv'
<1>2. ASSUME NEW c \in Clients
      PROVE  /\ Shaped(req'[c])
             /\ \A f \in {"pc", "ask", "who", "status", "rows", "noted"} : req'[c][f] = req[c][f]
    <2>1. PICK q : q = req[c] OBVIOUS
    <2>2. Shaped(q) BY <2>1 DEF IInv
    <2>3. PICK p : p = req'[c] OBVIOUS
    <2>4. p = q \/ p = [q EXCEPT !["shifted"] = TRUE] BY <2>1, <2>3
    <2>5. "shifted" \in Fields BY DEF Fields
    <2>6. Shaped(p) /\ \A x \in Fields \ {"shifted"} : p[x] = q[x]
        BY <2>2, <2>4, <2>5, SetOne
    <2>7. QED BY <2>1, <2>3, <2>6 DEF Fields
<1>3. /\ active' = active
      /\ \A k : Capability(k)' = Capability(k) /\ authorize(k)' = authorize(k)
    BY DEF active, Capability, authorize
<1>4. Auditing' <=> Auditing BY <1>3 DEF Auditing
<1>5. ASSUME NEW c \in Clients, NEW p, p = req'[c], NEW q, q = req[c], NEW t, t = trail'[c]
      PROVE  InHandler(p) /\ Served(p)' /\ Audited(p, t)'
    <2>1. /\ p.pc = q.pc /\ p.ask = q.ask /\ p.who = q.who /\ p.status = q.status
          /\ p.rows = q.rows /\ p.noted = q.noted
        BY <1>2, <1>5
    <2>2. InHandler(q) /\ Served(q) /\ Audited(q, t) BY <1>5 DEF IInv
    <2>3. InHandler(p) BY <2>1, <2>2 DEF InHandler
    <2>4. Served(p)' BY <1>3, <2>1, <2>2, Zenon DEF Served, LetThrough
    <2>5. Audited(p, t)'
        <3>1. CASE p.pc = "done" /\ p.ask.kind # "preflight" /\ Auditing
            <4>1. Len(t) = 1 /\ Fits(t[1], q.ask, q.status, q.rows)
                BY <2>1, <2>2, <3>1 DEF Audited
            <4>2. Auditing' BY <1>4, <3>1
            <4>3. QED BY <2>1, <3>1, <4>1, <4>2 DEF Audited
        <3>2. CASE ~(p.pc = "done" /\ p.ask.kind # "preflight" /\ Auditing)
            BY <1>4, <2>1, <2>2, <3>2 DEF Audited
        <3>3. QED BY <3>1, <3>2
    <2>6. QED BY <2>3, <2>4, <2>5
<1>6. \A c \in Clients : InHandler(req[c])' /\ Served(req[c])' /\ Audited(req[c], trail[c])'
    <2> SUFFICES ASSUME NEW c \in Clients
                 PROVE  InHandler(req[c])' /\ Served(req[c])' /\ Audited(req[c], trail[c])'
        OBVIOUS
    <2>1. PICK p : p = req'[c] OBVIOUS
    <2>2. PICK t : t = trail'[c] OBVIOUS
    <2>3. PICK q : q = req[c] OBVIOUS
    <2>4. InHandler(p) /\ Served(p)' /\ Audited(p, t)' BY <1>5, <2>1, <2>2, <2>3
    <2>5. InHandler(req[c])' BY <2>1, <2>4 DEF InHandler
    <2>6. Served(req[c])' BY <2>1, <2>4 DEF Served
    <2>7. Audited(req[c], trail[c])' BY <2>1, <2>2, <2>4 DEF Audited
    <2>8. QED BY <2>5, <2>6, <2>7
<1>7. \A c \in Clients : Shaped(req[c])' BY <1>2 DEF Shaped
<1>9. trail' = [c \in Clients |-> trail'[c]] /\ setup' \in Setups BY DEF IInv
<1>10. QED BY <1>6, <1>7, <1>9 DEF IInv
-----------------------------------------------------------------------------
(* The steps                                                               *)

(* What the handlers that ask the store once put into an answer.           *)
LEMMA AnswerFacts ==
    ASSUME NEW ask, NEW ok, NEW cfg, NEW a, a = Answer(ask, ok, cfg)
    PROVE  /\ a.rows # 0 => ask.kind \in Captured
           /\ ask.kind \in {"list", "get"} => a.noted = a.rows
           /\ ask.kind \in {"applogs", "spans"} => a.noted = 0
<1>1. \A n : Plain(n).rows = 0 /\ Plain(n).noted = 0 BY DEF Plain
<1>2. CASE ask.kind \in {"list", "get", "applogs", "spans"}
    <2>1. ask.kind \in Captured BY <1>2 DEF Captured
    <2>2. CASE ask.kind = "list"
        <3>1. a = listLogs(ok) BY <2>2 DEF Answer
        <3>2. QED BY <1>1, <2>1, <2>2, <3>1 DEF listLogs
    <2>3. CASE ask.kind = "get"
        <3>1. a = getLog(ask.id, ok) BY <2>3 DEF Answer
        <3>2. QED BY <1>1, <2>1, <2>3, <3>1 DEF getLog
    <2>4. CASE ask.kind = "applogs"
        <3>1. a = queryAppLogs(ok) BY <2>4 DEF Answer
        <3>2. QED BY <1>1, <2>1, <2>4, <3>1 DEF queryAppLogs
    <2>5. CASE ask.kind = "spans"
        <3>1. a = querySpans(ok) BY <2>5 DEF Answer
        <3>2. QED BY <1>1, <2>1, <2>5, <3>1 DEF querySpans
    <2>6. QED BY <1>2, <2>1, <2>2, <2>3, <2>4, <2>5
<1>3. CASE ask.kind \notin {"list", "get", "applogs", "spans"}
    <2>1. a.rows = 0
        <3>1. CASE ask.kind = "spec"
            <4>1. a = inferSpec(ok) BY <3>1 DEF Answer
            <4>2. QED BY <1>1, <4>1 DEF inferSpec
        <3>2. CASE ask.kind # "spec"
            <4>1. \E n : a = Plain(n)
                BY <1>3, <3>2 DEF Answer, Aggregate, stats, routes, services, traces, usage,
                                  ruleStats, getConfig, validateConfig, reload, ui, spanStats,
                                  spanBreakdown, appLogStats, system, health
            <4>2. QED BY <1>1, <4>1
        <3>3. QED BY <3>1, <3>2
    <2>2. QED BY <1>3, <2>1
<1>4. QED BY <1>2, <1>3

(* Finishes, for an answer without rows.                                   *)
LEMMA FinishesPlain ==
    ASSUME IInv, NEW r \in Clients, NEW a, req[r].pc \in AtWork, Finish(r, a), setup' = setup,
           a.rows = 0, req[r].ask.kind \notin Captured \/ a.noted = 0
    PROVE  IInv'
BY Finishes DEF Captured

(* An answer that is only a status.                                        *)
LEMMA PlainFacts == \A n : Plain(n).rows = 0 /\ Plain(n).noted = 0
BY DEF Plain

(* A request that only moves on.                                           *)
WithPc(q, pc) == [q EXCEPT !.pc = pc]

(* Its fields.                                                             *)
LEMMA WithPcFields ==
    ASSUME NEW q, Shaped(q), NEW pc, NEW p, p = WithPc(q, pc)
    PROVE  /\ Shaped(p) /\ p.pc = pc /\ p.ask = q.ask /\ p.who = q.who
           /\ p.rows = q.rows /\ p.noted = q.noted
BY DEF WithPc, Shaped, Fields

(* An arrival, and the handlers that are one step.                         *)
LEMMA StepShort ==
    ASSUME IInv, NEW r \in Clients, Arrive(r) \/ Handle(r) \/ Extension(r)
    PROVE  IInv'
<1>1. CASE Arrive(r)
    <2>1. PICK ask \in Asks[r], says \in [1..setup.authns -> Outcomes] :
              Preflight(r, ask) \/ Guard(r, ask, says)
        BY <1>1 DEF Arrive
    <2>2. setup' = setup /\ req[r].pc = "idle" BY <1>1 DEF Arrive
    <2>3. CASE Preflight(r, ask) BY <2>2, <2>3, StepPreflight
    <2>4. CASE Guard(r, ask, says) BY <2>2, <2>4, StepGuard
    <2>5. QED BY <2>1, <2>3, <2>4
<1>2. CASE Handle(r)
    <2>1. PICK ok \in BOOLEAN, cfg \in CfgStates : Finish(r, Answer(req[r].ask, ok, cfg))
        BY <1>2 DEF Handle
    <2>2. PICK ask : ask = req[r].ask OBVIOUS
    <2>3. PICK a : a = Answer(ask, ok, cfg) OBVIOUS
    <2>4. Finish(r, a) BY <2>1, <2>2, <2>3
    <2>5. setup' = setup /\ req[r].pc = "handle" BY <1>2 DEF Handle
    <2>6. ask.kind # "export" BY <2>2, <2>5 DEF IInv, InHandler
    <2>7. /\ a.rows # 0 => ask.kind \in Captured
          /\ ask.kind \in {"list", "get"} => a.noted = a.rows
          /\ ask.kind \in {"applogs", "spans"} => a.noted = 0
        BY <2>3, AnswerFacts
    <2>8. QED BY <2>2, <2>4, <2>5, <2>6, <2>7, Finishes DEF AtWork
<1>3. CASE Extension(r)
    <2>1. setup' = setup /\ req[r].pc = "extension" BY <1>3 DEF Extension
    <2>2. CASE Finish(r, Plain(200)) BY <2>1, <2>2, PlainFacts, FinishesPlain DEF AtWork
    <2>3. CASE req' = [req EXCEPT ![r].pc = "aborted"] /\ trail' = trail
        <3>1. PICK o : o = req[r] OBVIOUS
        <3>2. PICK q : q = WithPc(o, "aborted") OBVIOUS
        <3>3. Shaped(o) BY <3>1 DEF IInv
        <3>4. Shaped(q) /\ q.pc = "aborted" /\ q.ask = o.ask /\ q.who = o.who /\ q.rows = o.rows
            BY <3>2, <3>3, WithPcFields
        <3>5. InHandler(q) BY <3>4 DEF InHandler
        <3>6. req' = [req EXCEPT ![r] = q] BY <2>3, <3>1, <3>2 DEF WithPc
        <3>7. QED BY <2>1, <2>3, <3>1, <3>4, <3>5, <3>6, Moves DEF AtWork
    <2>4. QED BY <1>3, <2>2, <2>3 DEF Extension
<1>4. QED BY <1>1, <1>2, <1>3

(* A page of an export.                                                    *)
Paged(q, pc, offset, seen, rows, noted) ==
    [q EXCEPT !.pc = pc, !.offset = offset, !.seen = seen, !.rows = rows, !.noted = noted]

(* Its fields.                                                             *)
LEMMA PagedFields ==
    ASSUME NEW q, Shaped(q), NEW pc, NEW offset, NEW seen, NEW rows, NEW noted,
           NEW p, p = Paged(q, pc, offset, seen, rows, noted)
    PROVE  /\ Shaped(p) /\ p.pc = pc /\ p.ask = q.ask /\ p.who = q.who
           /\ p.rows = rows /\ p.noted = noted
BY DEF Paged, Shaped, Fields

(* The pages of an export add to rows and to noted what they hold.         *)
LEMMA StepExport ==
    ASSUME IInv, NEW r \in Clients, Export(r) \/ ExportEnds(r)
    PROVE  IInv'
<1> DEFINE o == req[r]
<1>1. Shaped(o) /\ InHandler(o) BY DEF IInv
<1>2. CASE Export(r)
    <2> DEFINE page == Newest(recs, o.offset)
               Sends ==
                   /\ req' = [req EXCEPT ![r] = [o EXCEPT
                          !.pc = IF Cardinality(page) < Page THEN "flush" ELSE @,
                          !.offset = NextOffset(@), !.seen = @ \cup page,
                          !.rows = o.rows + Cardinality(page),
                          !.noted = NoteAccess(o.noted, Cardinality(page))]]
                   /\ trail' = trail
               Stops(ok) ==
                   /\ req' = [req EXCEPT ![r] = [o EXCEPT !.pc = "flush", !.shifted = @ \/ ~ok]]
                   /\ trail' = trail
    <2>1. o.pc = "export" /\ setup' = setup BY <1>2 DEF Export
    <2>2. o.pc \in AtWork /\ o.ask.kind = "export" /\ o.ask.kind \in Captured /\ o.rows = o.noted
        BY <1>1, <2>1 DEF InHandler, AtWork, Captured
    <2>3. CASE \E n : Finish(r, Plain(n))
        BY <2>1, <2>2, <2>3, PlainFacts, FinishesPlain
    <2>4. CASE Sends
        <3> DEFINE pc == IF Cardinality(page) < Page THEN "flush" ELSE o.pc
                   seen == o.seen \cup page
                   rows == o.rows + Cardinality(page)
        <3> HIDE DEF page
        <3>1. PICK q : q = Paged(o, pc, NextOffset(o.offset), seen, rows,
                                 NoteAccess(o.noted, Cardinality(page)))
            OBVIOUS
        <3>2. NoteAccess(o.noted, Cardinality(page)) = rows BY <2>2 DEF NoteAccess
        <3>3. req' = [req EXCEPT ![r] = q] BY <2>4, <3>1 DEF Paged
        <3>4. Shaped(q) /\ q.pc = pc /\ q.ask = o.ask /\ q.who = o.who /\ q.rows = q.noted
            BY <1>1, <3>1, <3>2, PagedFields
        <3>5. pc \in {"export", "flush"} BY <2>1
        <3>6. InHandler(q) BY <2>2, <3>4, <3>5 DEF InHandler
        <3>7. q.pc \in AtWork BY <3>4, <3>5 DEF AtWork
        <3>8. QED BY <2>1, <2>2, <2>4, <3>3, <3>4, <3>6, <3>7, Moves
    <2>5. ASSUME NEW ok \in BOOLEAN, Stops(ok) PROVE IInv'
        <3>1. PICK q : q = [o EXCEPT !.pc = "flush", !.shifted = @ \/ ~ok] OBVIOUS
        <3>2. req' = [req EXCEPT ![r] = q] BY <2>5, <3>1
        <3>3. /\ Shaped(q) /\ q.pc = "flush" /\ q.ask = o.ask /\ q.who = o.who
              /\ q.rows = o.rows /\ q.noted = o.noted
            BY <1>1, <3>1 DEF Shaped, Fields
        <3>4. InHandler(q) BY <2>2, <3>3 DEF InHandler
        <3>5. QED BY <2>1, <2>2, <2>5, <3>2, <3>3, <3>4, Moves DEF AtWork
    <2>6. CASE ~setup.reader \/ o.ask.format = "other"
        <3>1. \E n : Finish(r, Plain(n)) BY ZenonT(30), <1>2, <2>6 DEF Export
        <3>2. QED BY <2>3, <3>1
    <2>7. CASE setup.reader /\ o.ask.format # "other"
        <3>1. \E ok \in BOOLEAN : IF ok /\ page # {} THEN Sends ELSE Stops(ok)
            BY ZenonT(30), <1>2, <2>7 DEF Export
        <3> HIDE DEF Sends, Stops
        <3>2. Sends \/ \E ok \in BOOLEAN : Stops(ok) BY <3>1
        <3>3. QED BY <2>4, <2>5, <3>2
    <2>8. QED BY <2>6, <2>7
<1>3. CASE ExportEnds(r)
    <2>1. PICK a : a = [status |-> 200, rows |-> o.rows, noted |-> o.noted] OBVIOUS
    <2>2. Finish(r, a) /\ setup' = setup /\ o.pc = "flush" BY <1>3, <2>1 DEF ExportEnds
    <2>3. o.ask.kind \in Captured /\ o.rows = o.noted BY <1>1, <2>2 DEF InHandler, Captured
    <2>4. a.rows = o.rows /\ a.noted = o.noted BY <2>1
    <2>5. QED BY <2>2, <2>3, <2>4, Finishes DEF AtWork
<1>4. QED BY <1>2, <1>3

(* A scan and a span ingest change a request without answering.            *)
LEMMA WorkMoves ==
    ASSUME IInv, NEW r \in Clients, NEW q, setup' = setup, trail' = trail,
           req[r].pc \in AtWork, req[r].ask.kind \in {"scan", "ingestSpans"},
           req' = [req EXCEPT ![r] = q], Shaped(q),
           q.ask = req[r].ask, q.who = req[r].who, q.rows = req[r].rows,
           \/ req[r].ask.kind = "scan" /\ q.pc \in {"countLines", "scanLines", "scanSpans"}
           \/ req[r].ask.kind = "ingestSpans" /\ q.pc \in {"admit", "count"}
    PROVE  IInv'
<1>1. InHandler(q) /\ q.pc \in AtWork BY DEF InHandler, AtWork
<1>2. QED BY <1>1, Moves

(* The scan.                                                               *)
LEMMA StepScan ==
    ASSUME IInv, NEW r \in Clients,
           ScanRecords(r) \/ CountLines(r) \/ ScanLines(r) \/ ScanSpans(r)
    PROVE  IInv'
<1> DEFINE o == req[r]
<1>1. Shaped(o) /\ InHandler(o) BY DEF IInv
<1>2. o.pc \in {"scan", "countLines", "scanLines", "scanSpans"} /\ setup' = setup
    BY DEF ScanRecords, CountLines, ScanLines, ScanSpans
<1>3. o.pc \in AtWork /\ o.ask.kind = "scan" BY <1>1, <1>2 DEF InHandler, AtWork
<1>4. CASE \E n : Finish(r, Plain(n)) BY <1>2, <1>3, <1>4, PlainFacts, FinishesPlain
<1>5. CASE \E n : Finish(r, [status |-> 200, rows |-> 0, noted |-> n])
    <2>1. PICK n : Finish(r, [status |-> 200, rows |-> 0, noted |-> n]) BY <1>5
    <2>2. PICK a : a = [status |-> 200, rows |-> 0, noted |-> n] OBVIOUS
    <2>3. Finish(r, a) /\ a.rows = 0 BY <2>1, <2>2
    <2>4. o.ask.kind \notin Captured BY <1>3 DEF Captured
    <2>5. QED BY <1>1, <1>2, <1>3, <2>3, <2>4, FinishesPlain
<1>6. CASE ScanRecords(r) /\ trail' = trail
           /\ req' = [req EXCEPT ![r] = [o EXCEPT !.pc = "countLines",
                                             !.noted = AtMost(AnalysisRows, recs)]]
    <2>1. PICK q : q = [o EXCEPT !.pc = "countLines", !.noted = AtMost(AnalysisRows, recs)]
        OBVIOUS
    <2>2. Shaped(q) /\ q.pc = "countLines" /\ q.ask = o.ask /\ q.who = o.who /\ q.rows = o.rows
        BY <1>1, <2>1 DEF Shaped, Fields
    <2>3. QED BY <1>2, <1>3, <1>6, <2>1, <2>2, WorkMoves
<1>7. CASE \E page, last, read : trail' = trail /\ o.pc = "scanLines"
           /\ req' = [req EXCEPT ![r] = [o EXCEPT !.seen = @ \cup page,
                                             !.pc = IF last THEN "scanSpans" ELSE "countLines",
                                             !.offset = read, !.total = 0]]
    <2>1. PICK page, last, read : trail' = trail /\ o.pc = "scanLines"
           /\ req' = [req EXCEPT ![r] = [o EXCEPT !.seen = @ \cup page,
                                             !.pc = IF last THEN "scanSpans" ELSE "countLines",
                                             !.offset = read, !.total = 0]]
        BY <1>7
    <2>2. PICK q : q = [o EXCEPT !.seen = @ \cup page,
                                 !.pc = IF last THEN "scanSpans" ELSE "countLines",
                                 !.offset = read, !.total = 0]
        OBVIOUS
    <2>3. /\ Shaped(q) /\ q.pc = (IF last THEN "scanSpans" ELSE "countLines")
          /\ q.ask = o.ask /\ q.who = o.who /\ q.rows = o.rows
        BY <1>1, <2>2 DEF Shaped, Fields
    <2>4. q.pc \in {"countLines", "scanLines", "scanSpans"} BY <2>1, <2>3
    <2>5. QED BY <1>2, <1>3, <2>1, <2>2, <2>3, <2>4, WorkMoves
<1>8. CASE \E read : trail' = trail /\ o.pc = "scanSpans"
                        /\ req' = [req EXCEPT ![r].spanOffset = read]
    <2>1. PICK read : /\ trail' = trail /\ o.pc = "scanSpans"
                      /\ req' = [req EXCEPT ![r].spanOffset = read]
        BY <1>8
    <2>2. PICK q : q = [o EXCEPT !.spanOffset = read] OBVIOUS
    <2>3. Shaped(q) /\ q.pc = o.pc /\ q.ask = o.ask /\ q.who = o.who /\ q.rows = o.rows
        BY <1>1, <2>2 DEF Shaped, Fields
    <2>4. req' = [req EXCEPT ![r] = q] BY <2>1, <2>2
    <2>5. QED BY <1>2, <1>3, <2>1, <2>3, <2>4, WorkMoves
<1>9. CASE CountLines(r)
    <2>1. PICK q : q = [o EXCEPT !.pc = "scanLines", !.total = Cardinality(lines)] OBVIOUS
    <2>2. Shaped(q) /\ q.pc = "scanLines" /\ q.ask = o.ask /\ q.who = o.who /\ q.rows = o.rows
        BY <1>1, <2>1 DEF Shaped, Fields
    <2>3. CASE req' = [req EXCEPT ![r] = q] /\ trail' = trail
        BY <1>2, <1>3, <2>2, <2>3, WorkMoves
    <2>4. QED BY <1>4, <1>9, <2>1, <2>3 DEF CountLines
<1>10. CASE ScanRecords(r) BY <1>4, <1>6, <1>10 DEF ScanRecords
<1>11. CASE ScanLines(r) BY ZenonT(30), <1>4, <1>7, <1>11 DEF ScanLines
<1>12. CASE ScanSpans(r)
    <2>1. \/ \E n : Finish(r, Plain(n))
          \/ \E n : Finish(r, [status |-> 200, rows |-> 0, noted |-> n])
          \/ \E read : trail' = trail /\ o.pc = "scanSpans"
                           /\ req' = [req EXCEPT ![r].spanOffset = read]
        BY ZenonT(30), <1>12 DEF ScanSpans
    <2>2. QED BY <1>4, <1>5, <1>8, <2>1
<1>13. QED BY <1>9, <1>10, <1>11, <1>12

(* What the SDKs post.                                                     *)
LEMMA StepIngest ==
    ASSUME IInv, NEW r \in Clients,
           Ingest(r) \/ AdmitSpan(r) \/ RefuseSpans(r) \/ SaveSpans(r) \/ CountSpans(r)
    PROVE  IInv'
<1> DEFINE o == req[r]
<1>1. Shaped(o) /\ InHandler(o) BY DEF IInv
<1>2. o.pc \in {"ingest", "admit", "count"} /\ setup' = setup
    BY DEF Ingest, AdmitSpan, RefuseSpans, SaveSpans, CountSpans
<1>3. /\ o.pc \in AtWork /\ o.ask.kind \in {"ingest", "ingestSpans"}
      /\ o.pc = "admit" => o.ask.kind = "ingestSpans"
    BY <1>1, <1>2 DEF InHandler, AtWork
<1>4. CASE \E n : Finish(r, Plain(n)) BY <1>2, <1>3, <1>4, PlainFacts, FinishesPlain
<1>5. CASE AdmitSpan(r)
    <2> DEFINE s == Head(o.todo)
               isKept == Admit(s, counter) = Kept
    <2>1. PICK q : q = [o EXCEPT !.todo = Tail(@),
                                 !.kept = IF isKept THEN Append(@, Scrub(s)) ELSE @,
                                 !.drops = IF isKept THEN @ ELSE @ + 1]
        OBVIOUS
    <2>2. trail' = trail /\ o.pc = "admit" /\ req' = [req EXCEPT ![r] = q]
        BY <1>5, <2>1 DEF AdmitSpan
    <2> HIDE DEF s, isKept
    <2>3. Shaped(q) /\ q.pc = o.pc /\ q.ask = o.ask /\ q.who = o.who /\ q.rows = o.rows
        BY <1>1, <2>1 DEF Shaped, Fields
    <2>4. QED BY <1>2, <1>3, <2>2, <2>3, WorkMoves
<1>6. CASE o.pc = "admit" /\ req' = [req EXCEPT ![r].pc = "count"] /\ trail' = trail
    <2>1. PICK q : q = WithPc(o, "count") OBVIOUS
    <2>2. /\ Shaped(q) /\ q.pc = "count" /\ q.ask = o.ask /\ q.who = o.who
          /\ q.rows = o.rows
        BY <1>1, <2>1, WithPcFields
    <2>3. req' = [req EXCEPT ![r] = q] BY <1>6, <2>1 DEF WithPc
    <2>4. QED BY <1>2, <1>3, <1>6, <2>2, <2>3, WorkMoves
<1>7. CASE Ingest(r) BY <1>4, <1>7 DEF Ingest
<1>8. CASE RefuseSpans(r) BY <1>4, <1>8 DEF RefuseSpans
<1>9. CASE SaveSpans(r) BY <1>4, <1>6, <1>9 DEF SaveSpans
<1>10. CASE CountSpans(r) BY <1>4, <1>10 DEF CountSpans
<1>11. QED BY <1>5, <1>7, <1>8, <1>9, <1>10

(* The initial states satisfy the strengthening.                           *)
LEMMA InitInv == Init => IInv
<1> SUFFICES ASSUME Init PROVE IInv OBVIOUS
<1>1. PICK q : q = Idle OBVIOUS
<1>2. \A r \in Clients : req[r] = q /\ trail[r] = <<>> BY <1>1 DEF Init
<1>3. Shaped(q) /\ q.pc = "idle" /\ q.rows = 0 BY <1>1 DEF Idle, Shaped, Fields
<1>4. InHandler(q) BY <1>3 DEF InHandler
<1>5. Served(q) BY <1>3 DEF Served, AtWork
<1>6. Audited(q, <<>>) BY <1>3 DEF Audited
<1>7. /\ req = [r \in Clients |-> req[r]] /\ trail = [r \in Clients |-> trail[r]]
      /\ setup \in Setups
    BY DEF Init
<1>8. QED BY <1>2, <1>3, <1>4, <1>5, <1>6, <1>7 DEF IInv

(* Every step preserves it.                                                *)
LEMMA StepInv == IInv /\ [Next]_vars => IInv'
<1> SUFFICES ASSUME IInv, [Next]_vars PROVE IInv' OBVIOUS
<1>1. ASSUME NEW r \in Clients, Serve(r) PROVE IInv'
    BY <1>1, StepShort, StepExport, StepScan, StepIngest DEF Serve
<1>2. CASE UNCHANGED <<setup, req, trail>> BY <1>2, Shifts DEF IInv
<1>3. ASSUME NEW at, req' = Shift(at), UNCHANGED <<setup, trail>> PROVE IInv'
    BY <1>3, Shifts DEF Shift
<1>4. QED
    BY <1>1, <1>2, <1>3 DEF Next, SaveRecord, PruneRecords, PurgeRecords, SaveLine, PruneLines,
                            Rest, vars

(* So it always holds.                                                     *)
LEMMA InvHolds == Spec => []IInv
BY InitInv, StepInv, PTL DEF Spec

(* Captured rows only ever leave to somebody who was identified, where     *)
(* anything can identify, and only where every registered policy allows    *)
(* it and none panicked (access.go, guard, authenticate, safeAuthorize, and*)
(* the handlers that call NoteAccess).                                     *)
THEOREM AccessCorrect == Spec => []GrantedOnly
<1>1. ASSUME IInv PROVE GrantedOnly
    <2> SUFFICES ASSUME NEW r \in Clients, req[r].rows > 0
                 PROVE  /\ setup.token \/ setup.authns > 0 => req[r].who = "id"
                        /\ LET cap == IF req[r].ask.kind = "export" THEN "export" ELSE "payload"
                           IN  \A i \in DOMAIN setup.policies :
                                  cap \in setup.policies[i].allows \ setup.policies[i].panics
        BY DEF GrantedOnly
    <2> DEFINE cap == IF req[r].ask.kind = "export" THEN "export" ELSE "payload"
    <2>1. LetThrough(req[r]) /\ req[r].ask.kind \in Captured BY <1>1 DEF IInv, Served
    <2>2. Capability(req[r].ask.kind) = cap BY <2>1 DEF Captured, Capability
    <2>3. setup.authns \in Nat BY <1>1, AdminAssumption DEF IInv
    <2>4. CASE ~active BY <2>3, <2>4 DEF active
    <2>5. CASE active
        <3>1. /\ req[r].who = "id" \/ (~setup.token /\ setup.authns = 0)
              /\ authorize(req[r].ask.kind)
            BY <2>1, <2>2, <2>5 DEF LetThrough
        <3>2. QED BY <2>2, <2>3, <3>1 DEF authorize
    <2>6. QED BY <2>4, <2>5
<1>2. QED BY <1>1, InvHolds, PTL

(* An auditor reading the trail finds every decision that was answered     *)
(* exactly once, after the answer, with the status the handler wrote, the  *)
(* number of captured records that left and no token in the recorded       *)
(* query, and one whose handler panicked at most once (access.go, guard and*)
(* emit).                                                                  *)
THEOREM AuditCorrect == Spec => []AuditAccounts
<1>1. ASSUME IInv PROVE AuditAccounts
    <2> DEFINE toldOf(r) == req[r].ask.kind # "preflight" /\ Auditing
               told(r) ==
                   /\ Len(trail[r]) <= 1
                   /\ trail[r] # <<>> => toldOf(r) /\ req[r].pc \in {"done", "aborted"}
                   /\ toldOf(r) /\ req[r].pc = "done" =>
                         /\ Len(trail[r]) = 1
                         /\ Fits(trail[r][1], req[r].ask, req[r].status, req[r].rows)
    <2>1. ASSUME NEW r \in Clients PROVE told(r)
        <3>1. Audited(req[r], trail[r]) BY <1>1 DEF IInv
        <3>2. CASE req[r].pc = "done" /\ toldOf(r)
            <4>1. /\ Len(trail[r]) = 1
                  /\ Fits(trail[r][1], req[r].ask, req[r].status, req[r].rows)
                BY <3>1, <3>2, Zenon DEF Audited
            <4>2. Len(trail[r]) <= 1 BY <4>1
            <4>3. QED BY <3>2, <4>1, <4>2, Zenon
        <3>3. CASE ~(req[r].pc = "done" /\ toldOf(r))
            <4>1. trail[r] = <<>> BY <3>1, <3>3 DEF Audited
            <4>2. Len(trail[r]) = 0 BY <4>1
            <4>3. QED BY <3>3, <4>1, <4>2
        <3>4. QED BY <3>2, <3>3
    <2>2. QED BY <2>1, Zenon DEF AuditAccounts, Auditing, Fits
<1>2. QED BY <1>1, InvHolds, PTL
-----------------------------------------------------------------------------
(* Pages                                                                   *)

(* The rows that a query lists before row x.                               *)
Over(S, f, x) == {y \in S : f[y] > f[x]}

Numbering(S, f) == [x \in S |-> Cardinality(Over(S, f, x))]

(* No two rows have the same number, and none is left out.                 *)
Numbers(rank, S) ==
    /\ rank \in [S -> 0..Cardinality(S) - 1]
    /\ \A a, b \in S : rank[a] = rank[b] => a = b
    /\ \A k \in 0..Cardinality(S) - 1 : \E x \in S : rank[x] = k

(* So are the rows of a table numbered in the order of a query.            *)
LEMMA Ranks ==
    ASSUME NEW S, IsFiniteSet(S), NEW f, f \in Injection(S, Int),
           NEW rank, rank = Numbering(S, f)
    PROVE  Numbers(rank, S)
<1>0. f \in [S -> Int] /\ \A a, b \in S : f[a] = f[b] => a = b BY DEF Injection, IsInjective
<1>1. PICK n : n = Cardinality(S) /\ n \in Nat BY FS_CardinalityType
<1>2. ASSUME NEW x \in S
      PROVE  /\ IsFiniteSet(Over(S, f, x)) /\ Cardinality(Over(S, f, x)) \in 0..n - 1
             /\ rank[x] = Cardinality(Over(S, f, x))
    <2>1. Over(S, f, x) \in SUBSET S /\ x \notin Over(S, f, x) BY <1>0 DEF Over
    <2>2. /\ IsFiniteSet(Over(S, f, x)) /\ Cardinality(Over(S, f, x)) <= n
          /\ Cardinality(Over(S, f, x)) # n
        BY <1>1, <2>1, FS_Subset
    <2>3. Cardinality(Over(S, f, x)) \in Nat BY <2>2, FS_CardinalityType
    <2>4. rank[x] = Cardinality(Over(S, f, x)) BY DEF Numbering
    <2>5. QED BY <1>1, <2>2, <2>3, <2>4
<1>3. ASSUME NEW a \in S, NEW b \in S, f[a] > f[b] PROVE rank[a] < rank[b]
    <2>1. /\ IsFiniteSet(Over(S, f, a) \cup {a})
          /\ Cardinality(Over(S, f, a) \cup {a}) = Cardinality(Over(S, f, a)) + 1
        <3>1. a \notin Over(S, f, a) BY <1>0 DEF Over
        <3>2. QED BY <1>2, <3>1, FS_AddElement
    <2>2. Over(S, f, a) \cup {a} \in SUBSET Over(S, f, b) BY <1>0, <1>3 DEF Over
    <2>3. Cardinality(Over(S, f, a) \cup {a}) <= Cardinality(Over(S, f, b)) BY <1>2, <2>2, FS_Subset
    <2>4. rank[a] \in Int /\ rank[b] \in Int BY <1>1, <1>2
    <2>5. QED BY <1>2, <2>1, <2>3, <2>4
<1>4. \A a, b \in S : rank[a] = rank[b] => a = b
    <2> SUFFICES ASSUME NEW a \in S, NEW b \in S, rank[a] = rank[b] PROVE a = b OBVIOUS
    <2>1. rank[a] \in Int /\ rank[b] \in Int BY <1>1, <1>2
    <2>2. ~(f[a] > f[b]) /\ ~(f[b] > f[a]) BY <1>3, <2>1
    <2>3. f[a] \in Int /\ f[b] \in Int BY <1>0
    <2>4. QED BY <1>0, <2>2, <2>3
<1>5. rank \in [S -> 0..n - 1] BY <1>2 DEF Numbering
<1>6. rank \in Injection(S, 0..n - 1) BY <1>4, <1>5 DEF Injection, IsInjective
<1>7. IsFiniteSet(0..n - 1) /\ Cardinality(0..n - 1) = n
    <2>1. 0 \in Int /\ n - 1 \in Int BY <1>1
    <2>2. Cardinality(0..n - 1) = (IF 0 > n - 1 THEN 0 ELSE n - 1 - 0 + 1) BY <2>1, FS_Interval
    <2>3. QED BY <1>1, <2>1, <2>2, FS_Interval
<1>8. rank \in Surjection(S, 0..n - 1) BY <1>1, <1>6, <1>7, FS_Injection
<1>9. QED BY <1>1, <1>4, <1>5, <1>8 DEF Surjection, Numbers

(* A page holds the rows numbered from its offset on; a page that is not   *)
(* full, or reaches the end of the table, is the last one.                 *)
ReadsPage(rank, S, page, offset) ==
    /\ Cardinality(page) \in 0..Page
    /\ \A x \in S \ page : \/ rank[x] < offset
                           \/ Cardinality(page) = Page /\ rank[x] >= offset + Page
    /\ page = {} => Cardinality(page) = 0

LEMMA PageFacts ==
    ASSUME NEW S, IsFiniteSet(S), NEW rank, Numbers(rank, S),
           NEW offset \in Nat, NEW page, page = {x \in S : rank[x] \in offset..offset + Page - 1}
    PROVE  ReadsPage(rank, S, page, offset)
<1> DEFINE n == Cardinality(S)
           R == offset..offset + Page - 1
<1>m. PICK m : m = Cardinality(page) OBVIOUS
<1>0. /\ rank \in [S -> 0..n - 1]
      /\ \A a, b \in S : rank[a] = rank[b] => a = b
      /\ \A k \in 0..n - 1 : \E x \in S : rank[x] = k
    BY DEF Numbers
<1>1. n \in Nat /\ Page \in Nat \ {0} BY FS_CardinalityType, AdminAssumption
<1>2. IsFiniteSet(page) /\ m \in Nat BY <1>m, FS_Subset, FS_CardinalityType
<1>3. PICK f : f = [x \in page |-> rank[x]] OBVIOUS
<1>4. f \in Injection(page, R) BY <1>0, <1>3 DEF Injection, IsInjective
<1>5. IsFiniteSet(R) /\ Cardinality(R) = Page BY <1>1, FS_Interval
<1>6. m <= Page /\ (m = Page <=> f \in Surjection(page, R)) BY <1>m, <1>2, <1>4, <1>5, FS_Injection
<1>7. m \in 0..Page BY <1>1, <1>2, <1>6
<1>8. ASSUME NEW x \in S, rank[x] >= offset, x \notin page
      PROVE  m = Page /\ rank[x] >= offset + Page
    <2>1. rank[x] \in 0..n - 1 /\ rank[x] \notin R BY <1>0, <1>8
    <2>2. rank[x] >= offset + Page BY <1>1, <1>8, <2>1
    <2>3. \A k \in R : \E y \in page : f[y] = k
        <3>1. SUFFICES ASSUME NEW k \in R PROVE \E y \in page : f[y] = k OBVIOUS
        <3>2. k \in 0..n - 1 BY <1>1, <2>1, <2>2
        <3>3. PICK y \in S : rank[y] = k BY <1>0, <3>2
        <3>4. QED BY <1>0, <1>3, <3>3
    <2>4. f \in Surjection(page, R) BY <1>4, <2>3 DEF Injection, Surjection
    <2>5. m = Page BY <1>6, <2>4
    <2>6. QED BY <1>1, <2>1, <2>2, <2>5
<1>9. \A x \in S \ page : rank[x] < offset \/ (m = Page /\ rank[x] >= offset + Page)
    <2> SUFFICES ASSUME NEW x \in S, x \notin page, ~(rank[x] < offset)
                 PROVE  m = Page /\ rank[x] >= offset + Page
        OBVIOUS
    <2>1. rank[x] \in Int /\ offset \in Int BY <1>0, <1>1
    <2>2. rank[x] >= offset BY <2>1
    <2>3. QED BY <1>8, <2>2
<1>10. page = {} => m = 0 BY <1>m, FS_EmptySet
<1>11. QED BY <1>m, <1>7, <1>9, <1>10 DEF ReadsPage

(* The pages an export reads, and the rows before an offset.               *)
Ahead(S, x) == Cardinality({y \in S : y > x})
Behind(S, x) == Cardinality({y \in S : y < x})

(* The rows a page leaves out were read, or wait behind a full page.       *)
LeavesAhead(S, offset, page) ==
    \A x \in S \ page : \/ Ahead(S, x) < offset
                        \/ Cardinality(page) = Page /\ Ahead(S, x) >= offset + Page
LeavesBehind(S, offset, page) ==
    \A x \in S \ page : \/ Behind(S, x) < offset
                        \/ Cardinality(page) = Page /\ Behind(S, x) >= offset + Page

(* A page of records.                                                      *)
LEMMA NewestFacts ==
    ASSUME NEW S, S \subseteq Nat, IsFiniteSet(S), NEW offset \in Nat,
           NEW page, page = Newest(S, offset)
    PROVE  /\ \A x \in S : Ahead(S, x) \in Nat
           /\ Cardinality(page) \in 0..Page
           /\ LeavesAhead(S, offset, page)
           /\ page = {} => Cardinality(page) = 0
<1>1. PICK f : f = [x \in S |-> x] OBVIOUS
<1>2. f \in Injection(S, Int) BY <1>1 DEF Injection, IsInjective
<1>3. PICK rank : rank = Numbering(S, f) OBVIOUS
<1>4. \A x \in S : Over(S, f, x) = {y \in S : y > x} BY <1>1 DEF Over
<1>5. \A x \in S : rank[x] = Ahead(S, x) BY <1>3, <1>4 DEF Ahead, Numbering
<1>6. Numbers(rank, S) BY <1>2, <1>3, Ranks
<1>7. page = {x \in S : rank[x] \in offset..offset + Page - 1} BY <1>5 DEF Newest, Ahead
<1>8. ReadsPage(rank, S, page, offset) BY <1>6, <1>7, PageFacts
<1>9. \A x \in S : rank[x] \in Nat BY <1>6, FS_CardinalityType DEF Numbers
<1>10. QED BY <1>5, <1>8, <1>9 DEF ReadsPage, LeavesAhead

(* A page of lines.                                                        *)
LEMMA OldestFacts ==
    ASSUME NEW S, S \subseteq Nat, IsFiniteSet(S), NEW offset \in Nat,
           NEW page, page = Oldest(S, offset)
    PROVE  /\ \A x \in S : Behind(S, x) \in 0..Cardinality(S) - 1
           /\ Cardinality(page) \in 0..Page
           /\ LeavesBehind(S, offset, page)
<1>1. PICK f : f = [x \in S |-> -x] OBVIOUS
<1>2. f \in Injection(S, Int) BY <1>1 DEF Injection, IsInjective
<1>3. PICK rank : rank = Numbering(S, f) OBVIOUS
<1>4. \A x \in S : Over(S, f, x) = {y \in S : y < x}
    <2>1. \A x, y \in S : x \in Int /\ y \in Int /\ (-y > -x <=> y < x) OBVIOUS
    <2>2. QED BY <1>1, <2>1 DEF Over
<1>5. \A x \in S : rank[x] = Behind(S, x) BY <1>3, <1>4 DEF Behind, Numbering
<1>6. Numbers(rank, S) BY <1>2, <1>3, Ranks
<1>7. page = {x \in S : rank[x] \in offset..offset + Page - 1} BY <1>5 DEF Oldest, Behind
<1>8. ReadsPage(rank, S, page, offset) BY <1>6, <1>7, PageFacts
<1>9. \A x \in S : rank[x] \in 0..Cardinality(S) - 1 BY <1>6 DEF Numbers
<1>10. QED BY <1>5, <1>8, <1>9 DEF ReadsPage, LeavesBehind
-----------------------------------------------------------------------------
(* Paged reads                                                             *)

Succeeded(q) == q.pc = "done" /\ q.status = 200

(* An export that nothing disturbed holds the records ahead of its offset, *)
(* and after its last page all that are left of those it started with.     *)
ExportCovers(q) ==
    /\ q.offset \in Nat /\ q.had \subseteq 1..nextId - 1
    /\ q.pc = "export" => \A x \in q.had \cap recs : Ahead(recs, x) < q.offset => x \in q.seen
    /\ q.pc = "flush" \/ Succeeded(q) => q.had \cap recs \subseteq q.seen

(* A scan that nothing disturbed has read the lines before its offset.     *)
ScanCovers(q) ==
    /\ q.offset \in Nat
    /\ q.pc \in {"scan", "countLines", "scanLines"} => q.had \subseteq lines
    /\ q.pc = "scan" => q.offset = 0
    /\ q.pc \in {"countLines", "scanLines"} =>
          \A x \in q.had : Behind(lines, x) < q.offset => x \in q.seen
    /\ q.pc = "scanLines" =>
          q.total \in Nat /\ \A x \in q.had : Behind(lines, x) < q.total
    /\ q.pc = "scanSpans" \/ Succeeded(q) => q.had \subseteq q.seen \/ q.offset >= AnalysisRows

Covers(q) ==
    ~q.shifted => /\ q.ask.kind = "export" => ExportCovers(q)
                  /\ q.ask.kind = "scan" => ScanCovers(q)

CoverInv ==
    /\ nextId \in Nat \ {0} /\ recs \subseteq 1..nextId - 1 /\ lines \subseteq 1..MaxLines
    /\ \A r \in Clients : Covers(req[r])

(* A request that neither exports nor scans reads no pages.                *)
LEMMA NoPages == ASSUME NEW q, q.ask.kind \notin {"export", "scan"} PROVE Covers(q)
BY DEF Covers

(* A request that was refused, failed or had its rows taken promises       *)
(* nothing.                                                                *)
LEMMA NoPromise ==
    ASSUME NEW o, NEW q, Covers(o), Shaped(q), q.ask = o.ask, q.pc = "done", q.status # 200,
           q.shifted = o.shifted, q.offset = o.offset, q.had = o.had
    PROVE  Covers(q)
BY DEF Covers, ExportCovers, ScanCovers, Succeeded

(* What a finished request keeps.                                          *)
LEMMA FinishKeeps ==
    ASSUME NEW q, Shaped(q), NEW a, NEW p, p = Finished(q, a)
    PROVE  /\ p.offset = q.offset /\ p.had = q.had /\ p.seen = q.seen
           /\ p.shifted = q.shifted
BY DEF Shaped, Fields, Finished

(* The invariant after a step that changes one request and no table.       *)
LEMMA CoverOne ==
    ASSUME IInv, CoverInv, NEW r \in Clients, NEW q, Covers(q), UNCHANGED <<recs, nextId, lines>>,
           req' = [req EXCEPT ![r] = q]
    PROVE  CoverInv'
<1>1. \A p : Covers(p) => Covers(p)'
    BY DEF Covers, ExportCovers, ScanCovers, Succeeded, Ahead, Behind
<1>2. req = [c \in Clients |-> req[c]] BY DEF IInv
<1>3. \A c \in Clients : req'[c] = (IF c = r THEN q ELSE req[c]) BY <1>2
<1>4. ASSUME NEW c \in Clients, NEW p, p = req'[c] PROVE Covers(p)'
    BY <1>1, <1>3, <1>4 DEF CoverInv
<1>5. \A c \in Clients : Covers(req[c])'
    <2> SUFFICES ASSUME NEW c \in Clients PROVE Covers(req[c])' OBVIOUS
    <2>1. PICK p : p = req'[c] OBVIOUS
    <2>2. Covers(p)' BY <1>4, <2>1
    <2>3. QED BY <2>1, <2>2 DEF Covers, ExportCovers, ScanCovers, Succeeded, Ahead, Behind
<1>6. QED BY <1>5 DEF CoverInv

(* The invariant after a request finished.                                 *)
LEMMA CoverFinishes ==
    ASSUME IInv, CoverInv, NEW r \in Clients, NEW a, Finish(r, a),
           UNCHANGED <<recs, nextId, lines>>,
           \/ req[r].ask.kind \notin {"export", "scan"}
           \/ a.status # 200
           \/ Covers(Finished(req[r], a))
    PROVE  CoverInv'
<1>1. PICK o : o = req[r] OBVIOUS
<1>2. PICK q : q = Finished(o, a) OBVIOUS
<1>3. req' = [req EXCEPT ![r] = q] BY <1>1, <1>2 DEF Finish, Finished
<1>4. Shaped(o) /\ Covers(o) BY <1>1 DEF IInv, CoverInv
<1>5. Shaped(q) /\ q.pc = "done" /\ q.status = a.status /\ q.ask = o.ask
    BY <1>2, <1>4, FinishFields
<1>6. q.offset = o.offset /\ q.had = o.had /\ q.shifted = o.shifted BY <1>2, <1>4, FinishKeeps
<1>7. CASE o.ask.kind \notin {"export", "scan"} BY <1>3, <1>5, <1>7, NoPages, CoverOne
<1>8. CASE a.status # 200
    <2>1. Covers(q) BY <1>4, <1>5, <1>6, <1>8, NoPromise
    <2>2. QED BY <1>3, <2>1, CoverOne
<1>9. CASE Covers(Finished(o, a)) BY <1>2, <1>3, <1>9, CoverOne
<1>10. QED BY <1>1, <1>7, <1>8, <1>9

(* The tables are finite.                                                  *)
LEMMA TablesFinite ==
    ASSUME CoverInv
    PROVE  /\ recs \subseteq Nat /\ IsFiniteSet(recs)
           /\ lines \subseteq Nat /\ IsFiniteSet(lines)
<1>1. nextId \in Nat /\ MaxLines \in Nat BY AdminAssumption DEF CoverInv
<1>2. IsFiniteSet(1..nextId - 1) /\ IsFiniteSet(1..MaxLines) BY <1>1, FS_Interval
<1>3. recs \in SUBSET (1..nextId - 1) /\ lines \in SUBSET (1..MaxLines) BY DEF CoverInv
<1>4. 1..nextId - 1 \subseteq Nat /\ 1..MaxLines \subseteq Nat BY <1>1
<1>5. IsFiniteSet(recs) /\ IsFiniteSet(lines) BY <1>2, <1>3, FS_Subset
<1>6. QED BY <1>3, <1>4, <1>5

(* A request that arrives sees the table it is about to page through.      *)
LEMMA CoverArrive ==
    ASSUME IInv, CoverInv, NEW r \in Clients, Arrive(r)
    PROVE  CoverInv'
<1>1. PICK ask \in Asks[r], says \in [1..setup.authns -> Outcomes] :
          Preflight(r, ask) \/ Guard(r, ask, says)
    BY DEF Arrive
<1>2. UNCHANGED <<recs, nextId, lines>> BY DEF Arrive, store
<1>3. CASE Preflight(r, ask)
    <2>1. PICK q : q = [Idle EXCEPT !.pc = "done", !.ask = ask,
                                    !.status = IF setup.cors THEN 204 ELSE 200]
        OBVIOUS
    <2>2. q.ask = ask BY <2>1 DEF Idle
    <2>3. req' = [req EXCEPT ![r] = q] /\ ask.kind = "preflight" BY <1>3, <2>1 DEF Preflight
    <2>4. Covers(q) BY <2>2, <2>3, NoPages
    <2>5. QED BY <1>2, <2>3, <2>4, CoverOne
<1>4. CASE Guard(r, ask, says)
    <2> DEFINE hd == IF ask.kind = "export" THEN recs ELSE IF ask.kind = "scan" THEN lines ELSE {}
    <2>1. PICK who : who = authenticate(ask, says) OBVIOUS
    <2>2. PICK o : o = Opened(ask, who) OBVIOUS
    <2>3. Shaped(o) /\ o.pc = "idle" /\ o.ask = ask BY <2>2, OpenedFields
    <2>4. /\ o.offset = 0 /\ o.seen = {} /\ o.shifted = FALSE /\ o.status = 0 /\ o.had = {}
        BY <2>2 DEF Opened, Idle
    <2>5. CASE guard(ask, says) = "allowed"
        <3>1. PICK q : q = Entered(o, Entry(ask.kind), hd, ask.batch) OBVIOUS
        <3>2. req' = [req EXCEPT ![r] = q]
            BY <1>4, <2>1, <2>2, <2>5, <3>1 DEF Guard, Entered, Opened
        <3>3. q.pc = Entry(ask.kind) /\ q.ask = ask BY <2>3, <3>1, EnteredFields
        <3>4. q.offset = 0 /\ q.had = hd
            BY <2>3, <2>4, <3>1 DEF Entered, Shaped, Fields
        <3>5. CASE ask.kind = "export"
            <4>1. q.pc = "export" /\ q.had = recs BY <3>3, <3>4, <3>5 DEF Entry
            <4>2. \A x \in recs : Ahead(recs, x) \in Nat
                BY TablesFinite, FS_Subset, FS_CardinalityType DEF Ahead
            <4>3. recs \subseteq 1..nextId - 1 BY DEF CoverInv
            <4>4. \A x \in recs : ~(Ahead(recs, x) < 0) BY <4>2
            <4>5. ExportCovers(q)
                <5>1. q.offset = 0 /\ q.offset \in Nat BY <3>4
                <5>2. \A x \in q.had \cap recs : ~(Ahead(recs, x) < q.offset)
                    BY <4>4, <5>1
                <5>3. ~(q.pc = "flush" \/ Succeeded(q)) BY <4>1 DEF Succeeded
                <5>4. QED BY <4>1, <4>3, <5>1, <5>2, <5>3 DEF ExportCovers
            <4>6. Covers(q) BY <3>3, <3>5, <4>5 DEF Covers
            <4>7. QED BY <1>2, <3>2, <4>6, CoverOne
        <3>6. CASE ask.kind = "scan"
            <4>1. q.pc = "scan" /\ q.had = lines BY <3>3, <3>4, <3>6 DEF Entry
            <4>2. ScanCovers(q) BY <3>4, <4>1 DEF ScanCovers, Succeeded
            <4>3. Covers(q) BY <3>3, <3>6, <4>2 DEF Covers
            <4>4. QED BY <1>2, <3>2, <4>3, CoverOne
        <3>7. CASE ask.kind \notin {"export", "scan"}
            BY <1>2, <3>2, <3>3, <3>7, NoPages, CoverOne
        <3>8. QED BY <3>5, <3>6, <3>7
    <2>6. CASE guard(ask, says) # "allowed"
        <3> DEFINE verdict == guard(ask, says)
                   st == CASE verdict \in {"written", "challenged"} -> 302
                           [] verdict = "unauthorized" -> 401 [] OTHER -> 403
        <3>1. PICK q : q = Refused(o, st) OBVIOUS
        <3>2. req' = [req EXCEPT ![r] = q]
            BY <1>4, <2>1, <2>2, <2>6, <3>1 DEF Guard, Refused, Opened
        <3>3. Shaped(q) /\ q.pc = "done" /\ q.status = st /\ q.ask = ask
            BY <2>3, <3>1, RefusedFields
        <3>4. q.offset = 0 /\ q.had = {} BY <2>3, <2>4, <3>1 DEF Refused, Shaped, Fields
        <3>5. st # 200 OBVIOUS
        <3>6. Covers(q)
            BY <3>3, <3>4, <3>5 DEF Covers, ExportCovers, ScanCovers, Succeeded
        <3>7. QED BY <1>2, <3>2, <3>6, CoverOne
    <2>7. QED BY <2>5, <2>6
<1>5. QED BY <1>1, <1>3, <1>4

(* The handlers that read no pages.                                        *)
LEMMA CoverOther ==
    ASSUME IInv, CoverInv, NEW r \in Clients,
           \/ Handle(r) \/ Extension(r) \/ Ingest(r) \/ AdmitSpan(r) \/ RefuseSpans(r)
           \/ SaveSpans(r) \/ CountSpans(r)
    PROVE  CoverInv'
<1>1. PICK o : o = req[r] OBVIOUS
<1>2. Shaped(o) /\ InHandler(o) BY <1>1 DEF IInv
<1>3. o.pc \in {"handle", "extension", "ingest", "admit", "count"}
    BY <1>1 DEF Handle, Extension, Ingest, AdmitSpan, RefuseSpans, SaveSpans, CountSpans
<1>4. o.ask.kind \notin {"export", "scan"} BY <1>2, <1>3 DEF InHandler
<1>5. UNCHANGED <<recs, nextId, lines>>
    BY DEF Handle, Extension, Ingest, AdmitSpan, RefuseSpans, SaveSpans, CountSpans, store
<1>6. ASSUME \E a : Finish(r, a) PROVE CoverInv'
    BY <1>1, <1>4, <1>5, <1>6, CoverFinishes
<1>7. ASSUME \E pc : req' = [req EXCEPT ![r].pc = pc] PROVE CoverInv'
    <2>1. PICK pc : req' = [req EXCEPT ![r].pc = pc] BY <1>7
    <2>2. PICK q : q = WithPc(o, pc) OBVIOUS
    <2>3. req' = [req EXCEPT ![r] = q] BY <1>1, <2>1, <2>2 DEF WithPc
    <2>4. Covers(q) BY <1>2, <1>4, <2>2, WithPcFields, NoPages
    <2>5. QED BY <1>5, <2>3, <2>4, CoverOne
<1>8. CASE AdmitSpan(r)
    <2> DEFINE s == Head(o.todo)
               isKept == Admit(s, counter) = Kept
    <2>1. PICK q : q = [o EXCEPT !.todo = Tail(@),
                                 !.kept = IF isKept THEN Append(@, Scrub(s)) ELSE @,
                                 !.drops = IF isKept THEN @ ELSE @ + 1]
        OBVIOUS
    <2>2. req' = [req EXCEPT ![r] = q] BY <1>1, <1>8, <2>1 DEF AdmitSpan
    <2> HIDE DEF s, isKept
    <2>3. q.ask = o.ask BY <1>2, <2>1 DEF Shaped, Fields
    <2>4. QED BY <1>4, <1>5, <2>2, <2>3, NoPages, CoverOne
<1>9. CASE Handle(r) BY <1>6, <1>9 DEF Handle
<1>10. CASE Extension(r) BY <1>6, <1>7, <1>10 DEF Extension
<1>11. CASE Ingest(r) BY <1>6, <1>11 DEF Ingest
<1>12. CASE RefuseSpans(r) BY <1>6, <1>12 DEF RefuseSpans
<1>13. CASE SaveSpans(r) BY <1>6, <1>7, <1>13 DEF SaveSpans
<1>14. CASE CountSpans(r) BY <1>6, <1>14 DEF CountSpans
<1>15. QED BY <1>8, <1>9, <1>10, <1>11, <1>12, <1>13, <1>14

(* A page of an export: what lies ahead of the next offset has been read.  *)
LEMMA CoverExport ==
    ASSUME IInv, CoverInv, NEW r \in Clients, Export(r) \/ ExportEnds(r)
    PROVE  CoverInv'
<1>1. PICK o : o = req[r] OBVIOUS
<1>2. Shaped(o) /\ InHandler(o) /\ Covers(o) BY <1>1 DEF IInv, CoverInv
<1>3. UNCHANGED <<recs, nextId, lines>> BY DEF Export, ExportEnds, store
<1>4. recs \subseteq Nat /\ IsFiniteSet(recs) BY TablesFinite
<1>5. CASE Export(r)
    <2>1. o.pc = "export" /\ o.ask.kind = "export" BY <1>1, <1>2, <1>5 DEF Export, InHandler
    <2>2. ~o.shifted => ExportCovers(o) BY <1>2, <2>1 DEF Covers
    <2>3. PICK page : page = Newest(recs, o.offset) OBVIOUS
    <2>4. ASSUME \E n : n # 200 /\ Finish(r, Plain(n)) PROVE CoverInv'
        <3>1. PICK n : n # 200 /\ Finish(r, Plain(n)) BY <2>4
        <3>2. Plain(n).status # 200 BY <3>1 DEF Plain
        <3>3. QED BY <1>3, <3>1, <3>2, CoverFinishes
    <2> DEFINE pc == IF Cardinality(page) < Page THEN "flush" ELSE o.pc
               rows == o.rows + Cardinality(page)
               noted == NoteAccess(o.noted, Cardinality(page))
    <2>5. ASSUME NEW q, q = Paged(o, pc, NextOffset(o.offset), o.seen \cup page, rows, noted),
                 req' = [req EXCEPT ![r] = q], page # {}
          PROVE  CoverInv'
        <3>1. Shaped(q) /\ q.pc = pc /\ q.ask = o.ask BY <1>2, <2>5, PagedFields
        <3>2. /\ q.offset = NextOffset(o.offset) /\ q.seen = o.seen \cup page
              /\ q.had = o.had /\ q.shifted = o.shifted
            BY <1>2, <2>5 DEF Paged, Shaped, Fields
        <3>3. ASSUME ~o.shifted PROVE ExportCovers(q)
            <4>1. o.offset \in Nat /\ o.had \subseteq 1..nextId - 1 BY <2>2, <3>3 DEF ExportCovers
            <4>2. \A x \in o.had \cap recs : Ahead(recs, x) < o.offset => x \in o.seen
                BY <2>1, <2>2, <3>3 DEF ExportCovers
            <4>3. /\ \A x \in recs : Ahead(recs, x) \in Nat
                  /\ Cardinality(page) \in 0..Page /\ Page \in Nat
                  /\ LeavesAhead(recs, o.offset, page)
                BY <1>4, <2>3, <4>1, NewestFacts, AdminAssumption
            <4>4. q.offset \in Nat BY <3>2, <4>1, AdminAssumption DEF NextOffset
            <4>5. \A x \in q.had \cap recs : Ahead(recs, x) < q.offset => x \in q.seen
                BY <3>2, <4>1, <4>2, <4>3 DEF NextOffset, LeavesAhead
            <4>6. Cardinality(page) < Page => q.had \cap recs \subseteq q.seen
                BY <3>2, <4>2, <4>3 DEF LeavesAhead
            <4>7. (q.pc = "flush" \/ Succeeded(q)) => Cardinality(page) < Page
                BY <2>1, <3>1 DEF Succeeded
            <4>8. QED BY <3>2, <4>1, <4>4, <4>5, <4>6, <4>7 DEF ExportCovers
        <3>4. Covers(q) BY <2>1, <3>1, <3>2, <3>3 DEF Covers
        <3>5. QED BY <1>3, <2>5, <3>4, CoverOne
    <2>6. ASSUME NEW q, NEW ok \in BOOLEAN, ~(ok /\ page # {}),
                 q = [o EXCEPT !.pc = "flush", !.shifted = @ \/ ~ok], req' = [req EXCEPT ![r] = q]
          PROVE  CoverInv'
        <3>1. /\ q.pc = "flush" /\ q.ask = o.ask /\ q.shifted = (o.shifted \/ ~ok)
              /\ q.offset = o.offset /\ q.had = o.had /\ q.seen = o.seen
            BY <1>2, <2>6 DEF Shaped, Fields
        <3>2. ASSUME ~q.shifted PROVE ExportCovers(q)
            <4>1. ~o.shifted /\ page = {} BY <2>6, <3>1, <3>2
            <4>2. o.offset \in Nat /\ o.had \subseteq 1..nextId - 1 BY <2>2, <4>1 DEF ExportCovers
            <4>3. \A x \in o.had \cap recs : Ahead(recs, x) < o.offset => x \in o.seen
                BY <2>1, <2>2, <4>1 DEF ExportCovers
            <4>4. Cardinality(page) < Page BY <4>1, FS_EmptySet, AdminAssumption
            <4>5. \A x \in recs : Ahead(recs, x) < o.offset \/ x \in page
                <5>1. /\ Cardinality(page) \in 0..Page
                      /\ LeavesAhead(recs, o.offset, page)
                    BY <1>4, <2>3, <4>2, NewestFacts
                <5>2. Cardinality(page) # Page BY <4>4, <5>1
                <5>3. QED BY <5>1, <5>2 DEF LeavesAhead
            <4>6. q.had \cap recs \subseteq q.seen BY <3>1, <4>1, <4>3, <4>5
            <4>7. QED BY <3>1, <4>2, <4>6 DEF ExportCovers
        <3>3. Covers(q) BY <2>1, <3>1, <3>2 DEF Covers
        <3>4. QED BY <1>3, <2>6, <3>3, CoverOne
    <2>7. CASE ~setup.reader \/ o.ask.format = "other"
        <3>1. \E n \in {400, 501} : Finish(r, Plain(n)) BY ZenonT(30), <1>1, <1>5, <2>7 DEF Export
        <3>2. QED BY <2>4, <3>1
    <2>8. CASE setup.reader /\ o.ask.format # "other"
        <3> DEFINE More ==
                req' = [req EXCEPT ![r] = [o EXCEPT
                           !.pc = IF Cardinality(page) < Page THEN "flush" ELSE @,
                           !.offset = NextOffset(@), !.seen = @ \cup page,
                           !.rows = o.rows + Cardinality(page),
                           !.noted = NoteAccess(o.noted, Cardinality(page))]]
                   Stops(ok) ==
                req' = [req EXCEPT ![r] = [o EXCEPT !.pc = "flush", !.shifted = @ \/ ~ok]]
        <3>1. PICK ok \in BOOLEAN : IF ok /\ page # {} THEN More ELSE Stops(ok)
            BY ZenonT(60), <1>1, <1>5, <2>3, <2>8 DEF Export
        <3>2. CASE ok /\ page # {}
            <4>1. More BY <3>1, <3>2
            <4>2. PICK q : q = Paged(o, pc, NextOffset(o.offset), o.seen \cup page, rows, noted)
                OBVIOUS
            <4>3. req' = [req EXCEPT ![r] = q] BY <4>1, <4>2 DEF Paged
            <4>4. QED BY <2>5, <3>2, <4>2, <4>3
        <3>3. CASE ~(ok /\ page # {})
            <4>1. Stops(ok) BY <3>1, <3>3
            <4>2. PICK q : q = [o EXCEPT !.pc = "flush", !.shifted = @ \/ ~ok] OBVIOUS
            <4>3. QED BY <2>6, <3>3, <4>1, <4>2
        <3>4. QED BY <3>2, <3>3
    <2>9. QED BY <2>7, <2>8
<1>6. CASE ExportEnds(r)
    <2>1. PICK a : a = [status |-> 200, rows |-> o.rows, noted |-> o.noted] OBVIOUS
    <2>2. Finish(r, a) /\ o.pc = "flush" BY <1>1, <1>6, <2>1 DEF ExportEnds
    <2>3. o.ask.kind = "export" BY <1>2, <2>2 DEF InHandler
    <2>4. PICK q : q = Finished(o, a) OBVIOUS
    <2>5. q.ask = o.ask /\ q.pc = "done" BY <1>2, <2>4, FinishFields
    <2>6. /\ q.offset = o.offset /\ q.had = o.had /\ q.seen = o.seen
          /\ q.shifted = o.shifted
        BY <1>2, <2>4, FinishKeeps
    <2>7. Covers(q) BY <1>2, <2>2, <2>3, <2>5, <2>6 DEF Covers, ExportCovers
    <2>8. QED BY <1>1, <1>3, <2>2, <2>4, <2>7, CoverFinishes
<1>7. QED BY <1>5, <1>6

(* The fields of a scan's request after a page.                            *)
Scanned(q, pc, offset, seen) ==
    [q EXCEPT !.seen = seen, !.pc = pc, !.offset = offset, !.total = 0]

(* A page of a scan: the lines before the next offset have been read.      *)
LEMMA CoverScan ==
    ASSUME IInv, CoverInv, NEW r \in Clients,
           ScanRecords(r) \/ CountLines(r) \/ ScanLines(r) \/ ScanSpans(r)
    PROVE  CoverInv'
<1>1. PICK o : o = req[r] OBVIOUS
<1>2. Shaped(o) /\ InHandler(o) /\ Covers(o) BY <1>1 DEF IInv, CoverInv
<1>3. UNCHANGED <<recs, nextId, lines>>
    BY DEF ScanRecords, CountLines, ScanLines, ScanSpans, store
<1>4. o.pc \in {"scan", "countLines", "scanLines", "scanSpans"}
    BY <1>1 DEF ScanRecords, CountLines, ScanLines, ScanSpans
<1>5. o.ask.kind = "scan" BY <1>2, <1>4 DEF InHandler
<1>6. ~o.shifted => ScanCovers(o) BY <1>2, <1>5 DEF Covers
<1>7. ASSUME \E n : n # 200 /\ Finish(r, Plain(n)) PROVE CoverInv'
    <2>1. PICK n : n # 200 /\ Finish(r, Plain(n)) BY <1>7
    <2>2. Plain(n).status # 200 BY <2>1 DEF Plain
    <2>3. QED BY <1>3, <2>1, <2>2, CoverFinishes
<1>8. lines \subseteq Nat /\ IsFiniteSet(lines) BY TablesFinite
<1>9. CASE ScanRecords(r)
    <2>1. o.pc = "scan" BY <1>1, <1>9 DEF ScanRecords
    <2>2. PICK q : q = [o EXCEPT !.pc = "countLines", !.noted = AtMost(AnalysisRows, recs)]
        OBVIOUS
    <2>3. /\ q.pc = "countLines" /\ q.ask = o.ask /\ q.shifted = o.shifted
          /\ q.offset = o.offset /\ q.had = o.had /\ q.seen = o.seen
        BY <1>2, <2>2 DEF Shaped, Fields
    <2>4. ASSUME ~o.shifted PROVE ScanCovers(q)
        <3>1. o.offset = 0 /\ o.had \subseteq lines BY <1>6, <2>1, <2>4 DEF ScanCovers
        <3>2. \A x \in lines : Behind(lines, x) \in Nat
            BY <1>8, FS_Subset, FS_CardinalityType DEF Behind
        <3>3. \A x \in q.had : ~(Behind(lines, x) < q.offset) BY <2>3, <3>1, <3>2
        <3>4. QED BY <2>3, <3>1, <3>3 DEF ScanCovers, Succeeded
    <2>5. Covers(q) BY <1>5, <2>3, <2>4 DEF Covers
    <2>6. CASE req' = [req EXCEPT ![r] = q] BY <1>3, <2>5, <2>6, CoverOne
    <2>7. CASE \E n \in {500, 501} : Finish(r, Plain(n)) BY <1>7, <2>7
    <2>8. QED BY <1>1, <1>9, <2>2, <2>6, <2>7 DEF ScanRecords
<1>10. CASE CountLines(r)
    <2>1. o.pc = "countLines" BY <1>1, <1>10 DEF CountLines
    <2>2. PICK q : q = [o EXCEPT !.pc = "scanLines", !.total = Cardinality(lines)] OBVIOUS
    <2>3. /\ q.pc = "scanLines" /\ q.ask = o.ask /\ q.shifted = o.shifted
          /\ q.offset = o.offset /\ q.had = o.had /\ q.seen = o.seen
          /\ q.total = Cardinality(lines)
        BY <1>2, <2>2 DEF Shaped, Fields
    <2>4. ASSUME ~o.shifted PROVE ScanCovers(q)
        <3>1. o.offset \in Nat /\ o.had \subseteq lines BY <1>6, <2>1, <2>4 DEF ScanCovers
        <3>2. \A x \in o.had : Behind(lines, x) < o.offset => x \in o.seen
            BY <1>6, <2>1, <2>4 DEF ScanCovers
        <3>3. Cardinality(lines) \in Nat BY <1>8, FS_CardinalityType
        <3>4. PICK page : page = Oldest(lines, 0) OBVIOUS
        <3>5. \A x \in lines : Behind(lines, x) \in 0..Cardinality(lines) - 1
            BY <1>8, <3>4, OldestFacts
        <3>6. \A x \in lines : Behind(lines, x) < Cardinality(lines) BY <3>3, <3>5
        <3>7. QED BY <2>3, <3>1, <3>2, <3>3, <3>6 DEF ScanCovers, Succeeded
    <2>5. Covers(q) BY <1>5, <2>3, <2>4 DEF Covers
    <2>6. CASE req' = [req EXCEPT ![r] = q] BY <1>3, <2>5, <2>6, CoverOne
    <2>7. CASE Finish(r, Plain(500)) BY <1>7, <2>7
    <2>8. QED BY <1>1, <1>10, <2>2, <2>6, <2>7 DEF CountLines
<1>11. CASE ScanLines(r)
    <2>1. o.pc = "scanLines" BY <1>1, <1>11 DEF ScanLines
    <2>2. PICK page : page = Oldest(lines, o.offset) OBVIOUS
    <2>3. PICK read : read = o.offset + Cardinality(page) OBVIOUS
    <2>4. PICK last \in BOOLEAN : last = LastPage(Cardinality(page), read, o.total)
        BY DEF LastPage
    <2>5. PICK q : q = Scanned(o, IF last THEN "scanSpans" ELSE "countLines", read,
                               o.seen \cup page)
        OBVIOUS
    <2>6. /\ q.pc = (IF last THEN "scanSpans" ELSE "countLines") /\ q.ask = o.ask
          /\ q.shifted = o.shifted /\ q.offset = read /\ q.had = o.had
          /\ q.seen = o.seen \cup page
        BY <1>2, <2>5 DEF Scanned, Shaped, Fields
    <2>7. ASSUME ~o.shifted PROVE ScanCovers(q)
        <3>1. o.offset \in Nat /\ o.had \subseteq lines /\ o.total \in Nat
            BY <1>6, <2>1, <2>7 DEF ScanCovers
        <3>2. \A x \in o.had : Behind(lines, x) < o.offset => x \in o.seen
            BY <1>6, <2>1, <2>7 DEF ScanCovers
        <3>3. \A x \in o.had : Behind(lines, x) < o.total
            BY <1>6, <2>1, <2>7 DEF ScanCovers
        <3>4. /\ \A x \in lines : Behind(lines, x) \in Nat
              /\ Cardinality(page) \in 0..Page /\ Page \in Nat \ {0}
              /\ LeavesBehind(lines, o.offset, page)
            <4>1. /\ \A x \in lines : Behind(lines, x) \in 0..Cardinality(lines) - 1
                  /\ Cardinality(page) \in 0..Page
                  /\ LeavesBehind(lines, o.offset, page)
                BY <1>8, <2>2, <3>1, OldestFacts
            <4>2. \A x \in lines : Behind(lines, x) \in Nat
                BY <1>8, <4>1, FS_CardinalityType
            <4>3. QED BY <4>1, <4>2, AdminAssumption
        <3>5. Cardinality(page) \in Nat /\ read \in Nat BY <2>3, <3>1, <3>4
        <3>6. \A x \in q.had : Behind(lines, x) < q.offset => x \in q.seen
            BY <2>3, <2>6, <3>1, <3>2, <3>4, <3>5 DEF LeavesBehind
        <3>7. last => q.had \subseteq q.seen \/ q.offset >= AnalysisRows
            <4>1. CASE read >= AnalysisRows BY <2>6, <4>1
            <4>2. CASE Cardinality(page) = 0 \/ read >= o.total
                <5>1. ASSUME NEW x \in o.had, x \notin page PROVE Behind(lines, x) < o.offset
                    <6>1. x \in lines \ page /\ Behind(lines, x) < o.total
                        BY <3>1, <3>3, <5>1
                    <6>2. Behind(lines, x) \in Nat /\ Page # 0 BY <3>4, <6>1
                    <6>3. ~(Cardinality(page) = Page /\ Behind(lines, x) >= o.offset + Page)
                        BY <2>3, <3>1, <3>4, <4>2, <6>1, <6>2
                    <6>4. QED BY <3>4, <6>1, <6>3 DEF LeavesBehind
                <5>2. QED BY <2>6, <3>2, <5>1
            <4>3. QED BY <2>4, <4>1, <4>2 DEF LastPage
        <3>8. ~Succeeded(q) /\ (q.pc = "scanSpans" <=> last) /\ q.pc \notin {"scan", "scanLines"}
            BY <2>6 DEF Succeeded
        <3>9. QED BY <2>6, <3>1, <3>5, <3>6, <3>7, <3>8 DEF ScanCovers
    <2>8. Covers(q) BY <1>5, <2>6, <2>7 DEF Covers
    <2>9. CASE req' = [req EXCEPT ![r] = q] BY <1>3, <2>8, <2>9, CoverOne
    <2>10. CASE Finish(r, Plain(500)) BY <1>7, <2>10
    <2>11. Finish(r, Plain(500)) \/ req' = [req EXCEPT ![r] = q]
        BY ZenonT(30), <1>1, <1>11, <2>2, <2>3, <2>4, <2>5 DEF ScanLines, Scanned
    <2>12. QED BY <2>9, <2>10, <2>11
<1>12. CASE ScanSpans(r)
    <2>1. o.pc = "scanSpans" BY <1>1, <1>12 DEF ScanSpans
    <2>2. ASSUME NEW a, Finish(r, a), a.status = 200 PROVE CoverInv'
        <3>1. PICK q : q = Finished(o, a) OBVIOUS
        <3>2. q.pc = "done" /\ q.ask = o.ask BY <1>2, <3>1, FinishFields
        <3>3. /\ q.offset = o.offset /\ q.had = o.had /\ q.seen = o.seen
              /\ q.shifted = o.shifted
            BY <1>2, <3>1, FinishKeeps
        <3>4. Covers(q) BY <1>5, <1>6, <2>1, <3>2, <3>3 DEF Covers, ScanCovers
        <3>5. QED BY <1>1, <1>3, <2>2, <3>1, <3>4, CoverFinishes
    <2>3. ASSUME NEW read, req' = [req EXCEPT ![r].spanOffset = read] PROVE CoverInv'
        <3>1. PICK q : q = [o EXCEPT !.spanOffset = read] OBVIOUS
        <3>2. /\ q.pc = o.pc /\ q.ask = o.ask /\ q.status = o.status /\ q.offset = o.offset
              /\ q.had = o.had /\ q.seen = o.seen /\ q.shifted = o.shifted
              /\ q.total = o.total
            BY <1>2, <3>1 DEF Shaped, Fields
        <3>3. Covers(q) BY <1>5, <1>6, <3>2 DEF Covers, ScanCovers, Succeeded
        <3>4. req' = [req EXCEPT ![r] = q] BY <1>1, <2>3, <3>1
        <3>5. QED BY <1>3, <3>3, <3>4, CoverOne
    <2>4. CASE Finish(r, Plain(500)) BY <1>7, <2>4
    <2>5. \/ Finish(r, Plain(500))
          \/ Finish(r, [status |-> 200, rows |-> 0, noted |-> o.noted])
          \/ \E read : req' = [req EXCEPT ![r].spanOffset = read]
        BY ZenonT(30), <1>1, <1>12 DEF ScanSpans
    <2>6. QED BY <2>2, <2>3, <2>4, <2>5
<1>13. QED BY <1>9, <1>10, <1>11, <1>12

(* Tables grow and shrink.                                                 *)

(* Marking the requests that are at some point of their handler.           *)
LEMMA ShiftFields ==
    ASSUME IInv, NEW at, req' = Shift(at), NEW c \in Clients, NEW o, o = req[c],
           NEW q, q = req'[c]
    PROVE  /\ q.pc = o.pc /\ q.ask = o.ask /\ q.status = o.status /\ q.offset = o.offset
           /\ q.had = o.had /\ q.seen = o.seen /\ q.total = o.total
           /\ ~q.shifted => ~o.shifted /\ o.pc \notin at
<1>1. Shaped(o) BY DEF IInv
<1>2. q = IF o.pc \in at THEN [o EXCEPT !.shifted = TRUE] ELSE o BY DEF Shift
<1>3. CASE o.pc \in at BY <1>1, <1>2, <1>3 DEF Shaped, Fields
<1>4. CASE o.pc \notin at BY <1>2, <1>4
<1>5. QED BY <1>3, <1>4

(* What the tables may do under a paged read that stays undisturbed.       *)
Undisturbed(o, q) ==
    /\ q.pc = o.pc /\ q.ask = o.ask /\ q.status = o.status /\ q.offset = o.offset
    /\ q.had = o.had /\ q.seen = o.seen /\ q.total = o.total
    /\ ~q.shifted =>
          /\ ~o.shifted
          /\ o.pc = "export" => \A x \in recs \cap recs' : Ahead(recs, x) <= Ahead(recs', x)
          /\ o.pc \in {"scan", "countLines", "scanLines"} =>
                lines \subseteq lines' /\ \A x \in lines : Behind(lines, x) <= Behind(lines', x)
          /\ o.pc = "scanLines" => \A x \in lines : Behind(lines, x) = Behind(lines', x)

(* Ids that were given stay given.                                         *)
LEMMA Widens == ASSUME NEW m \in Nat, NEW n \in Nat, m <= n PROVE 1..m - 1 \subseteq 1..n - 1
OBVIOUS

(* Tables grow, and shrink as far as a read allows or notices.             *)
LEMMA CoverTables ==
    ASSUME IInv, CoverInv, nextId' \in Nat \ {0}, nextId <= nextId',
           recs' \subseteq 1..nextId' - 1, recs' \cap 1..nextId - 1 \subseteq recs,
           lines' \subseteq 1..MaxLines, \A c \in Clients : Undisturbed(req[c], req'[c])
    PROVE  CoverInv'
<1>1. nextId \in Nat \ {0} /\ recs \subseteq 1..nextId - 1 /\ lines \subseteq 1..MaxLines
    BY DEF CoverInv
<1>2. recs \subseteq Nat /\ IsFiniteSet(recs) /\ lines \subseteq Nat /\ IsFiniteSet(lines)
    BY TablesFinite
<1>3. \A x : x \in recs => Ahead(recs, x) \in Nat
    BY <1>2, FS_Subset, FS_CardinalityType DEF Ahead
<1>4. \A x : x \in lines => Behind(lines, x) \in Nat
    BY <1>2, FS_Subset, FS_CardinalityType DEF Behind
<1>5. IsFiniteSet(recs') /\ IsFiniteSet(lines')
    <2>1. IsFiniteSet(1..nextId' - 1) /\ IsFiniteSet(1..MaxLines)
        <3>1. nextId' - 1 \in Int /\ MaxLines \in Int /\ 1 \in Int BY AdminAssumption
        <3>2. QED BY <3>1, FS_Interval
    <2>2. recs' \in SUBSET (1..nextId' - 1) /\ lines' \in SUBSET (1..MaxLines) OBVIOUS
    <2>3. QED BY <2>1, <2>2, FS_Subset
<1>6. \A x : x \in recs' => Ahead(recs', x) \in Nat
    BY <1>5, FS_Subset, FS_CardinalityType DEF Ahead
<1>7. \A x : x \in lines' => Behind(lines', x) \in Nat
    BY <1>5, FS_Subset, FS_CardinalityType DEF Behind
<1>8. ASSUME NEW c \in Clients PROVE Covers(req[c])'
    <2>1. PICK o : o = req[c] OBVIOUS
    <2>2. PICK q : q = req'[c] OBVIOUS
    <2>3. Covers(o) /\ Undisturbed(o, q) BY <2>1, <2>2 DEF CoverInv
    <2>4. ASSUME ~q.shifted, q.ask.kind = "export" PROVE ExportCovers(q)'
        <3>1. ExportCovers(o) BY <2>3, <2>4 DEF Covers, Undisturbed
        <3>2. q.offset \in Nat /\ q.had \subseteq 1..nextId - 1
            BY <2>3, <3>1 DEF ExportCovers, Undisturbed
        <3>3. 1..nextId - 1 \subseteq 1..nextId' - 1
            BY <1>1, Widens
        <3>4. q.had \cap recs' \subseteq o.had \cap recs BY <2>3, <3>2 DEF Undisturbed
        <3>5. ASSUME q.pc = "export", NEW x \in q.had \cap recs', Ahead(recs', x) < q.offset
              PROVE  x \in q.seen
            <4>1. x \in o.had \cap recs BY <3>4
            <4>2. Ahead(recs, x) <= Ahead(recs', x) BY <2>3, <2>4, <3>5, <4>1 DEF Undisturbed
            <4>3. Ahead(recs, x) < q.offset BY <1>3, <1>6, <3>2, <3>5, <4>1, <4>2
            <4>4. QED BY <2>3, <3>1, <3>5, <4>1, <4>3 DEF ExportCovers, Undisturbed
        <3>6. q.pc = "flush" \/ Succeeded(q) => q.had \cap recs' \subseteq q.seen
            BY <2>3, <3>1, <3>4 DEF ExportCovers, Undisturbed, Succeeded
        <3>7. QED BY <3>2, <3>3, <3>5, <3>6 DEF ExportCovers, Succeeded, Ahead
    <2>5. ASSUME ~q.shifted, q.ask.kind = "scan" PROVE ScanCovers(q)'
        <3>1. ScanCovers(o) BY <2>3, <2>5 DEF Covers, Undisturbed
        <3>2. q.offset \in Nat BY <2>3, <3>1 DEF ScanCovers, Undisturbed
        <3>3. q.pc \in {"scan", "countLines", "scanLines"} => q.had \subseteq lines'
            BY <2>3, <2>5, <3>1 DEF ScanCovers, Undisturbed
        <3>4. ASSUME q.pc \in {"countLines", "scanLines"}, NEW x \in q.had,
                     Behind(lines', x) < q.offset
              PROVE  x \in q.seen
            <4>1. x \in lines /\ x \in o.had BY <2>3, <3>1, <3>4 DEF ScanCovers, Undisturbed
            <4>2. Behind(lines, x) <= Behind(lines', x) /\ x \in lines'
                BY <2>3, <2>5, <3>4, <4>1 DEF Undisturbed
            <4>3. Behind(lines, x) < q.offset BY <1>4, <1>7, <3>2, <3>4, <4>1, <4>2
            <4>4. QED BY <2>3, <3>1, <3>4, <4>1, <4>3 DEF ScanCovers, Undisturbed
        <3>5. q.pc = "scan" => q.offset = 0 BY <2>3, <3>1 DEF ScanCovers, Undisturbed
        <3>6. q.pc = "scanSpans" \/ Succeeded(q) =>
                  q.had \subseteq q.seen \/ q.offset >= AnalysisRows
            BY <2>3, <3>1 DEF ScanCovers, Undisturbed, Succeeded
        <3>7. ASSUME q.pc = "scanLines"
              PROVE  q.total \in Nat /\ \A x \in q.had : Behind(lines', x) < q.total
            <4>1. /\ o.pc = "scanLines" /\ q.total = o.total /\ q.had = o.had
                  /\ \A x \in lines : Behind(lines, x) = Behind(lines', x)
                BY <2>3, <2>5, <3>7 DEF Undisturbed
            <4>2. /\ o.total \in Nat /\ o.had \subseteq lines
                  /\ \A x \in o.had : Behind(lines, x) < o.total
                BY <3>1, <4>1 DEF ScanCovers
            <4>3. QED BY <4>1, <4>2
        <3>8. QED BY <3>2, <3>3, <3>4, <3>5, <3>6, <3>7 DEF ScanCovers, Succeeded, Behind
    <2>6. Covers(q)' BY <2>4, <2>5 DEF Covers
    <2>7. QED BY <2>2, <2>6 DEF Covers, ExportCovers, ScanCovers, Succeeded, Ahead, Behind
<1>9. QED BY <1>8 DEF CoverInv

(* More rows, more rows ahead of one.                                      *)
LEMMA MoreAhead ==
    ASSUME NEW S, NEW T, IsFiniteSet(T), S \subseteq T, NEW x
    PROVE  Ahead(S, x) <= Ahead(T, x) /\ Behind(S, x) <= Behind(T, x)
<1>1. /\ IsFiniteSet({y \in T : y > x}) /\ {y \in S : y > x} \in SUBSET {y \in T : y > x}
      /\ IsFiniteSet({y \in T : y < x}) /\ {y \in S : y < x} \in SUBSET {y \in T : y < x}
    BY FS_Subset
<1>2. QED BY <1>1, FS_Subset DEF Ahead, Behind

(* The writer, retention and a purge.                                      *)
LEMMA CoverStore ==
    ASSUME IInv, CoverInv,
           SaveRecord \/ PruneRecords \/ PurgeRecords \/ SaveLine \/ PruneLines
    PROVE  CoverInv'
<1>1. nextId \in Nat \ {0} /\ recs \subseteq 1..nextId - 1 /\ lines \subseteq 1..MaxLines
    BY DEF CoverInv
<1>2. recs \subseteq Nat /\ IsFiniteSet(recs) /\ lines \subseteq Nat /\ IsFiniteSet(lines)
    BY TablesFinite
<1>3. ASSUME NEW x \in recs PROVE Ahead(recs, x) \in Nat
    BY <1>2, FS_Subset, FS_CardinalityType DEF Ahead
<1>4. ASSUME NEW x \in lines PROVE Behind(lines, x) \in Nat
    BY <1>2, FS_Subset, FS_CardinalityType DEF Behind
<1>5. CASE SaveRecord
    <2>1. recs' = recs \cup {nextId} /\ nextId' = nextId + 1 /\ lines' = lines /\ req' = req
        BY <1>5 DEF SaveRecord
    <2>2. PICK n \in Nat \ {0} : n = nextId BY <1>1
    <2>3. 1..n - 1 \subseteq 1..n /\ n \in 1..n /\ n \notin 1..n - 1 BY <2>2
    <2>4. nextId' \in Nat \ {0} /\ nextId <= nextId' /\ nextId' - 1 = n BY <2>1, <2>2
    <2>5. recs' \subseteq 1..nextId' - 1 /\ recs' \cap 1..nextId - 1 \subseteq recs
        BY <1>1, <2>1, <2>2, <2>3, <2>4
    <2>6. IsFiniteSet(recs') BY <1>2, <2>1, FS_AddElement
    <2>7. \A x \in recs : Ahead(recs, x) <= Ahead(recs', x) BY <2>1, <2>6, MoreAhead
    <2>8. \A x \in lines : /\ Behind(lines, x) <= Behind(lines', x)
                           /\ Behind(lines, x) = Behind(lines', x)
        BY <1>4, <2>1
    <2>9. \A c \in Clients : Undisturbed(req[c], req'[c])
        BY <2>1, <2>7, <2>8 DEF Undisturbed
    <2>10. QED BY <1>1, <2>1, <2>4, <2>5, <2>9, CoverTables
<1>6. CASE PruneRecords
    <2>1. recs # {} /\ recs' = recs \ {Min(recs)} /\ nextId' = nextId /\ lines' = lines
          /\ req' = req
        BY <1>6 DEF PruneRecords
    <2>2. \A y \in recs : Min(recs) <= y BY <1>2, <2>1, MinFact
    <2>3. ASSUME NEW x \in recs \cap recs' PROVE Ahead(recs, x) <= Ahead(recs', x)
        <3>1. Min(recs) \in Nat /\ Min(recs) <= x BY <1>2, <2>1, <2>2, MinFact
        <3>2. \A y \in recs : y > x => y # Min(recs) BY <1>2, <3>1
        <3>3. {y \in recs : y > x} = {y \in recs' : y > x} BY <2>1, <3>2
        <3>4. QED BY <1>3, <3>3 DEF Ahead
    <2>4. \A x \in lines : /\ Behind(lines, x) <= Behind(lines', x)
                           /\ Behind(lines, x) = Behind(lines', x)
        BY <1>4, <2>1
    <2>5. \A c \in Clients : Undisturbed(req[c], req'[c])
        BY <2>1, <2>3, <2>4 DEF Undisturbed
    <2>6. nextId' \in Nat \ {0} /\ nextId <= nextId' BY <1>1, <2>1
    <2>7. QED BY <1>1, <2>1, <2>5, <2>6, CoverTables
<1>7. CASE PurgeRecords
    <2>1. /\ recs' \subseteq recs /\ nextId' = nextId /\ lines' = lines
          /\ req' = Shift({"export"})
        BY <1>7 DEF PurgeRecords
    <2>2. \A x \in lines : /\ Behind(lines, x) <= Behind(lines', x)
                           /\ Behind(lines, x) = Behind(lines', x)
        BY <1>4, <2>1
    <2>3. ASSUME NEW c \in Clients PROVE Undisturbed(req[c], req'[c])
        <3>1. PICK o : o = req[c] OBVIOUS
        <3>2. PICK q : q = req'[c] OBVIOUS
        <3>3. Undisturbed(o, q) BY <2>1, <2>2, <3>1, <3>2, ShiftFields DEF Undisturbed
        <3>4. QED BY <3>1, <3>2, <3>3
    <2>4. nextId' \in Nat \ {0} /\ nextId <= nextId' BY <1>1, <2>1
    <2>5. QED BY <1>1, <2>1, <2>3, <2>4, CoverTables
<1>8. CASE SaveLine
    <2>1. PICK l \in 1..MaxLines \ lines :
              /\ lines' = lines \cup {l}
              /\ req' = IF \E x \in lines : x > l THEN Shift({"scanLines"}) ELSE req
        BY <1>8 DEF SaveLine
    <2>2. recs' = recs /\ nextId' = nextId BY <1>8 DEF SaveLine
    <2>3. lines \subseteq lines' /\ lines' \subseteq 1..MaxLines BY <1>1, <2>1
    <2>4. IsFiniteSet(lines') BY <1>2, <2>1, FS_AddElement
    <2>5. \A x \in lines : Behind(lines, x) <= Behind(lines', x) BY <2>3, <2>4, MoreAhead
    <2>6. \A x \in recs : Ahead(recs, x) <= Ahead(recs', x) BY <1>3, <2>2
    <2>7. nextId' \in Nat \ {0} /\ nextId <= nextId' BY <1>1, <2>2
    <2>8. CASE \E x \in lines : x > l
        <3>1. req' = Shift({"scanLines"}) BY <2>1, <2>8
        <3>2. ASSUME NEW c \in Clients PROVE Undisturbed(req[c], req'[c])
            <4>1. PICK o : o = req[c] OBVIOUS
            <4>2. PICK q : q = req'[c] OBVIOUS
            <4>3. Undisturbed(o, q)
                BY <2>3, <2>5, <2>6, <3>1, <4>1, <4>2, ShiftFields DEF Undisturbed
            <4>4. QED BY <4>1, <4>2, <4>3
        <3>3. QED BY <1>1, <2>2, <2>3, <2>7, <3>2, CoverTables
    <2>9. CASE ~\E x \in lines : x > l
        <3>1. req' = req BY <2>1, <2>9
        <3>2. ASSUME NEW x \in lines PROVE Behind(lines, x) = Behind(lines', x)
            <4>1. x \in Int /\ l \in Int /\ ~(x > l) BY <1>2, <2>9, AdminAssumption
            <4>2. {y \in lines : y < x} = {y \in lines' : y < x} BY <2>1, <4>1
            <4>3. QED BY <4>2 DEF Behind
        <3>3. \A c \in Clients : Undisturbed(req[c], req'[c])
            BY <2>3, <2>5, <2>6, <3>1, <3>2 DEF Undisturbed
        <3>4. QED BY <1>1, <2>2, <2>3, <2>7, <3>3, CoverTables
    <2>10. QED BY <2>8, <2>9
<1>9. CASE PruneLines
    <2>1. /\ recs' = recs /\ nextId' = nextId /\ lines' \subseteq lines
          /\ req' = Shift({"scan", "countLines", "scanLines"})
        BY <1>9 DEF PruneLines
    <2>2. \A x \in recs : Ahead(recs, x) <= Ahead(recs', x) BY <1>3, <2>1
    <2>3. ASSUME NEW c \in Clients PROVE Undisturbed(req[c], req'[c])
        <3>1. PICK o : o = req[c] OBVIOUS
        <3>2. PICK q : q = req'[c] OBVIOUS
        <3>3. Undisturbed(o, q) BY <2>1, <2>2, <3>1, <3>2, ShiftFields DEF Undisturbed
        <3>4. QED BY <3>1, <3>2, <3>3
    <2>4. nextId' \in Nat \ {0} /\ nextId <= nextId' BY <1>1, <2>1
    <2>5. QED BY <1>1, <2>1, <2>3, <2>4, CoverTables
<1>10. QED BY <1>5, <1>6, <1>7, <1>8, <1>9

(* The initial states satisfy it.                                          *)
LEMMA CoverInit == Init => CoverInv
<1> SUFFICES ASSUME Init PROVE CoverInv OBVIOUS
<1>1. \A r \in Clients : req[r].ask.kind = "none" BY DEF Init, Idle, NoAsk
<1>2. \A r \in Clients : Covers(req[r]) BY <1>1 DEF Covers
<1>3. nextId \in Nat \ {0} BY AdminAssumption DEF Init
<1>4. QED BY <1>2, <1>3 DEF Init, CoverInv

(* Every step preserves it.                                                *)
LEMMA CoverStep == IInv /\ CoverInv /\ [Next]_vars => CoverInv'
<1> SUFFICES ASSUME IInv, CoverInv, [Next]_vars PROVE CoverInv' OBVIOUS
<1>1. ASSUME NEW r \in Clients, Serve(r) PROVE CoverInv'
    BY <1>1, CoverArrive, CoverOther, CoverExport, CoverScan DEF Serve
<1>2. CASE UNCHANGED vars
    BY ZenonT(30), <1>2 DEF vars, CoverInv, Covers, ExportCovers, ScanCovers, Succeeded,
        Ahead, Behind
<1>3. QED BY <1>1, <1>2, CoverStore DEF Next, Rest

(* An export that no purge, no pruning by age and no failed query disturbed*)
(* holds every record that was there all along, whatever was saved or      *)
(* pruned by count meanwhile; a scan that no deletion of lines disturbed,  *)
(* nor a line that arrived out of order between a count and its page, has  *)
(* read every such line, or as many rows as the cap allows (admin.go,      *)
(* export and scan).                                                       *)
THEOREM PagingCorrect == Spec => []PagedReadsCover
<1>1. ASSUME CoverInv PROVE PagedReadsCover
    BY <1>1 DEF CoverInv, Covers, ExportCovers, ScanCovers, Succeeded, PagedReadsCover
<1>2. QED BY <1>1, InvHolds, CoverInit, CoverStep, PTL DEF Spec
-----------------------------------------------------------------------------
(* Spans                                                                   *)

(* Every span that may be posted, what is left of it, and its request.     *)
Posted == UNION {UNION {Range(ask.batch) : ask \in Asks[r]} : r \in Clients}
Scrubbed == {Scrub(s) : s \in Posted}
Parents == {s.parent : s \in Posted} \ {NoParent}

Accepted(q) == q.ask.kind = "ingestSpans" /\ q.status = 202

(* What one request did with the spans it was sent.                        *)
Ledger(q) ==
    /\ q.kept \in Seq(Scrubbed) /\ q.drops \in Nat
    /\ q.pc \in {"idle", "admit", "count"} => q.status = 0
    /\ q.pc \in {"admit", "count"} =>
          /\ q.ask.batch \in Seq(Posted) /\ q.todo \in Seq(Posted)
          /\ Len(q.kept) + q.drops + Len(q.todo) = Len(q.ask.batch)
    /\ q.pc = "count" => q.todo = <<>>

(* The spans, as pairs of a request and a position, that the requests at a *)
(* point of the handler kept, the ones of a parent among those still being *)
(* admitted, and the ones that were sent in accepted batches.              *)
Held(q, pc) == UNION {{r} \X DOMAIN q[r].kept : r \in {c \in Clients : q[c].pc = pc}}
HeldOf(q, p) == {w \in Held(q, "admit") : q[w[1]].kept[w[2]].parent = p}
Sent(q) == UNION {{r} \X DOMAIN q[r].ask.batch : r \in {c \in Clients : Accepted(q[c])}}

RowsOf(s, p) == {i \in DOMAIN s : s[i].parent = p}

(* A row is counted as stored, or its request is about to count it; what   *)
(* was counted was sent.                                                   *)
Balanced(rows, t, q) ==
    /\ t.stored \in Nat /\ t.dropped \in Nat
    /\ IsFiniteSet(Held(q, "count")) /\ Len(rows) = t.stored + Cardinality(Held(q, "count"))
    /\ IsFiniteSet(Sent(q)) /\ t.stored + t.dropped = Cardinality(Sent(q))

(* The counter remembers at least what was stored and what may still be.   *)
WithinFor(rows, c, q, p) ==
    /\ Remembered(c, p) \in 0..MaxPer /\ IsFiniteSet(HeldOf(q, p))
    /\ Cardinality(RowsOf(rows, p)) + Cardinality(HeldOf(q, p)) <= Remembered(c, p)

Within(rows, c, q) ==
    MaxPer > 0 /\ DOMAIN c.prev = {} => \A p \in Parents : WithinFor(rows, c, q, p)

SpanInv ==
    /\ spanRows \in Seq(Scrubbed)
    /\ \A r \in Clients : Ledger(req[r])
    /\ Balanced(spanRows, tally, req) /\ Within(spanRows, counter, req)

(* What scrubbing a span leaves.                                           *)
LEMMA ScrubFacts ==
    ASSUME NEW s \in Posted
    PROVE  /\ Scrub(s) \in Scrubbed /\ Scrub(s).parent = s.parent
           /\ \A k \in Scrub(s).leaks :
                 k.at \notin SpanPolicy.fields /\ k.pattern \notin SpanPolicy.patterns
<1>1. {"parent", "leaks"} \subseteq DOMAIN s BY AdminAssumption DEF Posted
<1>2. Scrub(s) \in Scrubbed BY DEF Scrubbed
<1>3. PICK u : u = Scrub(s) OBVIOUS
<1>4. u.parent = s.parent BY <1>1, <1>3 DEF Scrub
<1>5. u.leaks = {k \in s.leaks : ~(k.at \in SpanPolicy.fields \/ Matched(k))}
    BY <1>1, <1>3 DEF Scrub
<1>6. QED BY <1>2, <1>3, <1>4, <1>5 DEF Matched

(* A batch is made of posted spans.                                        *)
LEMMA BatchFacts ==
    ASSUME NEW r \in Clients, NEW ask \in Asks[r]
    PROVE  ask.batch \in Seq(Posted)
<1>1. PICK b : b = ask.batch OBVIOUS
<1>2. b \in Seq(Range(b)) BY <1>1, AdminAssumption
<1>3. Range(b) \subseteq Posted BY <1>1 DEF Posted
<1>4. QED BY <1>1, <1>2, <1>3

(* Pairs of other requests than r, and functions that differ only at r.    *)
Apart(S, r) == \A w \in S : w[1] # r
Beside(q, u, r) == \A c \in Clients \ {r} : u[c] = q[c]

(* The positions of one sequence beside pairs of other requests.           *)
LEMMA PairsGrow ==
    ASSUME NEW S, IsFiniteSet(S), NEW r, Apart(S, r), NEW I, IsFiniteSet(I)
    PROVE  /\ IsFiniteSet(S \cup ({r} \X I))
           /\ Cardinality(S \cup ({r} \X I)) = Cardinality(S) + Cardinality(I)
<1> DEFINE T == {r} \X I
<1>1. IsFiniteSet({r}) /\ Cardinality({r}) = 1 BY FS_Singleton
<1>2. IsFiniteSet(T) /\ Cardinality(T) = 1 * Cardinality(I) BY <1>1, FS_Product
<1>3. S \cap T = {} BY DEF Apart
<1>4. Cardinality(S) \in Nat /\ Cardinality(I) \in Nat BY FS_CardinalityType
<1> HIDE DEF T
<1>5. /\ IsFiniteSet(S \cup T)
      /\ Cardinality(S \cup T) = Cardinality(S) + Cardinality(T) - Cardinality(S \cap T)
    BY <1>2, FS_Union
<1>6. Cardinality(S \cap T) = 0 BY <1>3, FS_EmptySet
<1>7. QED BY <1>2, <1>4, <1>5, <1>6 DEF T

(* The positions of a sequence.                                            *)
LEMMA Positions ==
    ASSUME NEW S, NEW s \in Seq(S)
    PROVE  IsFiniteSet(DOMAIN s) /\ Cardinality(DOMAIN s) = Len(s)
<1>1. DOMAIN s = 1..Len(s) /\ Len(s) \in Nat OBVIOUS
<1>2. QED BY <1>1, FS_Interval

(* The rows of a parent after a batch was appended.                        *)
LEMMA RowsAppended ==
    ASSUME NEW S, NEW s \in Seq(S), NEW t \in Seq(S), NEW p
    PROVE  /\ IsFiniteSet(RowsOf(s, p)) /\ IsFiniteSet(RowsOf(t, p))
           /\ Cardinality(RowsOf(s \o t, p)) =
                 Cardinality(RowsOf(s, p)) + Cardinality(RowsOf(t, p))
<1> DEFINE A == RowsOf(s, p)
           B == RowsOf(t, p)
           C == {Len(s) + i : i \in B}
           f == [i \in B |-> Len(s) + i]
<1>1. A \subseteq DOMAIN s /\ B \subseteq DOMAIN t BY DEF RowsOf
<1>2. IsFiniteSet(A) /\ IsFiniteSet(B) BY <1>1, Positions, FS_Subset
<1>3. DOMAIN s = 1..Len(s) /\ DOMAIN t = 1..Len(t) /\ Len(s) \in Nat /\ Len(t) \in Nat OBVIOUS
<1>4. RowsOf(s \o t, p) = A \cup C
    <2>1. DOMAIN (s \o t) = 1..Len(s) + Len(t) OBVIOUS
    <2>2. \A i \in 1..Len(s) + Len(t) :
              (s \o t)[i] = IF i <= Len(s) THEN s[i] ELSE t[i - Len(s)]
        OBVIOUS
    <2>3. ASSUME NEW i \in RowsOf(s \o t, p) PROVE i \in A \cup C
        <3>1. i \in 1..Len(s) + Len(t) /\ (s \o t)[i].parent = p BY <2>1, <2>3 DEF RowsOf
        <3>2. CASE i <= Len(s) BY <1>3, <2>2, <3>1, <3>2 DEF RowsOf
        <3>3. CASE ~(i <= Len(s))
            <4>1. i - Len(s) \in 1..Len(t) /\ t[i - Len(s)].parent = p
                BY <1>3, <2>2, <3>1, <3>3
            <4>2. i - Len(s) \in B BY <1>3, <4>1 DEF RowsOf
            <4>3. i = Len(s) + (i - Len(s)) BY <1>3, <3>1
            <4>4. QED BY <4>2, <4>3
        <3>4. QED BY <3>2, <3>3
    <2>4. ASSUME NEW i \in A PROVE i \in RowsOf(s \o t, p)
        BY <1>3, <2>1, <2>2, <2>4 DEF RowsOf
    <2>5. ASSUME NEW j \in B PROVE Len(s) + j \in RowsOf(s \o t, p)
        <3>1. j \in 1..Len(t) /\ t[j].parent = p BY <1>3, <2>5 DEF RowsOf
        <3>2. /\ Len(s) + j \in 1..Len(s) + Len(t) /\ ~(Len(s) + j <= Len(s))
              /\ (Len(s) + j) - Len(s) = j
            BY <1>3, <3>1
        <3>3. (s \o t)[Len(s) + j] = t[j] BY <2>2, <3>2
        <3>4. QED BY <2>1, <3>1, <3>2, <3>3 DEF RowsOf
    <2>6. QED BY <2>3, <2>4, <2>5
<1>5. A \cap C = {}
    <2>1. \A i \in A : i <= Len(s) BY <1>1, <1>3
    <2>2. \A j \in B : ~(Len(s) + j <= Len(s)) BY <1>1, <1>3
    <2>3. QED BY <2>1, <2>2
<1>6. IsFiniteSet(C) /\ Cardinality(C) = Cardinality(B)
    <2>1. B \subseteq Nat BY <1>1, <1>3
    <2>2. f \in [B -> C] OBVIOUS
    <2>3. \A i, j \in B : f[i] = f[j] => i = j BY <1>3, <2>1
    <2>4. \A x \in C : \E i \in B : f[i] = x OBVIOUS
    <2> HIDE DEF f, B, C
    <2>5. f \in Bijection(B, C)
        BY <2>2, <2>3, <2>4 DEF Bijection, Injection, IsInjective, Surjection
    <2>6. ExistsBijection(B, C) BY <2>5 DEF ExistsBijection
    <2>7. QED BY <1>2, <2>6, FS_Bijection
<1>7. Cardinality(A) \in Nat /\ Cardinality(B) \in Nat BY <1>2, FS_CardinalityType
<1> HIDE DEF A, B, C
<1>8. Cardinality(A \cup C) = Cardinality(A) + Cardinality(C) - Cardinality(A \cap C)
    BY <1>2, <1>6, FS_Union
<1>9. Cardinality(A \cap C) = 0 BY <1>5, FS_EmptySet
<1>10. Cardinality(RowsOf(s \o t, p)) = Cardinality(A) + Cardinality(B)
    BY <1>4, <1>6, <1>7, <1>8, <1>9
<1>11. QED BY <1>2, <1>10 DEF A, B

(* A request that counts and accepts what it did before.                   *)
SameAccount(o, q) ==
    /\ q.pc = "count" <=> o.pc = "count"
    /\ q.pc = "count" => q.kept = o.kept
    /\ Accepted(q) <=> Accepted(o)
    /\ Accepted(q) => q.ask.batch = o.ask.batch

(* A request that holds no span for storing that it did not hold before.   *)
NoneAdmitted(o, q) == q.pc = "admit" => q.kept = <<>> \/ (o.pc = "admit" /\ q.kept = o.kept)

(* A request that is where it was, with what it had, or that has nothing   *)
(* to do with stored spans before or after.                                *)
Steady(o, q) ==
    \/ q.pc = o.pc /\ q.status = o.status /\ q.ask = o.ask /\ q.kept = o.kept
    \/ /\ o.pc # "count" /\ q.pc # "count" /\ ~Accepted(o) /\ ~Accepted(q)
       /\ q.pc = "admit" => q.kept = <<>>

(* The balance only depends on what is counted and accepted.               *)
LEMMA BalanceSteady ==
    ASSUME NEW rows, NEW t, NEW q, NEW u, Balanced(rows, t, q),
           \A r \in Clients : SameAccount(q[r], u[r])
    PROVE  Balanced(rows, t, u)
<1>1. ASSUME NEW r \in Clients
      PROVE  /\ u[r].pc = "count" <=> q[r].pc = "count"
             /\ u[r].pc = "count" => u[r].kept = q[r].kept
             /\ Accepted(u[r]) <=> Accepted(q[r])
             /\ Accepted(u[r]) => u[r].ask.batch = q[r].ask.batch
    BY DEF SameAccount
<1>2. \A w : w \in Held(u, "count") <=> w \in Held(q, "count")
    BY <1>1, Zenon DEF Held
<1>3. \A w : w \in Sent(u) <=> w \in Sent(q) BY <1>1, Zenon DEF Sent
<1>4. Held(u, "count") = Held(q, "count") /\ Sent(u) = Sent(q) BY <1>2, <1>3
<1>5. QED BY <1>4 DEF Balanced

(* The cap only depends on what is stored and being admitted.              *)
LEMMA WithinSteady ==
    ASSUME NEW rows \in Seq(Scrubbed), NEW c, NEW q, NEW u, Within(rows, c, q),
           \A r \in Clients : NoneAdmitted(q[r], u[r])
    PROVE  Within(rows, c, u)
<1>1. ASSUME NEW p PROVE HeldOf(u, p) \subseteq HeldOf(q, p)
    <2>1. ASSUME NEW r \in Clients, u[r].pc = "admit", NEW i \in DOMAIN u[r].kept
          PROVE  q[r].pc = "admit" /\ u[r].kept = q[r].kept
        <3>1. DOMAIN <<>> = {} OBVIOUS
        <3>2. QED BY <2>1, <3>1 DEF NoneAdmitted
    <2>2. ASSUME NEW w \in HeldOf(u, p) PROVE w \in HeldOf(q, p)
        <3>1. PICK r \in Clients : u[r].pc = "admit" /\ w \in {r} \X DOMAIN u[r].kept
            BY <2>2 DEF HeldOf, Held
        <3>2. w[1] = r /\ w[2] \in DOMAIN u[r].kept BY <3>1
        <3>3. q[r].pc = "admit" /\ u[r].kept = q[r].kept BY <2>1, <3>1, <3>2
        <3>4. w \in Held(q, "admit") BY <3>1, <3>3 DEF Held
        <3>5. u[w[1]].kept[w[2]].parent = p BY <2>2 DEF HeldOf
        <3>6. q[w[1]].kept[w[2]].parent = p BY <3>2, <3>3, <3>5
        <3>7. QED BY <3>4, <3>6 DEF HeldOf
    <2>3. QED BY <2>2
<1>2. ASSUME MaxPer > 0, DOMAIN c.prev = {}, NEW p \in Parents PROVE WithinFor(rows, c, u, p)
    <2>1. WithinFor(rows, c, q, p) BY <1>2 DEF Within
    <2>2. PICK H : H = HeldOf(q, p) OBVIOUS
    <2>3. PICK K : K = HeldOf(u, p) OBVIOUS
    <2>4. K \in SUBSET H /\ IsFiniteSet(H) BY <1>1, <2>1, <2>2, <2>3 DEF WithinFor
    <2>5. IsFiniteSet(K) /\ Cardinality(K) <= Cardinality(H) BY <2>4, FS_Subset
    <2>6. Cardinality(K) \in Nat /\ Cardinality(H) \in Nat BY <2>4, <2>5, FS_CardinalityType
    <2>7. PICK n : n = Cardinality(RowsOf(rows, p)) OBVIOUS
    <2>8. n \in Nat BY <2>7, RowsAppended, FS_CardinalityType
    <2>9. QED BY <2>1, <2>2, <2>3, <2>5, <2>6, <2>7, <2>8 DEF WithinFor
<1>3. QED BY <1>2 DEF Within

(* Steps in which every request is steady keep the books.                  *)
LEMMA BooksSteady ==
    ASSUME NEW rows \in Seq(Scrubbed), NEW t, NEW c, NEW q, NEW u,
           Balanced(rows, t, q), Within(rows, c, q),
           \A r \in Clients : Steady(q[r], u[r])
    PROVE  Balanced(rows, t, u) /\ Within(rows, c, u)
<1>1. ASSUME NEW r \in Clients PROVE SameAccount(q[r], u[r]) BY DEF Steady, SameAccount, Accepted
<1>2. ASSUME NEW r \in Clients PROVE NoneAdmitted(q[r], u[r]) BY DEF Steady, NoneAdmitted
<1>3. QED BY <1>1, <1>2, BalanceSteady, WithinSteady

(* The invariant after a step that changes one request, or marks some, and *)
(* no span, counter or metric.                                             *)
LEMMA SpanSteady ==
    ASSUME SpanInv, UNCHANGED spanState,
           \A c \in Clients : Ledger(req'[c]) /\ Steady(req[c], req'[c])
    PROVE  SpanInv'
<1>1. spanRows' = spanRows /\ counter' = counter /\ tally' = tally BY DEF spanState
<1>2. PICK u : u = req' OBVIOUS
<1>3. Balanced(spanRows, tally, u) /\ Within(spanRows, counter, u)
    BY <1>2, BooksSteady DEF SpanInv
<1>4. Balanced(spanRows', tally', req') /\ Within(spanRows', counter', req')
    BY <1>1, <1>2, <1>3
<1>5. QED BY <1>1, <1>4 DEF SpanInv

(* One request changes.                                                    *)
LEMMA SpanOne ==
    ASSUME IInv, SpanInv, UNCHANGED spanState, NEW r \in Clients, NEW q,
           req' = [req EXCEPT ![r] = q], Ledger(q), Steady(req[r], q)
    PROVE  SpanInv'
<1>1. \A c \in Clients : req'[c] = IF c = r THEN q ELSE req[c] BY DEF IInv
<1>2. \A c \in Clients : Ledger(req[c]) BY DEF SpanInv
<1>3. \A o : Steady(o, o) BY DEF Steady
<1>4. \A c \in Clients : Ledger(req'[c]) /\ Steady(req[c], req'[c]) BY <1>1, <1>2, <1>3
<1>5. QED BY <1>4, SpanSteady

(* A request of another route moves on, or finishes.                       *)
LEMMA SpanOther ==
    ASSUME IInv, SpanInv, UNCHANGED spanState, NEW r \in Clients, NEW q,
           req' = [req EXCEPT ![r] = q], q.ask = req[r].ask, q.kept = req[r].kept,
           q.drops = req[r].drops,
           q.pc \notin {"idle", "admit", "count"},
           req[r].pc \in AtWork \ {"admit", "count"}
    PROVE  SpanInv'
<1>1. PICK o : o = req[r] OBVIOUS
<1>2. InHandler(o) /\ Ledger(o) BY <1>1 DEF IInv, SpanInv
<1>3. o.ask.kind # "ingestSpans" BY <1>1, <1>2 DEF InHandler, AtWork
<1>4. Ledger(q) BY <1>1, <1>2 DEF Ledger
<1>5. Steady(o, q) BY <1>1, <1>3 DEF Steady, Accepted
<1>6. QED BY <1>1, <1>4, <1>5, SpanOne

(* What a finished request keeps of its spans.                             *)
LEMMA FinishKept ==
    ASSUME NEW q, Shaped(q), NEW a, NEW p, p = Finished(q, a)
    PROVE  p.kept = q.kept /\ p.drops = q.drops
BY DEF Shaped, Fields, Finished

(* A request finishes, and is no accepted batch.                           *)
LEMMA SpanFinishes ==
    ASSUME IInv, SpanInv, UNCHANGED spanState, NEW r \in Clients, NEW a, Finish(r, a),
           \/ req[r].pc \in AtWork \ {"admit", "count"}
           \/ req[r].pc = "admit" /\ a.status # 202
    PROVE  SpanInv'
<1>1. PICK o : o = req[r] OBVIOUS
<1>2. PICK q : q = Finished(o, a) OBVIOUS
<1>3. req' = [req EXCEPT ![r] = q] BY <1>1, <1>2 DEF Finish, Finished
<1>4. Shaped(o) /\ Ledger(o) BY <1>1 DEF IInv, SpanInv
<1>5. /\ q.pc = "done" /\ q.status = a.status /\ q.ask = o.ask
      /\ q.kept = o.kept /\ q.drops = o.drops
    BY <1>2, <1>4, FinishFields, FinishKept
<1>6. CASE o.pc \in AtWork \ {"admit", "count"} BY <1>1, <1>3, <1>5, <1>6, SpanOther
<1>7. CASE o.pc = "admit" /\ a.status # 202
    <2>1. Ledger(q) BY <1>4, <1>5 DEF Ledger
    <2>2. o.status = 0 BY <1>4, <1>7 DEF Ledger
    <2>3. Steady(o, q) BY <1>5, <1>7, <2>2 DEF Steady, Accepted
    <2>4. QED BY <1>1, <1>3, <2>1, <2>3, SpanOne
<1>8. QED BY <1>1, <1>6, <1>7

(* A request arrives: it is refused, or has kept nothing so far.           *)
LEMMA SpanArrive ==
    ASSUME IInv, SpanInv, NEW r \in Clients, Arrive(r)
    PROVE  SpanInv'
<1>1. PICK ask \in Asks[r], says \in [1..setup.authns -> Outcomes] :
          Preflight(r, ask) \/ Guard(r, ask, says)
    BY DEF Arrive
<1>2. UNCHANGED spanState /\ req[r].pc = "idle" BY DEF Arrive
<1>3. ~Accepted(req[r])
    <2>1. req[r].status = 0 BY <1>2 DEF SpanInv, Ledger
    <2>2. QED BY <2>1 DEF Accepted
<1>4. ASSUME NEW q, req' = [req EXCEPT ![r] = q], Ledger(q), ~Accepted(q),
             q.pc # "count", q.kept = <<>>
      PROVE  SpanInv'
    <2>1. Steady(req[r], q) BY <1>2, <1>3, <1>4 DEF Steady
    <2>2. QED BY <1>2, <1>4, <2>1, SpanOne
<1>5. <<>> \in Seq(Scrubbed) /\ Len(<<>>) = 0 OBVIOUS
<1>6. CASE Preflight(r, ask)
    <2>1. PICK q : q = [Idle EXCEPT !.pc = "done", !.ask = ask,
                                    !.status = IF setup.cors THEN 204 ELSE 200]
        OBVIOUS
    <2>2. q.ask = ask /\ q.pc = "done" /\ q.kept = <<>> /\ q.drops = 0 BY <2>1 DEF Idle
    <2>3. req' = [req EXCEPT ![r] = q] /\ ask.kind = "preflight" BY <1>6, <2>1 DEF Preflight
    <2>4. Ledger(q) BY <1>5, <2>2 DEF Ledger
    <2>5. ~Accepted(q) BY <2>2, <2>3 DEF Accepted
    <2>6. QED BY <1>4, <2>2, <2>3, <2>4, <2>5
<1>7. CASE Guard(r, ask, says)
    <2> DEFINE hd == IF ask.kind = "export" THEN recs ELSE IF ask.kind = "scan" THEN lines ELSE {}
    <2>1. PICK who : who = authenticate(ask, says) OBVIOUS
    <2>2. PICK o : o = Opened(ask, who) OBVIOUS
    <2>3. Shaped(o) /\ o.pc = "idle" /\ o.ask = ask BY <2>2, OpenedFields
    <2>4. o.kept = <<>> /\ o.drops = 0 /\ o.status = 0 BY <2>2 DEF Opened, Idle
    <2>5. CASE guard(ask, says) = "allowed"
        <3>1. PICK q : q = Entered(o, Entry(ask.kind), hd, ask.batch) OBVIOUS
        <3>2. req' = [req EXCEPT ![r] = q]
            BY <1>7, <2>1, <2>2, <2>5, <3>1 DEF Guard, Entered, Opened
        <3>3. q.pc = Entry(ask.kind) /\ q.ask = ask BY <2>3, <3>1, EnteredFields
        <3>4. q.kept = <<>> /\ q.drops = 0 /\ q.status = 0 /\ q.todo = ask.batch
            BY <2>3, <2>4, <3>1 DEF Entered, Shaped, Fields
        <3>5. q.pc # "count" BY <3>3 DEF Entry
        <3>6. ask.batch \in Seq(Posted) /\ Len(ask.batch) \in Nat BY BatchFacts
        <3>7. Ledger(q) BY <1>5, <3>3, <3>4, <3>5, <3>6 DEF Ledger
        <3>8. ~Accepted(q) BY <3>4 DEF Accepted
        <3>9. QED BY <1>4, <3>2, <3>4, <3>5, <3>7, <3>8
    <2>6. CASE guard(ask, says) # "allowed"
        <3> DEFINE verdict == guard(ask, says)
                   st == CASE verdict \in {"written", "challenged"} -> 302
                           [] verdict = "unauthorized" -> 401 [] OTHER -> 403
        <3>1. PICK q : q = Refused(o, st) OBVIOUS
        <3>2. req' = [req EXCEPT ![r] = q]
            BY <1>7, <2>1, <2>2, <2>6, <3>1 DEF Guard, Refused, Opened
        <3>3. Shaped(q) /\ q.pc = "done" /\ q.status = st /\ q.ask = ask
            BY <2>3, <3>1, RefusedFields
        <3>4. q.kept = <<>> /\ q.drops = 0 BY <2>3, <2>4, <3>1 DEF Refused, Shaped, Fields
        <3>5. st # 202 OBVIOUS
        <3>6. Ledger(q) BY <1>5, <3>3, <3>4 DEF Ledger
        <3>7. ~Accepted(q) BY <3>3, <3>5 DEF Accepted
        <3>8. QED BY <1>4, <3>2, <3>3, <3>4, <3>6, <3>7
    <2>7. QED BY <2>5, <2>6
<1>8. QED BY <1>1, <1>6, <1>7

(* The handlers of the other routes.                                       *)
LEMMA SpanHandlers ==
    ASSUME IInv, SpanInv, NEW r \in Clients,
           \/ Handle(r) \/ Extension(r) \/ Export(r) \/ ExportEnds(r)
           \/ ScanRecords(r) \/ CountLines(r) \/ ScanLines(r) \/ ScanSpans(r) \/ Ingest(r)
    PROVE  SpanInv'
<1>1. PICK o : o = req[r] OBVIOUS
<1>2. Shaped(o) /\ o.pc \in AtWork \ {"admit", "count"}
    BY <1>1 DEF IInv, AtWork, Handle, Extension, Export, ExportEnds, ScanRecords, CountLines,
                ScanLines, ScanSpans, Ingest
<1>3. UNCHANGED spanState
    BY DEF Handle, Extension, Export, ExportEnds, ScanRecords, CountLines, ScanLines, ScanSpans,
           Ingest
<1>4. ASSUME \E a : Finish(r, a) PROVE SpanInv' BY <1>1, <1>2, <1>3, <1>4, SpanFinishes
<1>5. ASSUME NEW q, req' = [req EXCEPT ![r] = q], q.ask = o.ask, q.kept = o.kept,
             q.drops = o.drops,
             q.pc \notin {"idle", "admit", "count"}
      PROVE  SpanInv'
    BY <1>1, <1>2, <1>3, <1>5, SpanOther
<1>6. CASE Handle(r) BY <1>4, <1>6 DEF Handle
<1>7. CASE Extension(r)
    <2>1. PICK q : q = WithPc(o, "aborted") OBVIOUS
    <2>2. q.pc = "aborted" /\ q.ask = o.ask /\ q.kept = o.kept /\ q.drops = o.drops
        BY <1>2, <2>1 DEF WithPc, Shaped, Fields
    <2>3. CASE req' = [req EXCEPT ![r] = q] BY <1>5, <2>2, <2>3
    <2>4. (\E a : Finish(r, a)) \/ req' = [req EXCEPT ![r] = q]
        BY <1>1, <1>7, <2>1 DEF Extension, WithPc
    <2>5. QED BY <1>4, <2>3, <2>4
<1>8. CASE Export(r)
    <2> DEFINE page == Newest(recs, o.offset)
    <2>1. PICK sent : sent = Paged(o, IF Cardinality(page) < Page THEN "flush" ELSE o.pc,
                                   NextOffset(o.offset), o.seen \cup page,
                                   o.rows + Cardinality(page),
                                   NoteAccess(o.noted, Cardinality(page)))
        OBVIOUS
    <2>2. o.pc = "export" BY <1>1, <1>8 DEF Export
    <2>3. /\ sent.pc \in {"export", "flush"} /\ sent.ask = o.ask
          /\ sent.kept = o.kept /\ sent.drops = o.drops
        BY <1>2, <2>1, <2>2 DEF Paged, Shaped, Fields
    <2>4. ASSUME NEW ok \in BOOLEAN,
                 req' = [req EXCEPT ![r] = [o EXCEPT !.pc = "flush", !.shifted = @ \/ ~ok]]
          PROVE  SpanInv'
        <3>1. PICK q : q = [o EXCEPT !.pc = "flush", !.shifted = @ \/ ~ok] OBVIOUS
        <3>2. q.pc = "flush" /\ q.ask = o.ask /\ q.kept = o.kept /\ q.drops = o.drops
            BY <1>2, <3>1 DEF Shaped, Fields
        <3>3. req' = [req EXCEPT ![r] = q] BY <2>4, <3>1
        <3>4. QED BY <1>5, <3>2, <3>3
    <2>5. CASE req' = [req EXCEPT ![r] = sent] BY <1>5, <2>3, <2>5
    <2>6. \/ \E a : Finish(r, a)
          \/ req' = [req EXCEPT ![r] = sent]
          \/ \E ok \in BOOLEAN :
                req' = [req EXCEPT ![r] = [o EXCEPT !.pc = "flush", !.shifted = @ \/ ~ok]]
        BY ZenonT(30), <1>1, <1>8, <2>1 DEF Export, Paged
    <2>7. QED BY <1>4, <2>4, <2>5, <2>6
<1>9. CASE ExportEnds(r) BY <1>4, <1>9 DEF ExportEnds
<1>10. CASE ScanRecords(r)
    <2>1. PICK q : q = [o EXCEPT !.pc = "countLines", !.noted = AtMost(AnalysisRows, recs)]
        OBVIOUS
    <2>2. q.pc = "countLines" /\ q.ask = o.ask /\ q.kept = o.kept /\ q.drops = o.drops
        BY <1>2, <2>1 DEF Shaped, Fields
    <2>3. CASE req' = [req EXCEPT ![r] = q] BY <1>5, <2>2, <2>3
    <2>4. (\E a : Finish(r, a)) \/ req' = [req EXCEPT ![r] = q]
        BY <1>1, <1>10, <2>1 DEF ScanRecords
    <2>5. QED BY <1>4, <2>3, <2>4
<1>11. CASE CountLines(r)
    <2>1. PICK q : q = [o EXCEPT !.pc = "scanLines", !.total = Cardinality(lines)] OBVIOUS
    <2>2. q.pc = "scanLines" /\ q.ask = o.ask /\ q.kept = o.kept /\ q.drops = o.drops
        BY <1>2, <2>1 DEF Shaped, Fields
    <2>3. CASE req' = [req EXCEPT ![r] = q] BY <1>5, <2>2, <2>3
    <2>4. (\E a : Finish(r, a)) \/ req' = [req EXCEPT ![r] = q]
        BY <1>1, <1>11, <2>1 DEF CountLines
    <2>5. QED BY <1>4, <2>3, <2>4
<1>12. CASE ScanLines(r)
    <2>1. ASSUME NEW page, NEW last, NEW read,
                 req' = [req EXCEPT ![r] = [o EXCEPT !.seen = @ \cup page,
                                   !.pc = IF last THEN "scanSpans" ELSE "countLines",
                                   !.offset = read, !.total = 0]]
          PROVE  SpanInv'
        <3>1. PICK q : q = [o EXCEPT !.seen = @ \cup page,
                                     !.pc = IF last THEN "scanSpans" ELSE "countLines",
                                     !.offset = read, !.total = 0]
            OBVIOUS
        <3>2. /\ q.pc = (IF last THEN "scanSpans" ELSE "countLines")
              /\ q.ask = o.ask /\ q.kept = o.kept /\ q.drops = o.drops
            BY <1>2, <3>1 DEF Shaped, Fields
        <3>3. req' = [req EXCEPT ![r] = q] BY <2>1, <3>1
        <3>4. QED BY <1>5, <3>2, <3>3
    <2>2. \/ \E a : Finish(r, a)
          \/ \E page, last, read :
                req' = [req EXCEPT ![r] = [o EXCEPT !.seen = @ \cup page,
                                   !.pc = IF last THEN "scanSpans" ELSE "countLines",
                                   !.offset = read, !.total = 0]]
        BY ZenonT(30), <1>1, <1>12 DEF ScanLines
    <2>3. QED BY <1>4, <2>1, <2>2
<1>13. CASE ScanSpans(r)
    <2>1. ASSUME NEW read, req' = [req EXCEPT ![r].spanOffset = read] PROVE SpanInv'
        <3>1. PICK q : q = [o EXCEPT !.spanOffset = read] OBVIOUS
        <3>2. q.pc = o.pc /\ q.ask = o.ask /\ q.kept = o.kept /\ q.drops = o.drops
            BY <1>2, <3>1 DEF Shaped, Fields
        <3>3. req' = [req EXCEPT ![r] = q] BY <1>1, <2>1, <3>1
        <3>4. q.pc \notin {"idle", "admit", "count"} BY <1>2, <3>2 DEF AtWork
        <3>5. QED BY <1>5, <3>2, <3>3, <3>4
    <2>2. (\E a : Finish(r, a)) \/ \E read : req' = [req EXCEPT ![r].spanOffset = read]
        BY ZenonT(30), <1>13 DEF ScanSpans
    <2>3. QED BY <1>4, <2>1, <2>2
<1>14. CASE Ingest(r) BY <1>4, <1>14 DEF Ingest
<1>15. QED BY <1>6, <1>7, <1>8, <1>9, <1>10, <1>11, <1>12, <1>13, <1>14
-----------------------------------------------------------------------------
(* The steps of a span ingest.                                             *)

(* What counting a span that the cap allows does to the counter, as long   *)
(* as no generation was forgotten.                                         *)
LEMMA CountFacts ==
    ASSUME NEW c, NEW key, NEW max \in Nat, max > 0, Allows(c, key, max),
           NEW d, d = Count(c, key, max), DOMAIN d.prev = {}
    PROVE  /\ DOMAIN c.prev = {} /\ Remembered(d, key) = Remembered(c, key) + 1
           /\ \A k : k # key => Remembered(d, k) = Remembered(c, k)
           /\ Remembered(c, key) < max
<1> DEFINE full == key \notin DOMAIN c.cur /\ Cardinality(DOMAIN c.cur) >= MaxTracked
           kept == IF full THEN {} ELSE DOMAIN c.cur
           cur == [k \in kept \cup {key} |->
                      IF k = key THEN Remembered(c, key) + 1 ELSE c.cur[k]]
<1>1. d = [prev |-> IF full THEN c.cur ELSE c.prev, cur |-> cur] BY DEF Count
<1>2. d.prev = (IF full THEN c.cur ELSE c.prev) /\ d.cur = cur BY <1>1
<1>3. ~full
    <2>1. CASE DOMAIN c.cur = {}
        <3>1. Cardinality(DOMAIN c.cur) = 0 BY <2>1, FS_EmptySet
        <3>2. QED BY <3>1, CounterAssumption
    <2>2. CASE DOMAIN c.cur # {} BY <1>2, <2>2
    <2>3. QED BY <2>1, <2>2
<1>4. d.prev = c.prev /\ DOMAIN d.cur = DOMAIN c.cur \cup {key} BY <1>2, <1>3
<1>5. d.cur[key] = Remembered(c, key) + 1 BY <1>2
<1>6. \A k \in DOMAIN c.cur : k # key => d.cur[k] = c.cur[k] BY <1>2, <1>3
<1>7. Remembered(d, key) = Remembered(c, key) + 1 BY <1>4, <1>5 DEF Remembered
<1>8. \A k : k # key => Remembered(d, k) = Remembered(c, k)
    BY <1>4, <1>6 DEF Remembered
<1>9. QED BY <1>4, <1>7, <1>8 DEF Allows

(* One more span in a request's hands.                                     *)
LEMMA HeldAppended ==
    ASSUME NEW q, NEW u, NEW r \in Clients, NEW e, NEW p,
           Beside(q, u, r), q[r].pc = "admit", u[r].pc = "admit",
           q[r].kept \in Seq(Scrubbed), u[r].kept = Append(q[r].kept, e)
    PROVE  /\ e.parent # p => HeldOf(u, p) = HeldOf(q, p)
           /\ e.parent = p => HeldOf(u, p) = HeldOf(q, p) \cup {<<r, Len(q[r].kept) + 1>>}
           /\ <<r, Len(q[r].kept) + 1>> \notin HeldOf(q, p)
<1>1. PICK s : s = q[r].kept OBVIOUS
<1>2. PICK t : t = u[r].kept OBVIOUS
<1>3. s \in Seq(Scrubbed) /\ t = Append(s, e) BY <1>1, <1>2
<1>4. DOMAIN s = 1..Len(s) /\ Len(s) \in Nat BY <1>3
<1>5. DOMAIN t = DOMAIN s \cup {Len(s) + 1} /\ Len(s) + 1 \notin DOMAIN s BY <1>3, <1>4
<1>6. t[Len(s) + 1] = e /\ \A i \in DOMAIN s : t[i] = s[i] BY <1>3, <1>4
<1> HIDE <1>3
<1>7. ASSUME NEW w
      PROVE  w \in HeldOf(u, p) <=>
                w \in HeldOf(q, p) \/ (w = <<r, Len(s) + 1>> /\ e.parent = p)
    <2>1. ASSUME w \in HeldOf(u, p)
          PROVE  w \in HeldOf(q, p) \/ (w = <<r, Len(s) + 1>> /\ e.parent = p)
        <3>1. PICK c \in Clients : u[c].pc = "admit" /\ w \in {c} \X DOMAIN u[c].kept
            BY <2>1 DEF HeldOf, Held
        <3>2. w = <<c, w[2]>> /\ w[1] = c /\ w[2] \in DOMAIN u[c].kept BY <3>1
        <3>3. u[c].kept[w[2]].parent = p BY <2>1, <3>2 DEF HeldOf
        <3>4. ASSUME q[c].pc = "admit", w[2] \in DOMAIN q[c].kept,
                     q[c].kept[w[2]].parent = p
              PROVE  w \in HeldOf(q, p)
            <4>1. w \in {c} \X DOMAIN q[c].kept BY <3>2, <3>4
            <4>2. w \in Held(q, "admit") BY <3>4, <4>1 DEF Held
            <4>3. QED BY <3>2, <3>4, <4>2 DEF HeldOf
        <3>5. CASE c # r BY <3>1, <3>2, <3>3, <3>4, <3>5 DEF Beside
        <3>6. CASE c = r
            <4>1. CASE w[2] \in DOMAIN s BY <1>1, <1>2, <1>6, <3>3, <3>4, <3>6, <4>1
            <4>2. CASE w[2] = Len(s) + 1 BY <1>2, <1>6, <3>2, <3>3, <3>6, <4>2
            <4>3. QED BY <1>2, <1>5, <3>2, <3>6, <4>1, <4>2
        <3>7. QED BY <3>5, <3>6
    <2>2. ASSUME w \in HeldOf(q, p) PROVE w \in HeldOf(u, p)
        <3>1. PICK c \in Clients : q[c].pc = "admit" /\ w \in {c} \X DOMAIN q[c].kept
            BY <2>2 DEF HeldOf, Held
        <3>2. w = <<c, w[2]>> /\ w[1] = c /\ w[2] \in DOMAIN q[c].kept BY <3>1
        <3>3. q[c].kept[w[2]].parent = p BY <2>2, <3>2 DEF HeldOf
        <3>4. u[c].pc = "admit" /\ w[2] \in DOMAIN u[c].kept /\ u[c].kept[w[2]].parent = p
            <4>1. CASE c # r BY <3>1, <3>2, <3>3, <4>1 DEF Beside
            <4>2. CASE c = r BY <1>1, <1>2, <1>5, <1>6, <3>2, <3>3, <4>2
            <4>3. QED BY <4>1, <4>2
        <3>5. w \in {c} \X DOMAIN u[c].kept BY <3>2, <3>4
        <3>6. w \in Held(u, "admit") BY <3>4, <3>5 DEF Held
        <3>7. QED BY <3>2, <3>4, <3>6 DEF HeldOf
    <2>3. ASSUME w = <<r, Len(s) + 1>>, e.parent = p PROVE w \in HeldOf(u, p)
        <3>1. w \in {r} \X DOMAIN t BY <1>5, <2>3
        <3>2. w \in Held(u, "admit") BY <1>2, <3>1 DEF Held
        <3>3. QED BY <1>2, <1>6, <2>3, <3>2 DEF HeldOf
    <2>4. QED BY <2>1, <2>2, <2>3
<1>8. <<r, Len(s) + 1>> \notin HeldOf(q, p)
    <2> SUFFICES ASSUME <<r, Len(s) + 1>> \in HeldOf(q, p) PROVE FALSE OBVIOUS
    <2>1. PICK c \in Clients : <<r, Len(s) + 1>> \in {c} \X DOMAIN q[c].kept
        BY DEF HeldOf, Held
    <2>2. QED BY <1>1, <1>5, <2>1
<1>9. QED BY <1>1, <1>7, <1>8

(* A span through the governor.                                            *)
LEMMA SpanAdmit ==
    ASSUME IInv, SpanInv, NEW r \in Clients, AdmitSpan(r)
    PROVE  SpanInv'
<1> DEFINE s == Head(req[r].todo)
           isKept == Admit(s, counter) = Kept
<1>1. PICK o : o = req[r] OBVIOUS
<1>2. PICK n : n = [o EXCEPT !.todo = Tail(@),
                             !.kept = IF isKept THEN Append(@, Scrub(s)) ELSE @,
                             !.drops = IF isKept THEN @ ELSE @ + 1]
    OBVIOUS
<1>3. /\ o.pc = "admit" /\ o.todo # <<>> /\ req' = [req EXCEPT ![r] = n]
      /\ counter' = AfterAdmit(s, counter) /\ spanRows' = spanRows /\ tally' = tally
    BY <1>1, <1>2 DEF AdmitSpan
<1>4. Shaped(o) /\ Ledger(o) BY <1>1 DEF IInv, SpanInv
<1>5. s \in Posted /\ Tail(o.todo) \in Seq(Posted) /\ Len(Tail(o.todo)) = Len(o.todo) - 1
    BY <1>1, <1>3, <1>4 DEF Ledger
<1>6. /\ n.pc = "admit" /\ n.ask = o.ask /\ n.status = o.status /\ n.todo = Tail(o.todo)
      /\ n.kept = (IF isKept THEN Append(o.kept, Scrub(s)) ELSE o.kept)
      /\ n.drops = (IF isKept THEN o.drops ELSE o.drops + 1)
    <2> HIDE DEF s, isKept
    <2>1. QED BY <1>2, <1>3, <1>4 DEF Shaped, Fields
<1>7. Scrub(s) \in Scrubbed /\ Scrub(s).parent = s.parent BY <1>5, ScrubFacts
<1> HIDE DEF s, isKept
<1>8. Ledger(n)
    <2>1. n.kept \in Seq(Scrubbed) BY <1>4, <1>6, <1>7 DEF Ledger
    <2>2. /\ Len(o.kept) \in Nat /\ Len(o.todo) \in Nat /\ o.drops \in Nat
          /\ Len(o.kept) + o.drops + Len(o.todo) = Len(o.ask.batch)
          /\ o.ask.batch \in Seq(Posted) /\ o.status = 0 /\ o.kept \in Seq(Scrubbed)
        BY <1>3, <1>4 DEF Ledger
    <2>3. n.drops \in Nat /\ Len(n.kept) + n.drops + Len(n.todo) = Len(n.ask.batch)
        <3>1. CASE isKept
            <4>1. Len(Append(o.kept, Scrub(s))) = Len(o.kept) + 1 BY <2>2
            <4>2. Len(n.kept) = Len(o.kept) + 1 /\ n.drops = o.drops BY <1>6, <3>1, <4>1
            <4>3. Len(n.todo) = Len(o.todo) - 1 /\ Len(n.ask.batch) = Len(o.ask.batch)
                BY <1>5, <1>6
            <4>4. PICK x \in Nat : x = Len(o.kept) BY <2>2
            <4>5. PICK y \in Nat : y = Len(o.todo) BY <2>2
            <4>6. PICK d \in Nat : d = o.drops BY <2>2
            <4>7. (x + 1) + d + (y - 1) = x + d + y OBVIOUS
            <4>8. QED BY <2>2, <4>2, <4>3, <4>4, <4>5, <4>6, <4>7
        <3>2. CASE ~isKept
            <4>1. n.kept = o.kept /\ n.drops = o.drops + 1 BY <1>6, <3>2
            <4>2. Len(n.todo) = Len(o.todo) - 1 BY <1>5, <1>6
            <4>3. Len(n.ask.batch) = Len(o.ask.batch) BY <1>6
            <4>4. PICK x \in Nat : x = Len(o.kept) BY <2>2
            <4>5. PICK y \in Nat : y = Len(o.todo) BY <2>2
            <4>6. PICK d \in Nat : d = o.drops BY <2>2
            <4>7. x + (d + 1) + (y - 1) = x + d + y /\ d + 1 \in Nat OBVIOUS
            <4>8. QED BY <2>2, <4>1, <4>2, <4>3, <4>4, <4>5, <4>6, <4>7
        <3>3. QED BY <3>1, <3>2
    <2>4. QED BY <1>5, <1>6, <2>1, <2>2, <2>3 DEF Ledger
<1>9. CASE ~isKept
    <2>1. counter' = counter BY <1>3, <1>9 DEF AfterAdmit, isKept
    <2>2. Steady(o, n) BY <1>3, <1>6, <1>9 DEF Steady
    <2>3. QED BY <1>1, <1>3, <1>8, <2>1, <2>2, SpanOne DEF spanState
<1>10. CASE isKept
    <2>1. n.kept = Append(o.kept, Scrub(s)) BY <1>6, <1>10
    <2>2. PICK u : u = req' OBVIOUS
    <2>3. \A c \in Clients : u[c] = IF c = r THEN n ELSE req[c] BY <1>3, <2>2 DEF IInv
    <2>4. \A c \in Clients : Ledger(u[c]) BY <1>8, <2>3 DEF SpanInv
    <2>5. Balanced(spanRows, tally, u)
        <3>1. SameAccount(o, n) BY <1>3, <1>6 DEF SameAccount, Accepted
        <3>2. \A m : SameAccount(m, m) BY DEF SameAccount
        <3>3. \A c \in Clients : SameAccount(req[c], u[c]) BY <1>1, <2>3, <3>1, <3>2
        <3>4. QED BY <3>3, BalanceSteady DEF SpanInv
    <2>6. ASSUME MaxPer > 0, DOMAIN counter'.prev = {}, NEW p \in Parents
          PROVE  WithinFor(spanRows, counter', u, p)
        <3>1. PICK d : d = counter' OBVIOUS
        <3>2. PICK e : e = Scrub(s) OBVIOUS
        <3>3. MaxPer \in Nat BY SpanAssumption DEF MaxPer
        <3>4. o.kept \in Seq(Scrubbed) /\ Len(o.kept) \in Nat BY <1>4 DEF Ledger
        <3>5. p # NoParent BY DEF Parents
        <3>6. /\ e.parent # p => HeldOf(u, p) = HeldOf(req, p)
              /\ e.parent = p => HeldOf(u, p) = HeldOf(req, p) \cup {<<r, Len(o.kept) + 1>>}
              /\ <<r, Len(o.kept) + 1>> \notin HeldOf(req, p)
            <4>1. PICK v : v = req OBVIOUS
            <4>2. Beside(v, u, r) /\ v[r].pc = "admit" /\ u[r].pc = "admit"
                BY <1>1, <1>3, <1>6, <2>3, <4>1 DEF Beside
            <4>3. v[r].kept = o.kept /\ u[r].kept = Append(v[r].kept, e)
                BY <1>1, <2>1, <2>3, <3>2, <4>1
            <4>4. v[r].kept \in Seq(Scrubbed) BY <3>4, <4>3
            <4>5. /\ e.parent # p => HeldOf(u, p) = HeldOf(v, p)
                  /\ e.parent = p => HeldOf(u, p) = HeldOf(v, p) \cup {<<r, Len(v[r].kept) + 1>>}
                  /\ <<r, Len(v[r].kept) + 1>> \notin HeldOf(v, p)
                BY <4>2, <4>3, <4>4, HeldAppended
            <4>6. QED BY <4>1, <4>3, <4>5
        <3>7. PICK H : H = HeldOf(req, p) OBVIOUS
        <3>8. PICK m : m = Cardinality(RowsOf(spanRows, p)) OBVIOUS
        <3>9. m \in Nat BY <3>8, RowsAppended, FS_CardinalityType DEF SpanInv
        <3>10. CASE s.parent = NoParent
            <4>1. d = counter BY <1>3, <3>1, <3>10 DEF AfterAdmit
            <4>2. WithinFor(spanRows, d, req, p) BY <2>6, <3>1, <4>1 DEF SpanInv, Within
            <4>3. HeldOf(u, p) = HeldOf(req, p) BY <1>7, <3>2, <3>5, <3>6, <3>10
            <4>4. QED BY <3>1, <4>2, <4>3 DEF WithinFor
        <3>11. CASE s.parent # NoParent
            <4>1. d = Count(counter, s.parent, MaxPer) /\ Allows(counter, s.parent, MaxPer)
                BY <1>3, <1>10, <3>1, <3>11 DEF AfterAdmit, isKept, Admit, Kept
            <4>2. PICK x : x = s.parent OBVIOUS
            <4>3. /\ DOMAIN counter.prev = {} /\ Remembered(d, x) = Remembered(counter, x) + 1
                  /\ \A k : k # x => Remembered(d, k) = Remembered(counter, k)
                  /\ Remembered(counter, x) < MaxPer
                BY <2>6, <3>1, <3>3, <4>1, <4>2, CountFacts
            <4>4. WithinFor(spanRows, counter, req, p) BY <2>6, <4>3 DEF SpanInv, Within
            <4>5. IsFiniteSet(H) /\ Cardinality(H) \in Nat
                BY <3>7, <4>4, FS_CardinalityType DEF WithinFor
            <4>6. /\ Remembered(counter, p) \in 0..MaxPer
                  /\ m + Cardinality(H) <= Remembered(counter, p)
                BY <3>7, <3>8, <4>4 DEF WithinFor
            <4>7. CASE x # p
                <5>1. HeldOf(u, p) = H /\ Remembered(d, p) = Remembered(counter, p)
                    BY <1>7, <3>2, <3>6, <3>7, <4>2, <4>3, <4>7
                <5>2. QED BY <3>1, <3>8, <4>5, <4>6, <5>1 DEF WithinFor
            <4>8. CASE x = p
                <5>1. HeldOf(u, p) = H \cup {<<r, Len(o.kept) + 1>>}
                    BY <1>7, <3>2, <3>6, <3>7, <4>2, <4>8
                <5>2. <<r, Len(o.kept) + 1>> \notin H BY <3>6, <3>7
                <5>3. IsFiniteSet(HeldOf(u, p)) /\ Cardinality(HeldOf(u, p)) = Cardinality(H) + 1
                    BY <4>5, <5>1, <5>2, FS_AddElement
                <5>4. /\ Remembered(d, p) = Remembered(counter, p) + 1
                      /\ Remembered(counter, p) < MaxPer
                    BY <4>3, <4>8
                <5>5. /\ Remembered(d, p) \in 0..MaxPer
                      /\ m + (Cardinality(H) + 1) <= Remembered(d, p)
                    BY <3>3, <3>9, <4>5, <4>6, <5>4
                <5>6. QED BY <3>1, <3>8, <5>3, <5>5 DEF WithinFor
            <4>9. QED BY <4>7, <4>8
        <3>12. QED BY <3>10, <3>11
    <2>7. Within(spanRows, counter', u) BY <2>6 DEF Within
    <2>8. QED BY <1>3, <2>2, <2>4, <2>5, <2>7 DEF SpanInv
<1>11. QED BY <1>9, <1>10

(* A request leaves the point of the handler where its spans were counted, *)
(* or comes to it.                                                         *)
LEMMA HeldMoves ==
    ASSUME NEW q, NEW u, NEW r \in Clients, NEW pc, Beside(q, u, r),
           q[r].pc = pc, u[r].pc # pc
    PROVE  /\ Held(q, pc) = Held(u, pc) \cup ({r} \X DOMAIN q[r].kept)
           /\ Apart(Held(u, pc), r)
<1>1. PICK I : I = DOMAIN q[r].kept OBVIOUS
<1>2. \A w : w \in Held(u, pc) => w[1] # r
    <2> SUFFICES ASSUME NEW w \in Held(u, pc), w[1] = r PROVE FALSE OBVIOUS
    <2>1. PICK c \in Clients : u[c].pc = pc /\ w \in {c} \X DOMAIN u[c].kept BY DEF Held
    <2>2. QED BY <2>1
<1>3. \A w : w \in Held(u, pc) => w \in Held(q, pc)
    <2> SUFFICES ASSUME NEW w \in Held(u, pc) PROVE w \in Held(q, pc) OBVIOUS
    <2>1. PICK c \in Clients : u[c].pc = pc /\ w \in {c} \X DOMAIN u[c].kept BY DEF Held
    <2>2. u[c] = q[c] BY <2>1 DEF Beside
    <2>3. QED BY <2>1, <2>2 DEF Held
<1>4. \A w \in {r} \X I : w \in Held(q, pc) BY <1>1 DEF Held
<1>5. \A w : w \in Held(q, pc) => w \in Held(u, pc) \/ w \in {r} \X I
    <2> SUFFICES ASSUME NEW w \in Held(q, pc), w \notin {r} \X I PROVE w \in Held(u, pc) OBVIOUS
    <2>1. PICK c \in Clients : q[c].pc = pc /\ w \in {c} \X DOMAIN q[c].kept BY DEF Held
    <2>2. c # r BY <1>1, <2>1
    <2>3. u[c] = q[c] BY <2>2 DEF Beside
    <2>4. QED BY <2>1, <2>3 DEF Held
<1>6. QED BY <1>1, <1>2, <1>3, <1>4, <1>5 DEF Apart

(* The spans of one parent among them.                                     *)
LEMMA HeldOfMoves ==
    ASSUME NEW q, NEW u, NEW r \in Clients, NEW p, Beside(q, u, r),
           q[r].pc = "admit", u[r].pc # "admit"
    PROVE  /\ HeldOf(q, p) = HeldOf(u, p) \cup ({r} \X RowsOf(q[r].kept, p))
           /\ Apart(HeldOf(u, p), r)
<1>1. PICK s : s = q[r].kept OBVIOUS
<1>2. /\ Held(q, "admit") = Held(u, "admit") \cup ({r} \X DOMAIN s)
      /\ Apart(Held(u, "admit"), r)
    BY <1>1, HeldMoves
<1>3. ASSUME NEW w \in Held(u, "admit") PROVE u[w[1]] = q[w[1]] /\ w[1] # r
    <2>1. PICK c \in Clients : w \in {c} \X DOMAIN u[c].kept BY DEF Held
    <2>2. w[1] \in Clients /\ w[1] # r BY <1>2, <2>1 DEF Apart
    <2>3. QED BY <2>2 DEF Beside
<1>4. \A w : w \in HeldOf(u, p) => w \in HeldOf(q, p) /\ w[1] # r
    BY <1>2, <1>3 DEF HeldOf
<1>5. \A i \in RowsOf(s, p) : <<r, i>> \in HeldOf(q, p)
    BY <1>1, <1>2 DEF HeldOf, RowsOf
<1>6. ASSUME NEW w \in HeldOf(q, p) PROVE w \in HeldOf(u, p) \/ w \in {r} \X RowsOf(s, p)
    <2>1. w \in Held(q, "admit") /\ q[w[1]].kept[w[2]].parent = p BY <1>6 DEF HeldOf
    <2>2. CASE w \in Held(u, "admit") BY <1>3, <2>1, <2>2 DEF HeldOf
    <2>3. CASE w \in {r} \X DOMAIN s
        <3>1. w = <<r, w[2]>> /\ w[1] = r /\ w[2] \in DOMAIN s BY <2>3
        <3>2. w[2] \in RowsOf(s, p) BY <1>1, <2>1, <3>1 DEF RowsOf
        <3>3. QED BY <3>1, <3>2
    <2>4. QED BY <1>2, <2>1, <2>2, <2>3
<1>7. QED BY <1>1, <1>4, <1>5, <1>6 DEF Apart

(* A batch is saved, all of it or nothing.                                 *)
LEMMA SpanSave ==
    ASSUME IInv, SpanInv, NEW r \in Clients, SaveSpans(r)
    PROVE  SpanInv'
<1>1. PICK o : o = req[r] OBVIOUS
<1>2. /\ o.pc = "admit" /\ o.todo = <<>> /\ counter' = counter /\ tally' = tally
    BY <1>1 DEF SaveSpans
<1>3. Shaped(o) /\ Ledger(o) BY <1>1 DEF IInv, SpanInv
<1>4. CASE Finish(r, Plain(500)) /\ spanRows' = spanRows
    <2>1. Plain(500).status # 202 BY DEF Plain
    <2>2. QED BY <1>1, <1>2, <1>4, <2>1, SpanFinishes DEF spanState
<1>5. CASE spanRows' = spanRows \o req[r].kept /\ req' = [req EXCEPT ![r].pc = "count"]
    <2>1. PICK n : n = WithPc(o, "count") OBVIOUS
    <2>2. /\ n.pc = "count" /\ n.status = o.status /\ n.ask = o.ask /\ n.kept = o.kept
          /\ n.todo = o.todo /\ n.drops = o.drops
        BY <1>3, <2>1 DEF WithPc, Shaped, Fields
    <2>3. req' = [req EXCEPT ![r] = n] BY <1>1, <1>5, <2>1 DEF WithPc
    <2>4. PICK u : u = req' OBVIOUS
    <2>5. PICK q : q = req OBVIOUS
    <2>6. \A c \in Clients : u[c] = IF c = r THEN n ELSE q[c] BY <2>3, <2>4, <2>5 DEF IInv
    <2>7. q[r] = o /\ u[r] = n /\ Beside(q, u, r) /\ Beside(u, q, r)
        BY <1>1, <2>5, <2>6 DEF Beside
    <2>8. Ledger(n) BY <1>2, <1>3, <2>2 DEF Ledger
    <2>9. \A c \in Clients : Ledger(u[c]) BY <2>5, <2>6, <2>8 DEF SpanInv
    <2>10. PICK rows \in Seq(Scrubbed) : rows = spanRows BY DEF SpanInv
    <2>11. PICK k \in Seq(Scrubbed) : k = o.kept BY <1>3 DEF Ledger
    <2>12. spanRows' = rows \o k BY <1>1, <1>5, <2>10, <2>11
    <2>13. rows \o k \in Seq(Scrubbed) /\ Len(rows \o k) = Len(rows) + Len(k) /\ Len(k) \in Nat
        OBVIOUS
    <2>14. Balanced(rows, tally, q) /\ Within(rows, counter, q)
        BY <2>5, <2>10 DEF SpanInv
    <2>15. Balanced(rows \o k, tally, u)
        <3>1. /\ Held(u, "count") = Held(q, "count") \cup ({r} \X DOMAIN k)
              /\ Apart(Held(q, "count"), r)
            BY <1>2, <2>2, <2>7, <2>11, HeldMoves
        <3>2. IsFiniteSet(DOMAIN k) /\ Cardinality(DOMAIN k) = Len(k) BY Positions
        <3>3. PICK H : H = Held(q, "count") OBVIOUS
        <3>4. /\ IsFiniteSet(H) /\ Len(rows) = tally.stored + Cardinality(H)
              /\ tally.stored \in Nat
            BY <2>14, <3>3 DEF Balanced
        <3>5. /\ IsFiniteSet(H \cup ({r} \X DOMAIN k)) /\ Cardinality(H) \in Nat
              /\ Cardinality(H \cup ({r} \X DOMAIN k)) = Cardinality(H) + Cardinality(DOMAIN k)
            BY <3>1, <3>2, <3>3, <3>4, PairsGrow, FS_CardinalityType
        <3>6. Len(rows \o k) = tally.stored + Cardinality(Held(u, "count"))
            <4>1. Cardinality(Held(u, "count")) = Cardinality(H) + Len(k)
                BY <3>1, <3>2, <3>3, <3>5
            <4>2. QED BY <2>13, <3>4, <3>5, <4>1
        <3>7. ASSUME NEW c \in Clients
              PROVE  /\ Accepted(u[c]) <=> Accepted(q[c])
                     /\ u[c].ask = q[c].ask
            BY <2>2, <2>6, <2>7 DEF Accepted
        <3>8. \A w : w \in Sent(u) <=> w \in Sent(q) BY <3>7, Zenon DEF Sent
        <3>9. Sent(u) = Sent(q) BY <3>8
        <3>10. QED BY <2>14, <3>1, <3>3, <3>5, <3>6, <3>9 DEF Balanced
    <2>16. ASSUME MaxPer > 0, DOMAIN counter.prev = {}, NEW p \in Parents
           PROVE  WithinFor(rows \o k, counter, u, p)
        <3>1. PICK H : H = HeldOf(q, p) OBVIOUS
        <3>2. PICK K : K = HeldOf(u, p) OBVIOUS
        <3>3. PICK A : A = RowsOf(rows, p) OBVIOUS
        <3>4. PICK B : B = RowsOf(k, p) OBVIOUS
        <3>5. /\ Remembered(counter, p) \in 0..MaxPer /\ IsFiniteSet(H)
              /\ Cardinality(A) + Cardinality(H) <= Remembered(counter, p)
            BY <2>14, <2>16, <3>1, <3>3 DEF Within, WithinFor
        <3>6. H = K \cup ({r} \X B) /\ Apart(K, r)
            BY <1>2, <2>2, <2>7, <2>11, <3>1, <3>2, <3>4, HeldOfMoves
        <3>7. /\ IsFiniteSet(A) /\ IsFiniteSet(B)
              /\ Cardinality(RowsOf(rows \o k, p)) = Cardinality(A) + Cardinality(B)
            BY <3>3, <3>4, RowsAppended
        <3>8. IsFiniteSet(K) BY <3>5, <3>6, FS_Subset
        <3>9. Cardinality(H) = Cardinality(K) + Cardinality(B) BY <3>6, <3>7, <3>8, PairsGrow
        <3>10. Cardinality(A) \in Nat /\ Cardinality(B) \in Nat /\ Cardinality(K) \in Nat
            BY <3>7, <3>8, FS_CardinalityType
        <3>11. Cardinality(RowsOf(rows \o k, p)) + Cardinality(K) <= Remembered(counter, p)
            BY <3>5, <3>7, <3>9, <3>10
        <3>12. QED BY <3>2, <3>5, <3>8, <3>11 DEF WithinFor
    <2>17. Within(rows \o k, counter, u) BY <2>16 DEF Within
    <2>18. QED BY <1>2, <2>4, <2>9, <2>12, <2>13, <2>15, <2>17 DEF SpanInv
<1>6. QED BY <1>4, <1>5 DEF SaveSpans

(* A request that finishes an accepted batch: its spans are among the sent.*)
LEMMA SentGrows ==
    ASSUME NEW q, NEW u, NEW r \in Clients, Beside(q, u, r),
           ~Accepted(q[r]), Accepted(u[r])
    PROVE  /\ Sent(u) = Sent(q) \cup ({r} \X DOMAIN u[r].ask.batch)
           /\ Apart(Sent(q), r)
<1>1. PICK I : I = DOMAIN u[r].ask.batch OBVIOUS
<1>2. ASSUME NEW w \in Sent(q) PROVE w \in Sent(u) /\ w[1] # r
    <2>1. PICK c \in Clients : Accepted(q[c]) /\ w \in {c} \X DOMAIN q[c].ask.batch
        BY <1>2 DEF Sent
    <2>2. c # r BY <2>1
    <2>3. u[c] = q[c] BY <2>2 DEF Beside
    <2>4. QED BY <2>1, <2>2, <2>3 DEF Sent
<1>3. \A w \in {r} \X I : w \in Sent(u) BY <1>1 DEF Sent
<1>4. ASSUME NEW w \in Sent(u), w \notin {r} \X I PROVE w \in Sent(q)
    <2>1. PICK c \in Clients : Accepted(u[c]) /\ w \in {c} \X DOMAIN u[c].ask.batch
        BY <1>4 DEF Sent
    <2>2. c # r BY <1>1, <1>4, <2>1
    <2>3. u[c] = q[c] BY <2>2 DEF Beside
    <2>4. QED BY <2>1, <2>3 DEF Sent
<1>5. QED BY <1>1, <1>2, <1>3, <1>4 DEF Apart

(* A saved batch is counted.                                               *)
LEMMA SpanCount ==
    ASSUME IInv, SpanInv, NEW r \in Clients, CountSpans(r)
    PROVE  SpanInv'
<1>1. PICK o : o = req[r] OBVIOUS
<1>2. PICK a : a = Plain(202) OBVIOUS
<1>3. PICK n : n = Finished(o, a) OBVIOUS
<1>4. /\ o.pc = "count" /\ req' = [req EXCEPT ![r] = n] /\ spanRows' = spanRows
      /\ counter' = counter
    BY <1>1, <1>2, <1>3 DEF CountSpans, Finish, Finished
<1>5. tally' = [stored |-> tally.stored + Len(o.kept), dropped |-> tally.dropped + o.drops]
    BY <1>1 DEF CountSpans
<1>6. Shaped(o) /\ Ledger(o) /\ o.ask.kind = "ingestSpans"
    BY <1>1, <1>4 DEF IInv, SpanInv, InHandler
<1>7. /\ n.pc = "done" /\ n.status = 202 /\ n.ask = o.ask
      /\ n.kept = o.kept /\ n.drops = o.drops
    BY <1>2, <1>3, <1>6, FinishFields, FinishKept DEF Plain
<1>8. PICK u : u = req' OBVIOUS
<1>9. PICK q : q = req OBVIOUS
<1>10. \A c \in Clients : u[c] = IF c = r THEN n ELSE q[c] BY <1>4, <1>8, <1>9 DEF IInv
<1>11. q[r] = o /\ u[r] = n /\ Beside(q, u, r) BY <1>1, <1>9, <1>10 DEF Beside
<1>12. Ledger(n) BY <1>6, <1>7 DEF Ledger
<1>13. \A c \in Clients : Ledger(u[c]) BY <1>9, <1>10, <1>12 DEF SpanInv
<1>14. PICK rows \in Seq(Scrubbed) : rows = spanRows BY DEF SpanInv
<1>15. PICK k \in Seq(Scrubbed) : k = o.kept BY <1>6 DEF Ledger
<1>16. PICK b \in Seq(Posted) : b = o.ask.batch BY <1>4, <1>6 DEF Ledger
<1>17. Balanced(rows, tally, q) /\ Within(rows, counter, q) BY <1>9, <1>14 DEF SpanInv
<1>18. o.drops \in Nat /\ Len(k) \in Nat /\ Len(k) + o.drops = Len(b) /\ o.status = 0
    <2>1. Len(<<>>) = 0 OBVIOUS
    <2>2. QED BY <1>4, <1>6, <1>15, <1>16, <2>1 DEF Ledger
<1>19. PICK t : t = tally' OBVIOUS
<1>20. t.stored = tally.stored + Len(k) /\ t.dropped = tally.dropped + o.drops
    BY <1>5, <1>15, <1>19
<1>21. Balanced(rows, t, u)
    <2>1. PICK H : H = Held(q, "count") OBVIOUS
    <2>2. PICK K : K = Held(u, "count") OBVIOUS
    <2>3. H = K \cup ({r} \X DOMAIN k) /\ Apart(K, r)
        <3>1. q[r].pc = "count" /\ u[r].pc # "count" /\ DOMAIN q[r].kept = DOMAIN k
            BY <1>4, <1>7, <1>11, <1>15
        <3>2. /\ Held(q, "count") = Held(u, "count") \cup ({r} \X DOMAIN q[r].kept)
              /\ Apart(Held(u, "count"), r)
            BY <1>11, <3>1, HeldMoves
        <3>3. QED BY <2>1, <2>2, <3>1, <3>2
    <2>4. /\ tally.stored \in Nat /\ tally.dropped \in Nat
          /\ IsFiniteSet(H) /\ Len(rows) = tally.stored + Cardinality(H)
        BY <1>17, <2>1 DEF Balanced
    <2>5. /\ IsFiniteSet(DOMAIN k) /\ Cardinality(DOMAIN k) = Len(k)
          /\ IsFiniteSet(DOMAIN b) /\ Cardinality(DOMAIN b) = Len(b)
        BY Positions
    <2>6. IsFiniteSet(K) BY <2>3, <2>4, FS_Subset
    <2>7. Cardinality(H) = Cardinality(K) + Len(k) /\ Cardinality(K) \in Nat
        <3>1. Cardinality(K \cup ({r} \X DOMAIN k)) = Cardinality(K) + Cardinality(DOMAIN k)
            <4>1. PICK I : I = DOMAIN k OBVIOUS
            <4>2. Apart(K, r) /\ IsFiniteSet(I) BY <2>3, <2>5, <4>1
            <4>3. Cardinality(K \cup ({r} \X I)) = Cardinality(K) + Cardinality(I)
                BY <2>6, <4>2, PairsGrow
            <4>4. QED BY <4>1, <4>3
        <3>2. QED BY <2>3, <2>5, <2>6, <3>1, FS_CardinalityType
    <2>8. PICK S : S = Sent(q) OBVIOUS
    <2>9. ~Accepted(o) /\ Accepted(n) BY <1>6, <1>7, <1>18 DEF Accepted
    <2>10. Sent(u) = S \cup ({r} \X DOMAIN b) /\ Apart(S, r)
        BY <1>7, <1>11, <1>16, <2>8, <2>9, SentGrows
    <2>11. IsFiniteSet(S) /\ tally.stored + tally.dropped = Cardinality(S)
        BY <1>17, <2>8 DEF Balanced
    <2>12. /\ IsFiniteSet(S \cup ({r} \X DOMAIN b))
           /\ Cardinality(S \cup ({r} \X DOMAIN b)) = Cardinality(S) + Len(b)
        BY <2>5, <2>10, <2>11, PairsGrow
    <2>13. t.stored \in Nat /\ t.dropped \in Nat
        <3>1. \A x, y \in Nat : x + y \in Nat OBVIOUS
        <3>2. QED BY <1>18, <1>20, <2>4, <3>1
    <2>14. Len(rows) = t.stored + Cardinality(K) BY <1>18, <1>20, <2>4, <2>7
    <2>15. t.stored + t.dropped = Cardinality(S) + Len(b) BY <1>18, <1>20, <2>4, <2>11
    <2>16. QED BY <2>2, <2>6, <2>10, <2>12, <2>13, <2>14, <2>15 DEF Balanced
<1>22. Within(rows, counter, u)
    <2>1. \A c \in Clients : NoneAdmitted(q[c], u[c]) BY <1>7, <1>10 DEF NoneAdmitted
    <2>2. QED BY <1>17, <2>1, WithinSteady
<1>23. QED BY <1>4, <1>8, <1>13, <1>14, <1>19, <1>21, <1>22 DEF SpanInv
-----------------------------------------------------------------------------
(* A row that retention or a purge took, or one that was saved.            *)
LEMMA SpanStore ==
    ASSUME IInv, SpanInv, UNCHANGED spanState, \/ req' = req
                                               \/ \E at : req' = Shift(at)
    PROVE  SpanInv'
<1>1. ASSUME NEW c \in Clients PROVE Ledger(req'[c]) /\ Steady(req[c], req'[c])
    <2>1. PICK o : o = req[c] OBVIOUS
    <2>2. PICK q : q = req'[c] OBVIOUS
    <2>3. Shaped(o) /\ Ledger(o) BY <2>1 DEF IInv, SpanInv
    <2>4. q = o \/ q = [o EXCEPT !.shifted = TRUE] BY <2>1, <2>2 DEF Shift
    <2>5. /\ q.pc = o.pc /\ q.ask = o.ask /\ q.status = o.status /\ q.todo = o.todo
          /\ q.kept = o.kept /\ q.drops = o.drops
        BY <2>3, <2>4 DEF Shaped, Fields
    <2>6. Ledger(q) BY <2>3, <2>5 DEF Ledger
    <2>7. Steady(o, q) BY <2>5 DEF Steady
    <2>8. QED BY <2>1, <2>2, <2>6, <2>7
<1>2. QED BY <1>1, SpanSteady

(* The initial states satisfy it.                                          *)
LEMMA SpanInit == Init => SpanInv
<1> SUFFICES ASSUME Init PROVE SpanInv OBVIOUS
<1>1. PICK i : i = Idle OBVIOUS
<1>2. i.pc = "idle" /\ i.kept = <<>> /\ i.drops = 0 /\ i.status = 0 BY <1>1 DEF Idle
<1>3. PICK q : q = req OBVIOUS
<1>4. \A r \in Clients : q[r] = i BY <1>1, <1>3 DEF Init
<1>5. spanRows = <<>> /\ tally.stored = 0 /\ tally.dropped = 0 BY DEF Init
<1>6. counter = EmptyCounter BY DEF Init
<1>7. <<>> \in Seq(Scrubbed) /\ Len(<<>>) = 0 OBVIOUS
<1>8. Ledger(i) BY <1>2, <1>7 DEF Ledger
<1>9. IsFiniteSet({}) /\ Cardinality({}) = 0 BY FS_EmptySet
<1>10. Held(q, "count") = {} /\ Held(q, "admit") = {} BY <1>2, <1>4 DEF Held
<1>11. Sent(q) = {} BY <1>2, <1>4 DEF Sent, Accepted
<1>12. Balanced(<<>>, tally, q)
    <2>1. IsFiniteSet(Held(q, "count")) /\ Cardinality(Held(q, "count")) = 0 BY <1>9, <1>10
    <2>2. IsFiniteSet(Sent(q)) /\ Cardinality(Sent(q)) = 0 BY <1>9, <1>11
    <2>3. 0 + 0 = 0 /\ 0 \in Nat OBVIOUS
    <2>4. QED BY <1>5, <1>7, <2>1, <2>2, <2>3 DEF Balanced
<1>13. Within(<<>>, counter, q)
    <2>1. \A p : Remembered(counter, p) = 0 BY <1>6 DEF EmptyCounter, Remembered
    <2>2. MaxPer \in Nat BY SpanAssumption DEF MaxPer
    <2>3. \A p : HeldOf(q, p) = {} BY <1>10 DEF HeldOf
    <2>4. \A p : RowsOf(<<>>, p) = {} BY DEF RowsOf
    <2>5. ASSUME NEW p PROVE WithinFor(<<>>, counter, q, p)
        <3>1. IsFiniteSet(HeldOf(q, p)) /\ Cardinality(HeldOf(q, p)) = 0 BY <1>9, <2>3
        <3>2. Cardinality(RowsOf(<<>>, p)) = 0 BY <1>9, <2>4
        <3>3. Remembered(counter, p) = 0 /\ 0 \in 0..MaxPer /\ 0 + 0 <= 0 BY <2>1, <2>2
        <3>4. QED BY <3>1, <3>2, <3>3 DEF WithinFor
    <2>6. QED BY <2>5 DEF Within
<1>14. QED BY <1>3, <1>4, <1>5, <1>7, <1>8, <1>12, <1>13 DEF SpanInv

(* Every step preserves it.                                                *)
LEMMA SpanStep == IInv /\ SpanInv /\ [Next]_vars => SpanInv'
<1> SUFFICES ASSUME IInv, SpanInv, [Next]_vars PROVE SpanInv' OBVIOUS
<1>1. ASSUME NEW r \in Clients, RefuseSpans(r) PROVE SpanInv'
    <2>1. PICK a : a \in {Plain(501), Plain(400)} /\ Finish(r, a) BY <1>1 DEF RefuseSpans
    <2>2. a.status # 202 BY <2>1 DEF Plain
    <2>3. UNCHANGED spanState /\ req[r].pc = "admit" BY <1>1 DEF RefuseSpans
    <2>4. QED BY <2>1, <2>2, <2>3, SpanFinishes
<1>2. ASSUME NEW r \in Clients, Serve(r) PROVE SpanInv'
    BY <1>1, <1>2, SpanArrive, SpanHandlers, SpanAdmit, SpanSave, SpanCount DEF Serve
<1>3. CASE SaveRecord \/ PruneRecords \/ PurgeRecords \/ SaveLine \/ PruneLines
    <2>1. UNCHANGED spanState
        BY <1>3 DEF SaveRecord, PruneRecords, PurgeRecords, SaveLine, PruneLines
    <2>2. req' = req \/ \E at : req' = Shift(at)
        BY <1>3 DEF SaveRecord, PruneRecords, PurgeRecords, SaveLine, PruneLines
    <2>3. QED BY <2>1, <2>2, SpanStore
<1>4. CASE UNCHANGED vars
    <2>1. UNCHANGED spanState /\ req' = req BY <1>4 DEF vars, spanState
    <2>2. QED BY <2>1, SpanStore
<1>5. QED BY <1>2, <1>3, <1>4 DEF Next, Rest

(* The drops of the batches whose save failed.                             *)
Lost(q) ==
    LET failed == {c \in Clients : q[c].ask.kind = "ingestSpans" /\ q[c].status = 500}
    IN  UNION {{r} \X (1..q[r].drops) : r \in failed}

(* They are finitely many.                                                 *)
LEMMA LostFinite ==
    ASSUME NEW q, \A r \in Clients : q[r].drops \in Nat
    PROVE  IsFiniteSet(Lost(q))
<1>1. PICK S : S = {c \in Clients : q[c].ask.kind = "ingestSpans" /\ q[c].status = 500}
    OBVIOUS
<1>2. PICK T : T = {{r} \X (1..q[r].drops) : r \in S} OBVIOUS
<1>3. PICK f : f = [r \in S |-> {r} \X (1..q[r].drops)] OBVIOUS
<1>4. S \in SUBSET Clients /\ IsFiniteSet(S) BY <1>1, AdminAssumption, FS_Subset
<1>5. f \in Surjection(S, T) BY <1>2, <1>3 DEF Surjection
<1>6. IsFiniteSet(T) BY <1>4, <1>5, FS_Surjection
<1>7. ASSUME NEW A \in T PROVE IsFiniteSet(A)
    <2>1. PICK r \in S : A = {r} \X (1..q[r].drops) BY <1>2
    <2>2. PICK n \in Nat : n = q[r].drops BY <1>4
    <2>3. IsFiniteSet(1..n) BY <2>2, FS_Interval
    <2>4. IsFiniteSet({r}) BY FS_Singleton
    <2>5. QED BY <2>1, <2>2, <2>3, <2>4, FS_Product
<1>8. IsFiniteSet(UNION T) BY <1>6, <1>7, FS_UNION
<1>9. QED BY <1>1, <1>2, <1>8 DEF Lost

(* The spans at rest are scrubbed and, until the counter first forgets a   *)
(* generation of requests, within the cap of their request; when no batch  *)
(* is in flight the metrics tell what happened to every span of the        *)
(* accepted batches, and at most the drops of batches whose save failed are*)
(* in them besides (admin.go, ingestSpans; spans.go, Admit).               *)
THEOREM SpansCorrect == Spec => []SpansAccounted
<1>1. ASSUME IInv, SpanInv PROVE SpansAccounted
    <2>1. ASSUME NEW i \in DOMAIN spanRows, NEW k \in spanRows[i].leaks
          PROVE  k.at \notin SpanPolicy.fields /\ k.pattern \notin SpanPolicy.patterns
        <3>1. spanRows[i] \in Scrubbed BY <1>1 DEF SpanInv
        <3>2. PICK s \in Posted : spanRows[i] = Scrub(s) BY <3>1 DEF Scrubbed
        <3>3. QED BY <3>2, ScrubFacts
    <2>2. ASSUME MaxPer > 0, DOMAIN counter.prev = {},
                 NEW i \in DOMAIN spanRows, NEW p, p = spanRows[i].parent, p # NoParent
          PROVE  Cardinality({j \in DOMAIN spanRows : spanRows[j].parent = p}) <= MaxPer
        <3>1. spanRows[i] \in Scrubbed BY <1>1 DEF SpanInv
        <3>2. PICK s \in Posted : spanRows[i] = Scrub(s) BY <3>1 DEF Scrubbed
        <3>3. p \in Parents BY <2>2, <3>2, ScrubFacts DEF Parents
        <3>4. WithinFor(spanRows, counter, req, p) BY <1>1, <2>2, <3>3 DEF SpanInv, Within
        <3>5. PICK A : A = RowsOf(spanRows, p) OBVIOUS
        <3>6. PICK H : H = HeldOf(req, p) OBVIOUS
        <3>7. IsFiniteSet(A) BY <1>1, <3>5, RowsAppended DEF SpanInv
        <3>8. Cardinality(A) \in Nat /\ Cardinality(H) \in Nat
            BY <3>4, <3>6, <3>7, FS_CardinalityType DEF WithinFor
        <3>9. MaxPer \in Nat BY SpanAssumption DEF MaxPer
        <3>10. Cardinality(A) <= MaxPer BY <3>4, <3>5, <3>6, <3>8, <3>9 DEF WithinFor
        <3>11. QED BY <3>5, <3>10 DEF RowsOf
    <2>3. ASSUME \A r \in Clients : req[r].pc \notin {"admit", "count"}
          PROVE  /\ tally.stored = Len(spanRows)
                 /\ Cardinality(Sent(req)) <= tally.stored + tally.dropped
                 /\ tally.stored + tally.dropped
                        <= Cardinality(Sent(req)) + Cardinality(Lost(req))
        <3>1. Held(req, "count") = {} BY <2>3 DEF Held
        <3>2. Cardinality(Held(req, "count")) = 0 BY <3>1, FS_EmptySet
        <3>3. PICK t : t = tally.stored + tally.dropped OBVIOUS
        <3>4. /\ tally.stored = Len(spanRows)
              /\ IsFiniteSet(Sent(req)) /\ t = Cardinality(Sent(req))
            BY <1>1, <3>2, <3>3 DEF SpanInv, Balanced
        <3>5. t \in Nat BY <3>4, FS_CardinalityType
        <3>6. \A r \in Clients : req[r].drops \in Nat BY <1>1 DEF SpanInv, Ledger
        <3>7. Cardinality(Lost(req)) \in Nat BY <3>6, LostFinite, FS_CardinalityType
        <3>8. t <= t /\ t <= t + Cardinality(Lost(req)) BY <3>5, <3>7
        <3>9. QED BY <3>3, <3>4, <3>8
    <2>4. QED BY <2>1, <2>2, <2>3 DEF SpansAccounted, Sent, Lost, Accepted
<1>2. QED BY <1>1, InvHolds, SpanInit, SpanStep, PTL DEF Spec
=============================================================================
