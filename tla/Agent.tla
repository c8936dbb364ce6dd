------------------------------- MODULE Agent --------------------------------
(***************************************************************************)
(* cli.run: the start-up of the agent, and the reload closure that SIGHUP  *)
(* and POST /api/reload share.                                             *)
(*                                                                         *)
(* The file is replaced as a whole by an edit; what was loaded at start    *)
(* (cfg) builds every part, and a reload replaces only the rule engine and *)
(* the label keys of the metrics.  live is the closure's own notion of the *)
(* configuration in effect.  Reloads run in the goroutine that reads the   *)
(* SIGHUP channel ("hup") and in the handlers of the admin API (Clients).  *)
(***************************************************************************)
EXTENDS Config, TLC

CONSTANTS Docs,       \* what the file may hold at start
          EditDocs,   \* what an edit may put there
          Clients,    \* concurrent POST /api/reload requests
          MaxEdits, MaxSignals

VARIABLES file,     \* the document in the file
          ver,      \* how often it has been edited
          stage,    \* how far start-up has come, or "exited"
          cfg,      \* the configuration loaded at start
          live,     \* the reload closure's live
          eng,      \* the rules of the engine in effect
          keys,     \* the label keys of the metrics in effect
          holder,   \* who holds reloadMu
          pc, got,  \* where each reload is, and what it has loaded
          sig,      \* signals waiting in the channel of capacity one
          named,    \* the settings that warnings have named so far
          asked,    \* the version at the last SIGHUP
          tried,    \* the newest version a reload has read
          refused,  \* the stage at which start-up gave up on the document
          signals   \* SIGHUPs sent so far

agentVars == <<file, ver, stage, cfg, live, eng, keys, holder, pc, got, sig, named,
               asked, tried, refused, signals>>
boot == <<stage, cfg, refused>>
reloadVars == <<live, eng, keys, holder, pc, got, named, tried>>
outside == <<file, ver, sig, asked, signals>>

Actors == {"hup"} \cup Clients
Free == "free"

(* Every document has every setting; a request is neither the goroutine    *)
(* that reads the SIGHUP channel nor nobody.                               *)
ASSUME AgentAssumption ==
    /\ \A doc \in Docs \cup EditDocs : IsDocument(doc)
    /\ Clients \cap {"hup", Free} = {}

LabelKeys(rules) == UNION {{s.name : s \in rules[i].labels} : i \in DOMAIN rules}

AgentInit ==
    /\ file \in Docs
    /\ ver = 0 /\ asked = 0 /\ tried = 0 /\ signals = 0
    /\ stage = "load" /\ refused = Free
    /\ cfg = file /\ live = file /\ eng = <<>> /\ keys = {} /\ named = {}
    /\ holder = Free
    /\ pc = [a \in Actors |-> "idle"] /\ got = [a \in Actors |-> file]
    /\ sig = 0

Exit == stage' = "exited"

(* A start-up step either goes on or ends the process.                     *)
Refuse(reason) == Exit /\ refused' = reason

(* Load and RequireProxyAddrs                                              *)
LoadConfig ==
    /\ stage = "load"
    /\ IF ~Accepts(file) \/ (~CollectorOnly(Parse(file)) /\ ~RequireProxyAddrs(Parse(file)))
       THEN Refuse("load") /\ UNCHANGED <<cfg, reloadVars>>
       ELSE /\ stage' = "store" /\ cfg' = Parse(file)
            /\ live' = cfg' /\ eng' = cfg'.rules /\ got' = [a \in Actors |-> cfg']
            /\ keys' = IF cfg'.metricsOn THEN LabelKeys(cfg'.rules) ELSE {}
            /\ UNCHANGED <<refused, holder, pc, named, tried>>
    /\ UNCHANGED outside

(* openStore: the driver may also fail to open for reasons of its own.     *)
OpenStore ==
    /\ stage = "store"
    /\ \/ StoreKnown(cfg) /\ stage' = "policies" /\ UNCHANGED refused
       \/ cfg.store.driver # "none" /\ Refuse(IF StoreKnown(cfg) THEN "io" ELSE "store")
    /\ UNCHANGED <<cfg, reloadVars, outside>>

(* applog.New, WithRules, spans.New                                        *)
BuildPolicies ==
    /\ stage = "policies"
    /\ IF AppLogPolicyBuilds(cfg) /\ SpanPolicyBuilds(cfg)
       THEN stage' = "exporters" /\ UNCHANGED refused
       ELSE Refuse("policies")
    /\ UNCHANGED <<cfg, reloadVars, outside>>

(* export.New and NewReverseProxy: a sink may fail to open, and the ticker *)
(* of a worker panics when its interval is not positive.                   *)
StartExporters ==
    /\ stage = "exporters"
    /\ IF ~ExportersKnown(cfg) \/ ~ProxyBuilds(cfg) THEN Refuse("exporters")
       ELSE IF TickerPanics(cfg) THEN Refuse("panic")
       ELSE \/ stage' = "signals" /\ UNCHANGED refused
            \/ cfg.exporters # <<>> /\ Refuse("io")
    /\ UNCHANGED <<cfg, reloadVars, outside>>

(* The listeners run in goroutines of their own: a port in use ends the    *)
(* process whatever the main goroutine is doing.                           *)
ListenFails ==
    /\ stage \in {"signals", "serving"} /\ Refuse("io")
    /\ UNCHANGED <<cfg, reloadVars, outside>>

(* signal.Notify for SIGHUP, then for the stop signals.                    *)
NotifySignals ==
    /\ stage = "signals" /\ stage' = "serving"
    /\ UNCHANGED <<cfg, refused, reloadVars, outside>>

(* SIGTERM, an interrupt or the end of the -exec child; AppLogPipeline has *)
(* the order in which the parts are then shut down.                        *)
Stop ==
    /\ stage = "serving" /\ Exit
    /\ UNCHANGED <<cfg, refused, reloadVars, outside>>

(* Edits matter once the file has been loaded; before that they are one    *)
(* more choice of the initial file.                                        *)
Edit(doc) ==
    /\ stage = "serving" /\ ver < MaxEdits
    /\ file' = doc /\ ver' = ver + 1
    /\ UNCHANGED <<sig, asked, signals, boot, reloadVars>>

(* Mutant: no buffer, so a signal that finds the goroutine busy is lost.   *)
DeliverUnbuffered(waiting) == IF waiting < 1 /\ pc["hup"] = "idle" THEN waiting + 1 ELSE waiting

(* A SIGHUP: the runtime drops it when the channel already holds one.      *)
Deliver(waiting) == IF waiting < 1 THEN waiting + 1 ELSE waiting

Hup ==
    /\ stage = "serving" /\ signals < MaxSignals
    /\ sig' = Deliver(sig)
    /\ asked' = ver /\ signals' = signals + 1
    /\ UNCHANGED <<file, ver, boot, reloadVars>>

(* Before Notify the signal has its default effect.                        *)
HupTooEarly ==
    /\ stage \in {"store", "policies", "exporters", "signals"} /\ signals < MaxSignals
    /\ signals' = signals + 1 /\ Refuse("signal")
    /\ UNCHANGED <<cfg, reloadVars, file, ver, sig, asked>>

TakeSignal ==
    /\ stage = "serving" /\ pc["hup"] = "idle" /\ sig = 1
    /\ sig' = 0 /\ pc' = [pc EXCEPT !["hup"] = "lock"]
    /\ UNCHANGED <<boot, live, eng, keys, holder, got, named, tried, file, ver, asked, signals>>

Post(c) ==
    /\ stage = "serving" /\ pc[c] = "idle"
    /\ pc' = [pc EXCEPT ![c] = "lock"]
    /\ UNCHANGED <<boot, outside, live, eng, keys, holder, got, named, tried>>

Goto(a, next) == pc' = [pc EXCEPT ![a] = next]

(* Mutant: the closure without its mutex.                                  *)
NoLock(a) == /\ pc[a] = "lock" /\ Goto(a, "load") /\ UNCHANGED holder

Acquire(a) == /\ pc[a] = "lock" /\ holder = Free
              /\ holder' = a /\ Goto(a, "load")

Lock(a) ==
    /\ stage = "serving" /\ Acquire(a)
    /\ UNCHANGED <<boot, outside, live, eng, keys, got, named, tried>>

(* A rejected file leaves everything as it was.                            *)
Load(a) ==
    /\ stage = "serving" /\ pc[a] = "load"
    /\ tried' = ver
    /\ IF Accepts(file)
       THEN got' = [got EXCEPT ![a] = Parse(file)] /\ Goto(a, "swap") /\ UNCHANGED holder
       ELSE Goto(a, "done") /\ holder' = Free /\ UNCHANGED got
    /\ UNCHANGED <<boot, outside, live, eng, keys, named>>

SwapEngine(a) ==
    /\ stage = "serving" /\ pc[a] = "swap"
    /\ eng' = got[a].rules /\ Goto(a, "labels")
    /\ UNCHANGED <<boot, outside, live, keys, holder, got, named, tried>>

SetLabelKeys(a) ==
    /\ stage = "serving" /\ pc[a] = "labels"
    /\ keys' = IF cfg.metricsOn THEN LabelKeys(got[a].rules) ELSE keys
    /\ Goto(a, "warn")
    /\ UNCHANGED <<boot, outside, live, eng, holder, got, named, tried>>

(* Mutant: live is replaced before it is compared.                         *)
NamesNothing(a) == live' = got[a] /\ named' = named \cup RestartRequired(live', got[a])

Report(a) == live' = got[a] /\ named' = named \cup RestartRequired(live, got[a])

(* The warning, live = newCfg and the deferred unlock.                     *)
Finish(a) ==
    /\ stage = "serving" /\ pc[a] = "warn"
    /\ Report(a)
    /\ holder' = Free /\ Goto(a, "done") /\ got' = [got EXCEPT ![a] = cfg]
    /\ UNCHANGED <<boot, outside, eng, keys, tried>>

(* The goroutine goes back to its channel; a request is answered once.     *)
HupDone == /\ pc["hup"] = "done" /\ Goto("hup", "idle")
           /\ UNCHANGED <<boot, outside, live, eng, keys, holder, got, named, tried>>

Reloading(a) == Lock(a) \/ Load(a) \/ SwapEngine(a) \/ SetLabelKeys(a) \/ Finish(a)

Done == stage = "exited" /\ UNCHANGED agentVars

AgentNext ==
    \/ LoadConfig \/ OpenStore \/ BuildPolicies \/ StartExporters \/ NotifySignals
    \/ ListenFails \/ Stop \/ Hup \/ HupTooEarly \/ TakeSignal \/ HupDone \/ Done
    \/ \E doc \in EditDocs : Edit(doc)
    \/ \E c \in Clients : Post(c)
    \/ \E a \in Actors : Reloading(a)

(* The goroutines that are ready to run are run; a request that is made    *)
(* goes through the closure, and Go's mutex hands itself to a waiter that  *)
(* has waited long.  Nothing obliges anyone to edit, signal or post.       *)
Fairness ==
    /\ WF_agentVars(TakeSignal) /\ WF_agentVars(HupDone)
    /\ \A a \in Actors : WF_agentVars(Load(a) \/ SwapEngine(a) \/ SetLabelKeys(a) \/ Finish(a))
    /\ \A a \in Actors : SF_agentVars(Lock(a))

AgentSpec == AgentInit /\ [][AgentNext]_agentVars /\ Fairness

(***************************************************************************)
(* Properties                                                              *)
(***************************************************************************)
(* Whenever no reload is under way, the engine, the label keys of the      *)
(* metrics and live come from one and the same load of the file, whatever  *)
(* order SIGHUP and POST /api/reload run in (cli.go:1215-1250).            *)
EngineMatchesLive ==
    holder = Free /\ stage = "serving" /\ (\A a \in Actors : pc[a] \in {"idle", "lock", "done"})
        => /\ eng = live.rules
           /\ cfg.metricsOn => keys = LabelKeys(live.rules)

(* A setting that RestartRequired knows and whose value in live is not the *)
(* one the agent was started with has been named by some warning, over any *)
(* number of reloads (cli.go:1240-1246, config.go:1014-1036).              *)
ChangesNamed ==
    holder = Free /\ stage = "serving" => RestartRequired(cfg, live) \subseteq named

(* Start-up gives up on a document that Load accepted only when something  *)
(* outside fails: no later step refuses what Validate let through, and no  *)
(* rule or detector is dropped in silence (cli.go:1006-1213).  One setting *)
(* is outside of this: with a flush_interval such as "0s", which Validate  *)
(* takes although nothing can tick that often, an exporter's worker may    *)
(* panic (config.go:1305, export.go:202); no other document ever does.     *)
AcceptedDocumentStarts ==
    /\ refused \notin {"store", "policies", "exporters"}
    /\ refused = "panic" => TickerPanics(cfg)
    /\ stage \notin {"load", "exited"} => DetectorsKept(cfg) /\ RulesCompileWhole(cfg)

(* An edit that a SIGHUP follows is read: the version in the file at any   *)
(* signal, or a later one, is loaded, although the channel holds a single  *)
(* signal and drops the others (cli.go:1341-1348).                         *)
HupTakesEffect ==
    \A v \in 1..MaxEdits : (asked >= v) ~> (tried >= v \/ stage = "exited")
=============================================================================
