---------------------------- MODULE LogGovernor ----------------------------
(***************************************************************************)
(* applog.Governor: what one log line goes through before anything can     *)
(* store it.  The free text of a line is reduced to its leaks: where a     *)
(* secret sits (the message or a field) and which pattern would match it.  *)
(***************************************************************************)
EXTENDS TelCounter, FiniteSetsExt

CONSTANTS
    Global,     \* telemetry.app_logs: [dropOrphans, minRank, maxLines, patterns, fields]
    Rules       \* the rules' logs blocks: a set of [routes, drop, minRank, maxLines,
                \* patterns, fields]; minRank -1 and maxLines 0 override nothing

ASSUME GovernorAssumption ==
    /\ Global.maxLines \in Nat /\ Global.minRank \in Int
    /\ IsFiniteSet(Rules)
    /\ \A r \in Rules : r.maxLines \in Nat /\ r.minRank \in Int

None == "none"          \* an empty span id, an empty route
Kept == "kept"
-----------------------------------------------------------------------------
(* The global policy tightened by every rule that matches the route: a     *)
(* higher floor, a lower cap, more patterns and fields, and drop.          *)
Resolve(route) ==
    LET on == {r \in Rules : route # None /\ route \in r.routes}
        caps == {n \in {Global.maxLines} \cup {r.maxLines : r \in on} : n > 0}
    IN  [drop |-> \E r \in on : r.drop,
         minRank |-> Max({Global.minRank} \cup {r.minRank : r \in on}),
         maxLines |-> IF caps = {} THEN 0 ELSE Min(caps),
         patterns |-> Global.patterns \cup UNION {r.patterns : r \in on},
         fields |-> Global.fields \cup UNION {r.fields : r \in on}]

(* The leaks a resolved policy takes out: named fields go whole, the rest  *)
(* by pattern, in the message and in every field.                          *)
Covered(leak, eff) == leak.pattern \in eff.patterns \/ leak.at \in eff.fields

Scrub(line) ==
    [line EXCEPT !.leaks = {k \in @ : ~Covered(k, Resolve(line.route))}]

(* Admit's answer: Kept or the reason the line is dropped for.  Only a     *)
(* line that passes every other test reaches the counter.                  *)
Admit(line, c) ==
    LET eff == Resolve(line.route) IN
    IF line.span = None /\ Global.dropOrphans THEN "orphan"
    ELSE IF eff.drop THEN "rule_drop"
    ELSE IF eff.minRank >= 0 /\ line.rank < eff.minRank THEN "level"
    ELSE IF line.blank THEN "empty"
    ELSE IF line.span # None /\ ~Allows(c, line.span, eff.maxLines) THEN "span_cap"
    ELSE Kept

(* Whether Admit got as far as the counter.                                *)
Counts(line, c) == Admit(line, c) \in {Kept, "span_cap"} /\ line.span # None

AfterAdmit(line, c) ==
    IF Counts(line, c) THEN Count(c, line.span, Resolve(line.route).maxLines) ELSE c
=============================================================================
