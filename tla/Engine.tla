------------------------------- MODULE Engine -------------------------------
(***************************************************************************)
(* engine.Engine: the governance policy of a request is the merge of the   *)
(* defaults and every matching rule, in declaration order.                 *)
(*                                                                         *)
(* A rule is a record                                                      *)
(*   routes      the paths its glob and method list select                 *)
(*   when        the facts its criteria need: header, query, body and      *)
(*               graphql_operation conditions                              *)
(*   restrict    the channels it closes                                    *)
(*   redact      the JSON fields it masks                                  *)
(*   labels      a function from label names to [kind, field]              *)
(*   meters      the response fields it meters                             *)
(*   sample      "unset", "none", "some" or "all"                          *)
(*   keepErrors  "unset", "yes" or "no"                                    *)
(*   keepSlower  it has a keep_slower_than threshold                       *)
(* and an engine is [capture |-> the default channels, rules |-> a         *)
(* sequence of rules].  What a caller knows of a request is its path and   *)
(* the facts that are known and true: a criterion that is false and one    *)
(* that cannot be decided yet are alike, the rule does not apply.          *)
(***************************************************************************)
EXTENDS Integers, Sequences

Channels == {"request_body", "response_body", "headers", "query"}

(* The method, path, criteria and operation tests at the top of the loop.  *)
Matches(rule, path, facts) == path \in rule.routes /\ rule.when \subseteq facts

Matched(eng, path, facts) ==
    {i \in DOMAIN eng.rules : Matches(eng.rules[i], path, facts)}

LastOf(I) == CHOOSE i \in I : \A j \in I : j <= i

(* A setting that later rules override: the last matching rule that has it.*)
LastSet(eng, I, setting, default) ==
    LET J == {i \in I : eng.rules[i][setting] # "unset"}
    IN  IF J = {} THEN default ELSE eng.rules[LastOf(J)][setting]

(* Mutant: a later rule that does not restrict a channel opens it again.   *)
LastRestriction(eng, I) ==
    eng.capture \ (IF I = {} THEN {} ELSE eng.rules[LastOf(I)].restrict)

(* Restrictions only ever narrow capture.                                  *)
Captured(eng, I) == eng.capture \ UNION {eng.rules[i].restrict : i \in I}

(* Redactions accumulate.                                                  *)
Redacted(eng, I) == UNION {eng.rules[i].redact : i \in I}

(* Labels accumulate; a name defined twice is the last rule's.             *)
Labelled(eng, I) ==
    [n \in UNION {DOMAIN eng.rules[i].labels : i \in I} |->
        eng.rules[LastOf({i \in I : n \in DOMAIN eng.rules[i].labels})].labels[n]]

(* EvaluateAttrs                                                           *)
Evaluate(eng, path, facts) ==
    LET I == Matched(eng, path, facts)
        R(i) == eng.rules[i]
    IN  [matched |-> I,
         route |-> IF I = {} THEN 0 ELSE LastOf(I),
         capture |-> Captured(eng, I),
         redact |-> Redacted(eng, I),
         labels |-> Labelled(eng, I),
         meters |-> UNION {R(i).meters : i \in I},
         sample |-> LastSet(eng, I, "sample", "all"),
         keepErrors |-> LastSet(eng, I, "keepErrors", "no") = "yes",
         keepSlower |-> \E i \in I : R(i).keepSlower]

(* KeepBody: the draw keeps, a tail rule rescues; nothing suppresses.      *)
KeepBody(policy, drew, failed, slow) ==
    drew \/ (policy.keepErrors /\ failed) \/ (policy.keepSlower /\ slow)

TailSampled(policy) == policy.keepErrors \/ policy.keepSlower

(* BodyRulePaths, as the interceptor uses it: does some rule on this path  *)
(* read the request body, for a criterion or for a label?                  *)
NeedsRequestBody(eng, bodyFacts, path) ==
    \E i \in DOMAIN eng.rules :
        /\ path \in eng.rules[i].routes
        /\ \/ eng.rules[i].when \cap bodyFacts # {}
           \/ \E n \in DOMAIN eng.rules[i].labels : eng.rules[i].labels[n].kind = "json"

(* NeedsResponseBody: over all rules, whatever their path.                 *)
NeedsResponseBody(eng) ==
    \E i \in DOMAIN eng.rules : \E n \in DOMAIN eng.rules[i].labels :
        eng.rules[i].labels[n].kind = "json_response"
=============================================================================
