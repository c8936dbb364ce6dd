--------------------------- MODULE MCInterceptor ---------------------------
(***************************************************************************)
(* Two small configurations and four kinds of request.  "plain" has no     *)
(* rules on JSON fields; "lead" tags leads by a body criterion and masks   *)
(* them, and restricts and meters one GraphQL operation.  The mask on      *)
(* "email" is written with a wildcard path, so Validate, which compares    *)
(* paths as text, accepts the json label next to it.                       *)
(*                                                                         *)
(* Interceptor names the fields of a payload and takes their masking as a  *)
(* difference of sets.  What redaction and the other readers of a path do  *)
(* with a whole body is checked here on the bodies, policies and patterns  *)
(* of MCRedaction.                                                         *)
(***************************************************************************)
EXTENDS Interceptor, MCRedaction, TLC

NoLabels == <<>>
Rule == [routes |-> {"api", "gql"}, when |-> {}, restrict |-> {}, redact |-> {},
         labels |-> NoLabels, meters |-> {}, sample |-> "unset",
         keepErrors |-> "unset", keepSlower |-> FALSE]

PlainEngine ==
    [capture |-> {"request_body", "response_body", "headers"},
     rules |-> << [Rule EXCEPT !.sample = "some", !.redact = {"card"}],
                  [Rule EXCEPT !.routes = {"gql"}, !.keepSlower = TRUE,
                               !.restrict = {"response_body"}, !.meters = {"tokens"}],
                  [Rule EXCEPT !.routes = {"gql"}, !.when = {"op_login"},
                               !.keepErrors = "yes"] >>]

LeadEngine ==
    [capture |-> {"request_body", "response_body", "headers"},
     rules |-> << [Rule EXCEPT !.sample = "some", !.redact = {"card"},
                               !.when = {"internal"}],
                  [Rule EXCEPT !.routes = {"api"}, !.sample = "some",
                      !.labels = [who |-> [kind |-> "json", field |-> "email"]]],
                  [Rule EXCEPT !.routes = {"api"}, !.when = {"is_lead"},
                               !.redact = {"email"}, !.keepErrors = "yes"],
                  [Rule EXCEPT !.routes = {"gql"}, !.restrict = {"response_body"}],
                  [Rule EXCEPT !.routes = {"gql"}, !.when = {"op_login"},
                               !.restrict = {"request_body"}, !.sample = "none",
                               !.meters = {"tokens"}] >>]

MCEngineOf == [plain |-> PlainEngine, lead |-> LeadEngine]
MCBodyField == [is_lead |-> "kind"]

Kind == [path |-> "api", line |-> {}, op |-> {}, bodyFacts |-> {},
         fields |-> {"kind", "email", "card"}, body |-> "json"]

MCKinds == {[Kind EXCEPT !.bodyFacts = {"is_lead"}, !.line = {"internal"}],
            [Kind EXCEPT !.bodyFacts = {"is_lead"}, !.body = "cut"],
            [Kind EXCEPT !.path = "gql", !.op = {"op_login"}, !.line = {"internal"}],
            [Kind EXCEPT !.path = "gql", !.op = {"op_login"}, !.body = "plain"]}

RequestSymmetry == Permutations(Requests)
-----------------------------------------------------------------------------
(* A record is stored with a request body only as redaction leaves it:     *)
(* whatever body and whatever paths its policy masks, exactly what these   *)
(* address is replaced (renderBody calls RedactJSONBody).                  *)
MaskedExactly ==
    \A r \in Requests : record[r].emitted /\ record[r].hasReq => RedactionExact

(* Whatever body a record is made from, its labels, its meters and the     *)
(* rules that match its path read exactly what redaction would mask by the *)
(* same path (emit: Labels, ExtractMeters and EvaluateAttrs).              *)
ReadersExact ==
    \A r \in Requests : record[r].emitted => WalkersAgree
=============================================================================
