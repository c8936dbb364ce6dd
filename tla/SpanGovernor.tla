---------------------------- MODULE SpanGovernor ----------------------------
(***************************************************************************)
(* spans.Governor: what one inner span goes through before it is stored.   *)
(* A span is [parent, blank, took, failed, leaks]: the request's span it   *)
(* hangs from, whether its name is empty once trimmed, its duration,       *)
(* whether it carries an error text, and the secrets in it, each with the  *)
(* place it sits in (the error text or an attribute) and the pattern that  *)
(* would match it.                                                         *)
(***************************************************************************)
EXTENDS TelCounter

CONSTANTS
    SpanPolicy,     \* telemetry.spans: [enabled, dropOrphans, minDuration,
                    \* maxPerRequest, patterns, fields]
    DefaultMaxPer   \* DefaultMaxPerRequest

ASSUME SpanAssumption ==
    /\ DefaultMaxPer \in Nat \ {0}
    /\ SpanPolicy.minDuration \in Nat /\ SpanPolicy.maxPerRequest \in Int

NoParent == "none"      \* an empty parent span id

(* The cap New settles on: 0 takes the default, a negative one is no cap,  *)
(* which the counter spells 0.                                             *)
MaxPer ==
    IF SpanPolicy.maxPerRequest = 0 THEN DefaultMaxPer
    ELSE IF SpanPolicy.maxPerRequest < 0 THEN 0 ELSE SpanPolicy.maxPerRequest

(* clean: patterns run over the error text and every attribute value.      *)
Matched(leak) == leak.pattern \in SpanPolicy.patterns

(* scrub: a named attribute goes whole, everything else by pattern.        *)
Scrub(s) == [s EXCEPT !.leaks = {k \in @ : ~(k.at \in SpanPolicy.fields \/ Matched(k))}]

Kept == "kept"

(* Admit's answer: Kept, or the reason the span is dropped for.  A failed  *)
(* operation is never too fast.                                            *)
Admit(s, c) ==
    IF ~SpanPolicy.enabled THEN "disabled"
    ELSE IF s.blank THEN "empty"
    ELSE IF s.parent = NoParent /\ SpanPolicy.dropOrphans THEN "orphan"
    ELSE IF SpanPolicy.minDuration > 0 /\ ~s.failed /\ s.took < SpanPolicy.minDuration THEN "too_fast"
    ELSE IF s.parent # NoParent /\ ~Allows(c, s.parent, MaxPer) THEN "request_cap"
    ELSE Kept

(* The counter after Admit: only a span that got past every other test     *)
(* reaches it.                                                             *)
AfterAdmit(s, c) ==
    IF Admit(s, c) = Kept /\ s.parent # NoParent THEN Count(c, s.parent, MaxPer) ELSE c
=============================================================================
