-------------------------- MODULE MCAppLogPipeline --------------------------
(***************************************************************************)
(* The global policy allows two lines per span and redacts pattern p1; a   *)
(* rule for route r1 redacts p2 as well and allows one line.               *)
(***************************************************************************)
EXTENDS AppLogPipeline

MCGlobal == [dropOrphans |-> TRUE, minRank |-> 1, maxLines |-> 2,
             patterns |-> {"p1"}, fields |-> {}]
MCRules == {[routes |-> {"r1"}, drop |-> FALSE, minRank |-> -1, maxLines |-> 1,
             patterns |-> {"p2"}, fields |-> {"f1"}]}

Leaks == {[at |-> "message", pattern |-> "p1"], [at |-> "f2", pattern |-> "p2"],
          [at |-> "f1", pattern |-> "p3"]}
Line(id, way, span, route) ==
    [id |-> id, way |-> way, span |-> span, rank |-> 2, route |-> route,
     blank |-> FALSE, leaks |-> Leaks]

(* Three lines through the SDK, three through the child's output, or one   *)
(* request that logs both ways; capped lines and an orphan among them.     *)
SdkLines == <<Line(1, "sdk", "s1", "r1"), Line(2, "sdk", "s1", None), Line(3, "sdk", "s2", None)>>
ChildLines == <<Line(1, "child", "s1", "r1"), Line(2, "child", "s1", None), Line(3, "child", None, None)>>
BothWays == <<Line(1, "sdk", "s1", None), Line(2, "child", "s1", None), Line(3, "child", "s1", None)>>
MCScripts == {SdkLines, ChildLines, BothWays}
=============================================================================
