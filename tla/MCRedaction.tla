---------------------------- MODULE MCRedaction -----------------------------
(***************************************************************************)
(* Bodies with two names and up to four levels of maps and arrays.  Every  *)
(* pattern of one or two segments is a policy of one path; longer ones and *)
(* pairs, of which one may address what the other has masked, are chosen.  *)
(***************************************************************************)
EXTENDS Redaction

Keys == {"a", "b"}
N(n) == [t |-> "num", v |-> n]
S(n) == [t |-> "str", v |-> n]
Map(f) == [t |-> "map", fields |-> f]
Arr(s) == [t |-> "arr", items |-> s]
One(k, x) == Map([j \in {k} |-> x])
Both(x, y) == Map([j \in Keys |-> IF j = "a" THEN x ELSE y])

Leaf == {N(1), S(7)}
Flat == {One(k, x) : k \in Keys, x \in Leaf} \cup {Both(N(2), S(8)), Map(<<>>)}
Inner == Flat \cup {Arr(<<x, One("b", N(4))>>) : x \in Flat} \cup {Arr(<<>>), Arr(<<N(1), N(2)>>)}

MCBodies ==
    {Both(x, y) : x \in Inner, y \in {S(9), One("a", N(1))}}
    \cup {One("a", Both(x, One("b", x))) : x \in Inner}
    \cup {Arr(<<x, One("a", x)>>) : x \in Flat}

Segments == Keys \cup {"*", "**"}
UpTo(n) == UNION {[1..k -> Segments] : k \in 1..n}
Long == {<<"**", "a", "b">>, <<"a", "**", "b">>, <<"*", "*", "b">>, <<"**", "**", "a">>,
         <<"**", "b", "*">>, <<"a", "b", "**">>, <<"*", "**", "a">>, <<"a", "a", "b">>}

MCPatterns == UpTo(2) \cup Long
MCPolicies == {<<p>> : p \in MCPatterns}
                  \cup {<<<<"a", "*">>, <<"**", "b">>>>, <<<<"*", "a", "b">>, <<"a">>>>,
                        <<<<"**", "a", "b">>, <<"*", "**", "b">>>>}
=============================================================================
