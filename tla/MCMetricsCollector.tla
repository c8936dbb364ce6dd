------------------------ MODULE MCMetricsCollector ------------------------
(***************************************************************************)
(* One custom label that a reload adds or removes, three values for it and *)
(* a budget of one value: two observations overrun it, and a third can     *)
(* fall into a relabel.                                                    *)
(***************************************************************************)
EXTENDS MetricsCollector, TLC

CONSTANTS k1, v1, v2, v3, o1, o2, o3

MCKeys == {k1}
MCValues == {v1, v2, v3}
MCObservers == {o1, o2, o3}
MCFirst == <<k1>>
MCSchemas == {<<>>, <<k1>>}

Perms == Permutations(MCValues) \cup Permutations(MCObservers)
=============================================================================
