-------------------------- MODULE MCTelemetryStore --------------------------
(***************************************************************************)
(* Three tenants, two of which differ only in the case of their names.     *)
(* The records of one of these have a trace id, those of the third have    *)
(* none.  With three values the counter of ClickHouse's ids wraps at the   *)
(* third row.                                                              *)
(***************************************************************************)
EXTENDS TelemetryStore, TLC

CaseTwins == [acme |-> "acme", ACME |-> "acme", umbra |-> "umbra"]
MCOrigins == {<<"t1", "acme">>, <<"none", "umbra">>}
=============================================================================
