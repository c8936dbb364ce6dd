---------------------------- MODULE MCDispatcher ----------------------------
(* The small instance of Dispatcher that Dispatcher.cfg describes: exporter*)
(* 1 takes records only and hangs in Export, exporter 2 takes both streams *)
(* and may fail.  The run checks liveness, so no symmetry is declared.     *)
EXTENDS Dispatcher
=============================================================================
